----------------------------- MODULE VectorProofs -----------------------------
(* The vector indexer's pipeline keeps its promise to the pass that calls it,    *)
(* for any files, workers, writers and channel capacities; and the remote store  *)
(* the writers use is safe, for any workers, widths, losses, drops and retries;  *)
(* and so is what the enrichment passes write beside them, over any passes.      *)
EXTENDS VectorPipeline, VectorStore, Enrichment, FiniteSetTheorems, SequenceTheorems, TLAPS

-----------------------------------------------------------------------------
(* What a channel, or a group of files, holds as it grows and shrinks. *)

LEMMA HoldsNone == ToSet(<<>>) = {} /\ IsInjective(<<>>)
  BY DEF ToSet, IsInjective

LEMMA HoldsOne ==
    ASSUME NEW S, NEW x \in S
    PROVE  ToSet(<<x>>) = {x} /\ IsInjective(<<x>>) /\ <<x>> \in Seq(S) /\ <<x>> # <<>>
<1>1. <<x>> \in Seq(S) /\ Len(<<x>>) = 1 /\ DOMAIN <<x>> = {1} /\ <<x>>[1] = x
  OBVIOUS
<1>2. \A a, b \in DOMAIN <<x>> : a = b
  BY <1>1
<1> QED BY <1>1, <1>2 DEF ToSet, IsInjective

LEMMA HoldsMore ==
    ASSUME NEW S, NEW s \in Seq(S), NEW x \in S
    PROVE  /\ Append(s, x) \in Seq(S) /\ Append(s, x) # <<>>
           /\ ToSet(Append(s, x)) = ToSet(s) \cup {x}
           /\ IsInjective(s) /\ x \notin ToSet(s) => IsInjective(Append(s, x))
<1> DEFINE t == Append(s, x)
           n == Len(s)
<1>1. t \in Seq(S) /\ Len(t) = n + 1 /\ n \in Nat /\ DOMAIN t = 1 .. n + 1 /\ DOMAIN s = 1 .. n
  OBVIOUS
<1>2. t[n + 1] = x /\ \A i \in 1 .. n : t[i] = s[i]
  OBVIOUS
<1> HIDE DEF t, n
<1>3. ToSet(t) = ToSet(s) \cup {x}
  <2>1. ASSUME NEW y \in ToSet(t) PROVE y \in ToSet(s) \cup {x}
    BY <1>1, <1>2 DEF ToSet
  <2>2. ASSUME NEW y \in ToSet(s) PROVE y \in ToSet(t)
    <3>1. PICK i \in 1 .. n : y = s[i]
      BY <1>1 DEF ToSet
    <3>2. i \in DOMAIN t /\ y = t[i]
      BY <1>1, <1>2, <3>1
    <3> QED BY <3>2 DEF ToSet
  <2>3. x \in ToSet(t)
    <3>1. n + 1 \in DOMAIN t
      BY <1>1
    <3> QED BY <1>2, <3>1 DEF ToSet
  <2> QED BY <2>1, <2>2, <2>3
<1>4. ASSUME IsInjective(s), x \notin ToSet(s) PROVE IsInjective(t)
  <2> SUFFICES ASSUME NEW a \in 1 .. n + 1, NEW b \in 1 .. n + 1, t[a] = t[b] PROVE a = b
    BY <1>1 DEF IsInjective
  <2>1. \A i \in 1 .. n : s[i] # x
    BY <1>1, <1>4 DEF ToSet
  <2>2. CASE a \in 1 .. n /\ b \in 1 .. n
    BY <1>1, <1>2, <1>4, <2>2 DEF IsInjective
  <2>3. CASE a = n + 1 \/ b = n + 1
    BY <1>1, <1>2, <2>1, <2>3
  <2> QED BY <1>1, <2>2, <2>3
<1>5. t # <<>>
  BY <1>1
<1> QED BY <1>1, <1>3, <1>4, <1>5 DEF t

LEMMA HoldsLess ==
    ASSUME NEW S, NEW s \in Seq(S), s # <<>>, IsInjective(s)
    PROVE  /\ Head(s) \in S /\ Head(s) \in ToSet(s)
           /\ Tail(s) \in Seq(S) /\ IsInjective(Tail(s))
           /\ ToSet(Tail(s)) = ToSet(s) \ {Head(s)}
           /\ Len(s) = 1 <=> Tail(s) = <<>>
<1> DEFINE t == Tail(s)
           n == Len(s)
<1>1. n \in Nat /\ n > 0 /\ t \in Seq(S) /\ Len(t) = n - 1 /\ DOMAIN t = 1 .. n - 1 /\ DOMAIN s = 1 .. n
  OBVIOUS
<1>2. Head(s) = s[1] /\ \A i \in 1 .. n - 1 : t[i] = s[i + 1]
  OBVIOUS
<1>3. s[1] \in S
  BY <1>1
<1> HIDE DEF t, n
<1>4. \A a, b \in 1 .. n : s[a] = s[b] => a = b
  BY <1>1 DEF IsInjective
<1>5. IsInjective(t)
  <2> SUFFICES ASSUME NEW a \in 1 .. n - 1, NEW b \in 1 .. n - 1, t[a] = t[b] PROVE a = b
    BY <1>1 DEF IsInjective
  <2>1. a + 1 \in 1 .. n /\ b + 1 \in 1 .. n /\ s[a + 1] = s[b + 1]
    BY <1>1, <1>2
  <2>2. a + 1 = b + 1
    BY <1>4, <2>1
  <2> QED BY <2>2
<1>6. ToSet(t) = ToSet(s) \ {s[1]}
  <2>1. ASSUME NEW y \in ToSet(t) PROVE y \in ToSet(s) /\ y # s[1]
    <3>1. PICK i \in 1 .. n - 1 : y = t[i]
      BY <1>1 DEF ToSet
    <3>2. i + 1 \in 1 .. n /\ y = s[i + 1] /\ 1 \in 1 .. n /\ i + 1 # 1
      BY <1>1, <1>2, <3>1
    <3> QED BY <1>1, <1>4, <3>2 DEF ToSet
  <2>2. ASSUME NEW y \in ToSet(s), y # s[1] PROVE y \in ToSet(t)
    <3>1. PICK i \in 1 .. n : y = s[i]
      BY <1>1 DEF ToSet
    <3>2. i - 1 \in 1 .. n - 1 /\ y = t[i - 1]
      BY <1>1, <1>2, <2>2, <3>1
    <3> QED BY <1>1, <3>2 DEF ToSet
  <2> QED BY <2>1, <2>2
<1>7. s[1] \in ToSet(s)
  <2>1. 1 \in DOMAIN s
    BY <1>1
  <2> QED BY <2>1 DEF ToSet
<1>8. n = 1 <=> t = <<>>
  BY <1>1
<1> QED BY <1>1, <1>2, <1>3, <1>5, <1>6, <1>7, <1>8 DEF t, n

LEMMA NonEmptyHolds ==
    ASSUME NEW S, NEW s \in Seq(S)
    PROVE  ToSet(s) \subseteq S /\ (s # <<>> => ToSet(s) # {})
<1>1. Len(s) \in Nat /\ DOMAIN s = 1 .. Len(s) /\ \A i \in 1 .. Len(s) : s[i] \in S
  OBVIOUS
<1>2. s # <<>> => 1 \in DOMAIN s
  BY <1>1
<1> QED BY <1>1, <1>2 DEF ToSet
-----------------------------------------------------------------------------
WorkerRec == [pc : {"idle", "pack", "embed", "push", "solo", "soloPush", "gone"}, group : Seq(PipeFiles)]
WriterRec == [pc : {"idle", "delete", "upsert", "gone"}, file : PipeFiles \cup {NoFile}]

(* One worker, or one writer, moves. *)
WorkerAt(w, r) == worker' = [worker EXCEPT ![w] = r]
WriterAt(v, r) == writer' = [writer EXCEPT ![v] = r]

LEMMA WorkerMoves ==
    ASSUME PipeInv, NEW w \in EmbedWorkers, NEW r \in WorkerRec, WorkerAt(w, r), IsInjective(r.group)
    PROVE  /\ worker' \in [EmbedWorkers -> WorkerRec]
           /\ worker'[w] = r /\ \A u \in EmbedWorkers : u # w => worker'[u] = worker[u]
           /\ \A u \in EmbedWorkers : IsInjective(worker'[u].group)
  BY DEF PipeInv, PipeTypeOK, WorkerAt, WorkerRec

LEMMA WriterMoves ==
    ASSUME PipeInv, NEW v \in Writers, NEW r \in WriterRec, WriterAt(v, r)
    PROVE  /\ writer' \in [Writers -> WriterRec]
           /\ writer'[v] = r /\ \A u \in Writers : u # v => writer'[u] = writer[u]
  BY DEF PipeInv, PipeTypeOK, WriterAt, WriterRec

LEMMA Typed ==
    ASSUME PipeInv
    PROVE  /\ worker \in [EmbedWorkers -> WorkerRec] /\ writer \in [Writers -> WriterRec]
           /\ \A w \in EmbedWorkers : worker[w].group \in Seq(PipeFiles) /\ IsInjective(worker[w].group)
           /\ jobs \in Seq(PipeFiles) /\ IsInjective(jobs) /\ stores \in Seq(PipeFiles) /\ IsInjective(stores)
           /\ toRead \subseteq PipeFiles
           /\ outcome \in [PipeFiles -> {"open", "indexed", "failed", "skipped"}]
           /\ points \in [PipeFiles -> {"old", "none", "new"}]
           /\ StagesInOrder /\ \A f \in PipeFiles : FileInOnePlace(f)
  BY DEF PipeInv, PipeTypeOK, WorkerRec, WriterRec

LEMMA PipeStarts == PipeInit => PipeInv
<1> SUFFICES ASSUME PipeInit PROVE PipeInv
  OBVIOUS
<1>1. PipeTypeOK
  <2>1. <<>> \in Seq(PipeFiles)
    OBVIOUS
  <2> QED BY <2>1, HoldsNone DEF PipeInit, PipeTypeOK, At, Writing
<1>2. StagesInOrder
  BY DEF PipeInit, StagesInOrder, At, Writing
<1>3. ASSUME NEW f \in PipeFiles PROVE FileInOnePlace(f)
  BY HoldsNone DEF PipeInit, FileInOnePlace, InGroup, Writes, At, Writing
<1> QED BY <1>1, <1>2, <1>3 DEF PipeInv

-----------------------------------------------------------------------------
LEMMA CallKeeps == PipeInv /\ CallIndex => PipeInv'
<1> SUFFICES ASSUME PipeInv, CallIndex PROVE PipeInv'
  OBVIOUS
<1>1. PipeTypeOK'
  BY DEF PipeInv, PipeTypeOK, CallIndex
<1>2. StagesInOrder'
  BY DEF PipeInv, StagesInOrder, CallIndex
<1>3. \A f \in PipeFiles : FileInOnePlace(f)'
  <2>1. UNCHANGED <<toRead, jobs, worker, stores, writer, outcome, points>>
    BY DEF CallIndex
  <2> QED BY <2>1, Typed DEF FileInOnePlace, InGroup, Writes
<1> QED BY <1>1, <1>2, <1>3 DEF PipeInv

LEMMA ProduceKeeps ==
    ASSUME PipeInv, NEW f \in PipeFiles, Produce(f)
    PROVE  PipeInv'
<1>1. /\ returned = "no" /\ jobsOpen /\ f \in toRead /\ toRead' = toRead \ {f}
      /\ UNCHANGED <<jobsOpen, worker, stores, storesOpen, writer, points, cancelled, returned>>
  BY DEF Produce
<1>2. CASE (\E how \in {"skipped", "failed"} : outcome' = [outcome EXCEPT ![f] = how]) /\ UNCHANGED jobs
  <2>1. PICK how \in {"skipped", "failed"} : outcome' = [outcome EXCEPT ![f] = how]
    BY <1>2
  <2>2. /\ outcome' \in [PipeFiles -> {"open", "indexed", "failed", "skipped"}]
        /\ outcome'[f] = how /\ how # "open" /\ \A g \in PipeFiles : g # f => outcome'[g] = outcome[g]
    BY <2>1, Typed
  <2>3. PipeTypeOK'
    BY <1>1, <1>2, <2>2 DEF PipeInv, PipeTypeOK
  <2>4. StagesInOrder'
    BY <1>1, <1>2, Typed DEF StagesInOrder
  <2>5. ASSUME NEW g \in PipeFiles PROVE FileInOnePlace(g)'
    <3>1. FileInOnePlace(g)
      BY Typed
    <3>2. FileInOnePlace(f)
      BY Typed
    <3> QED BY <1>1, <1>2, <2>2, <3>1, <3>2 DEF FileInOnePlace, InGroup, Writes
  <2> QED BY <2>3, <2>4, <2>5 DEF PipeInv
<1>3. CASE jobs' = Append(jobs, f) /\ UNCHANGED outcome
  <2>1. f \notin ToSet(jobs)
    BY <1>1, Typed DEF FileInOnePlace
  <2>2. /\ jobs' \in Seq(PipeFiles) /\ IsInjective(jobs') /\ ToSet(jobs') = ToSet(jobs) \cup {f}
    BY <1>3, <2>1, Typed, HoldsMore
  <2>3. PipeTypeOK'
    BY <1>1, <1>3, <2>2 DEF PipeInv, PipeTypeOK
  <2>4. StagesInOrder'
    BY <1>1, Typed DEF StagesInOrder
  <2>5. ASSUME NEW g \in PipeFiles PROVE FileInOnePlace(g)'
    <3>1. FileInOnePlace(g) /\ FileInOnePlace(f)
      BY Typed
    <3> QED BY <1>1, <1>3, <2>2, <3>1 DEF FileInOnePlace, InGroup, Writes
  <2> QED BY <2>3, <2>4, <2>5 DEF PipeInv
<1> QED BY <1>2, <1>3 DEF Produce

LEMMA CloseKeeps == PipeInv /\ (CloseJobs \/ CloseStores \/ Cancel \/ IndexReturns) => PipeInv'
<1> SUFFICES ASSUME PipeInv, CloseJobs \/ CloseStores \/ Cancel \/ IndexReturns PROVE PipeInv'
  OBVIOUS
<1>1. UNCHANGED <<toRead, jobs, worker, stores, writer, outcome, points>>
  BY DEF CloseJobs, CloseStores, Cancel, IndexReturns
<1>2. PipeTypeOK'
  BY <1>1 DEF PipeInv, PipeTypeOK, CloseJobs, CloseStores, Cancel, IndexReturns
<1>3. StagesInOrder'
  <2>1. CASE CloseJobs
    BY <1>1, <2>1, Typed DEF StagesInOrder, CloseJobs
  <2>2. CASE CloseStores
    BY <1>1, <2>2, Typed DEF StagesInOrder, CloseStores
  <2>3. CASE Cancel
    BY <1>1, <2>3, Typed DEF StagesInOrder, Cancel
  <2>4. CASE IndexReturns
    BY <1>1, <2>4, Typed DEF StagesInOrder, IndexReturns
  <2> QED BY <2>1, <2>2, <2>3, <2>4
<1>4. \A f \in PipeFiles : FileInOnePlace(f)'
  BY <1>1, Typed DEF FileInOnePlace, InGroup, Writes
<1> QED BY <1>2, <1>3, <1>4 DEF PipeInv

-----------------------------------------------------------------------------
LEMMA TakeJobKeeps ==
    ASSUME PipeInv, NEW w \in EmbedWorkers, TakeJob(w)
    PROVE  PipeInv'
<1> DEFINE h == Head(jobs)
           r == At("pack", <<h>>)
<1>1. /\ worker[w].pc = "idle" /\ jobs # <<>> /\ WorkerAt(w, r) /\ jobs' = Tail(jobs)
      /\ UNCHANGED <<toRead, jobsOpen, stores, storesOpen, writer, outcome, points, cancelled, returned>>
  BY DEF TakeJob, WorkerAt
<1>2. /\ h \in PipeFiles /\ h \in ToSet(jobs) /\ Tail(jobs) \in Seq(PipeFiles) /\ IsInjective(Tail(jobs))
      /\ ToSet(Tail(jobs)) = ToSet(jobs) \ {h}
  BY <1>1, Typed, HoldsLess
<1> HIDE DEF h
<1>3. ToSet(<<h>>) = {h} /\ IsInjective(<<h>>) /\ <<h>> \in Seq(PipeFiles) /\ <<h>> # <<>>
  BY <1>2, HoldsOne
<1>4. r \in WorkerRec /\ r.pc = "pack" /\ r.group = <<h>>
  BY <1>3 DEF At, WorkerRec
<1> HIDE DEF r
<1>5. /\ worker' \in [EmbedWorkers -> WorkerRec]
      /\ worker'[w] = r /\ \A u \in EmbedWorkers : u # w => worker'[u] = worker[u]
      /\ \A u \in EmbedWorkers : IsInjective(worker'[u].group)
  BY <1>1, <1>3, <1>4, WorkerMoves
<1>6. PipeTypeOK'
  BY <1>1, <1>2, <1>5 DEF PipeInv, PipeTypeOK, WorkerRec
<1>7. StagesInOrder'
  BY <1>1, <1>3, <1>4, <1>5, Typed DEF StagesInOrder
<1>8. ASSUME NEW f \in PipeFiles PROVE FileInOnePlace(f)'
  <2>1. FileInOnePlace(f) /\ FileInOnePlace(h)
    BY <1>2, Typed
  <2>2. worker[w].group = <<>> /\ ~InGroup(w, f)
    BY <1>1, Typed, HoldsNone DEF StagesInOrder, InGroup
  <2>3. (InGroup(w, f)' <=> f = h) /\ \A u \in EmbedWorkers : u # w => (InGroup(u, f)' <=> InGroup(u, f))
    BY <1>3, <1>4, <1>5 DEF InGroup
  <2>4. \A v \in Writers : Writes(v, f)' <=> Writes(v, f)
    BY <1>1 DEF Writes
  <2>5. f \in ToSet(jobs') <=> f \in ToSet(jobs) /\ f # h
    BY <1>1, <1>2
  <2> QED BY <1>1, <1>2, <2>1, <2>2, <2>3, <2>4, <2>5 DEF FileInOnePlace
<1> QED BY <1>6, <1>7, <1>8 DEF PipeInv
(* A worker goes on with the files it has. *)
LEMMA SameGroup ==
    ASSUME PipeInv, NEW w \in EmbedWorkers, NEW pc, WorkerAt(w, [worker[w] EXCEPT !.pc = pc]),
           pc \in {"embed", "push", "solo", "soloPush", "gone"},
           pc # "gone" => worker[w].group # <<>>,
           pc = "gone" => worker[w].group = <<>> /\ jobs = <<>> /\ ~jobsOpen,
           returned # "not called",
           UNCHANGED <<toRead, jobs, jobsOpen, stores, storesOpen, writer, outcome, points, cancelled, returned>>
    PROVE  PipeInv'
<1> DEFINE r == [worker[w] EXCEPT !.pc = pc]
<1>1. r \in WorkerRec /\ r.pc = pc /\ r.group = worker[w].group
  BY Typed DEF WorkerRec
<1> HIDE DEF r
<1>2. /\ worker' \in [EmbedWorkers -> WorkerRec]
      /\ worker'[w] = r /\ \A u \in EmbedWorkers : u # w => worker'[u] = worker[u]
      /\ \A u \in EmbedWorkers : IsInjective(worker'[u].group)
  BY <1>1, Typed, WorkerMoves DEF r
<1>3. PipeTypeOK'
  BY <1>2 DEF PipeInv, PipeTypeOK, WorkerRec
<1>4. StagesInOrder'
  BY <1>1, <1>2, Typed DEF StagesInOrder
<1>5. ASSUME NEW f \in PipeFiles PROVE FileInOnePlace(f)'
  <2>1. \A u \in EmbedWorkers : InGroup(u, f)' <=> InGroup(u, f)
    BY <1>1, <1>2 DEF InGroup
  <2>2. \A v \in Writers : Writes(v, f)' <=> Writes(v, f)
    BY DEF Writes
  <2> QED BY <2>1, <2>2, Typed DEF FileInOnePlace
<1> QED BY <1>3, <1>4, <1>5 DEF PipeInv

(* A worker that has a job, or none left to wait for, works in a run. *)
LEMMA InARun ==
    ASSUME PipeInv
    PROVE  /\ \A w \in EmbedWorkers : worker[w].pc # "idle" /\ worker[w].pc # "gone" =>
                 returned = "no" /\ worker[w].group # <<>>
           /\ \A v \in Writers : writer[v].pc \in {"delete", "upsert"} => returned = "no" /\ writer[v].file \in PipeFiles
           /\ ~jobsOpen => returned # "not called"
<1>1. returned \in {"not called", "no", "complete", "cancelled"} /\ StagesInOrder
  BY DEF PipeInv, PipeTypeOK
<1> QED BY <1>1 DEF StagesInOrder

LEMMA PackKeeps ==
    ASSUME PipeInv, NEW w \in EmbedWorkers, Pack(w)
    PROVE  PipeInv'
<1>1. /\ worker[w].pc = "pack" /\ worker[w].group # <<>> /\ returned = "no"
      /\ UNCHANGED <<toRead, jobsOpen, stores, storesOpen, writer, outcome, points, cancelled, returned>>
  BY InARun DEF Pack
<1>2. CASE worker' = [worker EXCEPT ![w].pc = "embed"] /\ UNCHANGED jobs
  <2>1. WorkerAt(w, [worker[w] EXCEPT !.pc = "embed"])
    BY <1>2 DEF WorkerAt
  <2> QED BY <1>1, <1>2, <2>1, SameGroup
<1>3. CASE jobs # <<>> /\ worker' = [worker EXCEPT ![w].group = Append(@, Head(jobs))] /\ jobs' = Tail(jobs)
  <2> DEFINE h == Head(jobs)
             g == Append(worker[w].group, h)
             r == [worker[w] EXCEPT !.group = g]
  <2>1. /\ h \in PipeFiles /\ h \in ToSet(jobs) /\ Tail(jobs) \in Seq(PipeFiles) /\ IsInjective(Tail(jobs))
        /\ ToSet(Tail(jobs)) = ToSet(jobs) \ {h}
    BY <1>3, Typed, HoldsLess
  <2>2. h \notin ToSet(worker[w].group)
    <3>1. FileInOnePlace(h)
      BY <2>1, Typed
    <3> QED BY <2>1, <3>1 DEF FileInOnePlace, InGroup
  <2>3. WorkerAt(w, r)
    BY <1>3 DEF WorkerAt
  <2> HIDE DEF h
  <2>4. g \in Seq(PipeFiles) /\ g # <<>> /\ ToSet(g) = ToSet(worker[w].group) \cup {h} /\ IsInjective(g)
    <3> DEFINE o == worker[w].group
    <3>1. o \in Seq(PipeFiles) /\ IsInjective(o) /\ h \notin ToSet(o)
      BY <2>2, Typed
    <3> HIDE DEF o
    <3>2. /\ Append(o, h) \in Seq(PipeFiles) /\ Append(o, h) # <<>>
          /\ ToSet(Append(o, h)) = ToSet(o) \cup {h} /\ IsInjective(Append(o, h))
      BY <2>1, <3>1, HoldsMore
    <3> QED BY <3>2 DEF o
  <2> HIDE DEF g
  <2>5. r \in WorkerRec /\ r.pc = "pack" /\ r.group = g
    BY <1>1, <2>4, Typed DEF WorkerRec
  <2> HIDE DEF r
  <2>6. /\ worker' \in [EmbedWorkers -> WorkerRec]
        /\ worker'[w] = r /\ \A u \in EmbedWorkers : u # w => worker'[u] = worker[u]
        /\ \A u \in EmbedWorkers : IsInjective(worker'[u].group)
    BY <2>3, <2>4, <2>5, WorkerMoves
  <2>7. PipeTypeOK'
    BY <1>1, <1>3, <2>1, <2>6 DEF PipeInv, PipeTypeOK, WorkerRec
  <2>8. StagesInOrder'
    BY <1>1, <1>3, <2>4, <2>5, <2>6, Typed DEF StagesInOrder
  <2>9. ASSUME NEW f \in PipeFiles PROVE FileInOnePlace(f)'
    <3>1. FileInOnePlace(f) /\ FileInOnePlace(h)
      BY <2>1, Typed
    <3>2. /\ InGroup(w, f)' <=> InGroup(w, f) \/ f = h
          /\ \A u \in EmbedWorkers : u # w => (InGroup(u, f)' <=> InGroup(u, f))
      BY <2>4, <2>5, <2>6 DEF InGroup
    <3>3. \A v \in Writers : Writes(v, f)' <=> Writes(v, f)
      BY <1>1 DEF Writes
    <3>4. f \in ToSet(jobs') <=> f \in ToSet(jobs) /\ f # h
      BY <1>3, <2>1
    <3> QED BY <1>1, <2>1, <3>1, <3>2, <3>3, <3>4 DEF FileInOnePlace
  <2> QED BY <2>7, <2>8, <2>9 DEF PipeInv
<1> QED BY <1>2, <1>3 DEF Pack

LEMMA OnlyPcKeeps ==
    ASSUME PipeInv, NEW w \in EmbedWorkers, WorkerEnds(w) \/ EmbedOk(w) \/ SoloOk(w)
    PROVE  PipeInv'
<1>1. CASE WorkerEnds(w)
  <2>1. worker[w].group = <<>> /\ returned # "not called"
    BY <1>1, InARun, Typed DEF WorkerEnds, StagesInOrder
  <2>2. WorkerAt(w, [worker[w] EXCEPT !.pc = "gone"])
    BY <1>1 DEF WorkerEnds, WorkerAt
  <2> QED BY <1>1, <2>1, <2>2, SameGroup DEF WorkerEnds
<1>2. CASE EmbedOk(w)
  <2>1. worker[w].group # <<>> /\ returned = "no"
    BY <1>2, InARun DEF EmbedOk
  <2>2. WorkerAt(w, [worker[w] EXCEPT !.pc = "push"])
    BY <1>2 DEF EmbedOk, WorkerAt
  <2> QED BY <1>2, <2>1, <2>2, SameGroup DEF EmbedOk
<1>3. CASE SoloOk(w)
  <2>1. worker[w].group # <<>> /\ returned = "no"
    BY <1>3, InARun DEF SoloOk
  <2>2. WorkerAt(w, [worker[w] EXCEPT !.pc = "soloPush"])
    BY <1>3 DEF SoloOk, WorkerAt
  <2> QED BY <1>3, <2>1, <2>2, SameGroup DEF SoloOk
<1> QED BY <1>1, <1>2, <1>3
(* The group without its first file. *)
LEMMA OnwardGroup ==
    ASSUME PipeInv, NEW w \in EmbedWorkers, NEW pc \in {"push", "solo"}, worker[w].group # <<>>
    PROVE  LET h == Head(worker[w].group)
               r == Onward(w, pc) IN
           /\ r \in WorkerRec /\ IsInjective(r.group) /\ r.pc # "gone" /\ (r.pc = "idle" <=> r.group = <<>>)
           /\ h \in PipeFiles /\ InGroup(w, h)
           /\ ToSet(r.group) = ToSet(worker[w].group) \ {h}
<1> DEFINE o == worker[w].group
           h == Head(o)
           r == Onward(w, pc)
<1>1. o \in Seq(PipeFiles) /\ IsInjective(o) /\ o # <<>>
  BY Typed
<1>2. r = IF Len(o) = 1 THEN At("idle", <<>>) ELSE At(pc, Tail(o))
  BY DEF Onward
<1>3. InGroup(w, h) <=> h \in ToSet(o)
  BY DEF InGroup
<1> HIDE DEF o, r
<1>4. /\ h \in PipeFiles /\ h \in ToSet(o) /\ Tail(o) \in Seq(PipeFiles) /\ IsInjective(Tail(o))
      /\ ToSet(Tail(o)) = ToSet(o) \ {h}
      /\ Len(o) = 1 <=> Tail(o) = <<>>
  BY <1>1, HoldsLess
<1>5. r.group = Tail(o) /\ r.pc # "gone" /\ (r.pc = "idle" <=> Tail(o) = <<>>) /\ r \in WorkerRec
  <2>1. CASE Len(o) = 1
    <3>1. r = At("idle", <<>>) /\ Tail(o) = <<>>
      BY <1>2, <1>4, <2>1
    <3> QED BY <3>1, <1>4 DEF At, WorkerRec
  <2>2. CASE Len(o) # 1
    <3>1. r = At(pc, Tail(o)) /\ Tail(o) # <<>>
      BY <1>2, <1>4, <2>2
    <3> QED BY <3>1, <1>4 DEF At, WorkerRec
  <2> QED BY <2>1, <2>2
<1> QED BY <1>3, <1>4, <1>5 DEF o, r

LEMMA SoloFailsKeeps ==
    ASSUME PipeInv, NEW w \in EmbedWorkers, SoloFails(w)
    PROVE  PipeInv'
<1> DEFINE h == Head(worker[w].group)
           r == Onward(w, "solo")
<1>1. /\ worker[w].pc = "solo" /\ worker[w].group # <<>> /\ returned = "no" /\ WorkerAt(w, r)
      /\ outcome' = [outcome EXCEPT ![h] = "failed"]
      /\ UNCHANGED <<toRead, jobs, jobsOpen, stores, storesOpen, writer, points, cancelled, returned>>
  BY InARun DEF SoloFails, WorkerAt
<1>2. /\ r \in WorkerRec /\ IsInjective(r.group) /\ r.pc # "gone" /\ (r.pc = "idle" <=> r.group = <<>>)
      /\ h \in PipeFiles /\ InGroup(w, h)
      /\ ToSet(r.group) = ToSet(worker[w].group) \ {h}
  BY <1>1, OnwardGroup
<1> HIDE DEF h, r
<1>3. /\ worker' \in [EmbedWorkers -> WorkerRec]
      /\ worker'[w] = r /\ \A u \in EmbedWorkers : u # w => worker'[u] = worker[u]
      /\ \A u \in EmbedWorkers : IsInjective(worker'[u].group)
  BY <1>1, <1>2, WorkerMoves
<1>4. /\ outcome' \in [PipeFiles -> {"open", "indexed", "failed", "skipped"}]
      /\ outcome'[h] = "failed" /\ \A g \in PipeFiles : g # h => outcome'[g] = outcome[g]
  BY <1>1, <1>2, Typed
<1>5. PipeTypeOK'
  BY <1>1, <1>3, <1>4 DEF PipeInv, PipeTypeOK, WorkerRec
<1>6. StagesInOrder'
  BY <1>1, <1>2, <1>3, Typed DEF StagesInOrder
<1>7. ASSUME NEW f \in PipeFiles PROVE FileInOnePlace(f)'
  <2>1. FileInOnePlace(f) /\ FileInOnePlace(h)
    BY <1>2, Typed
  <2>2. /\ InGroup(w, f)' <=> InGroup(w, f) /\ f # h
        /\ \A u \in EmbedWorkers : u # w => (InGroup(u, f)' <=> InGroup(u, f))
    BY <1>2, <1>3 DEF InGroup
  <2>3. \A v \in Writers : Writes(v, f)' <=> Writes(v, f)
    BY <1>1 DEF Writes
  <2> QED BY <1>1, <1>2, <1>4, <2>1, <2>2, <2>3 DEF FileInOnePlace
<1> QED BY <1>5, <1>6, <1>7 DEF PipeInv

LEMMA PushStoreKeeps ==
    ASSUME PipeInv, NEW w \in EmbedWorkers, PushStore(w)
    PROVE  PipeInv'
<1> DEFINE h == Head(worker[w].group)
           r == Onward(w, IF worker[w].pc = "push" THEN "push" ELSE "solo")
<1>1. /\ worker[w].pc \in {"push", "soloPush"} /\ worker[w].group # <<>> /\ returned = "no" /\ WorkerAt(w, r)
      /\ stores' = Append(stores, h)
      /\ UNCHANGED <<toRead, jobs, jobsOpen, storesOpen, writer, outcome, points, cancelled, returned>>
  BY InARun DEF PushStore, WorkerAt
<1>2. /\ r \in WorkerRec /\ IsInjective(r.group) /\ r.pc # "gone" /\ (r.pc = "idle" <=> r.group = <<>>)
      /\ h \in PipeFiles /\ InGroup(w, h)
      /\ ToSet(r.group) = ToSet(worker[w].group) \ {h}
  <2>1. PICK pc \in {"push", "solo"} : pc = IF worker[w].pc = "push" THEN "push" ELSE "solo"
    OBVIOUS
  <2>2. r = Onward(w, pc)
    BY <2>1
  <2> HIDE DEF r
  <2> QED BY <1>1, <2>2, OnwardGroup
<1> HIDE DEF h, r
<1>3. /\ worker' \in [EmbedWorkers -> WorkerRec]
      /\ worker'[w] = r /\ \A u \in EmbedWorkers : u # w => worker'[u] = worker[u]
      /\ \A u \in EmbedWorkers : IsInjective(worker'[u].group)
  BY <1>1, <1>2, WorkerMoves
<1>4. stores' \in Seq(PipeFiles) /\ IsInjective(stores') /\ ToSet(stores') = ToSet(stores) \cup {h}
  <2>1. FileInOnePlace(h)
    BY <1>2, Typed
  <2>2. h \notin ToSet(stores)
    BY <1>2, <2>1 DEF FileInOnePlace
  <2> QED BY <1>1, <1>2, <2>2, Typed, HoldsMore
<1>5. PipeTypeOK'
  BY <1>1, <1>3, <1>4 DEF PipeInv, PipeTypeOK, WorkerRec
<1>6. StagesInOrder'
  BY <1>1, <1>2, <1>3, Typed DEF StagesInOrder
<1>7. ASSUME NEW f \in PipeFiles PROVE FileInOnePlace(f)'
  <2>1. FileInOnePlace(f) /\ FileInOnePlace(h)
    BY <1>2, Typed
  <2>2. /\ InGroup(w, f)' <=> InGroup(w, f) /\ f # h
        /\ \A u \in EmbedWorkers : u # w => (InGroup(u, f)' <=> InGroup(u, f))
    BY <1>2, <1>3 DEF InGroup
  <2>3. \A v \in Writers : Writes(v, f)' <=> Writes(v, f)
    BY <1>1 DEF Writes
  <2> QED BY <1>1, <1>2, <1>4, <2>1, <2>2, <2>3 DEF FileInOnePlace
<1> QED BY <1>5, <1>6, <1>7 DEF PipeInv

LEMMA EmbedFailsKeeps ==
    ASSUME PipeInv, NEW w \in EmbedWorkers, EmbedFails(w)
    PROVE  PipeInv'
<1>1. /\ worker[w].pc = "embed" /\ worker[w].group # <<>> /\ returned = "no"
      /\ UNCHANGED <<toRead, jobs, jobsOpen, stores, storesOpen, writer, points, cancelled, returned>>
  BY InARun DEF EmbedFails
<1>2. CASE worker' = [worker EXCEPT ![w].pc = "solo"] /\ UNCHANGED outcome
  <2>1. WorkerAt(w, [worker[w] EXCEPT !.pc = "solo"])
    BY <1>2 DEF WorkerAt
  <2> QED BY <1>1, <1>2, <2>1, SameGroup
<1>3. CASE /\ worker' = [worker EXCEPT ![w] = At("idle", <<>>)]
           /\ outcome' = [f \in PipeFiles |-> IF f \in ToSet(worker[w].group) THEN "failed" ELSE outcome[f]]
  <2> DEFINE r == At("idle", <<>>)
  <2>1. r \in WorkerRec /\ r.pc = "idle" /\ r.group = <<>> /\ IsInjective(r.group) /\ ToSet(r.group) = {}
    BY HoldsNone DEF At, WorkerRec
  <2>2. WorkerAt(w, r)
    BY <1>3 DEF WorkerAt
  <2> HIDE DEF r
  <2>3. /\ worker' \in [EmbedWorkers -> WorkerRec]
        /\ worker'[w] = r /\ \A u \in EmbedWorkers : u # w => worker'[u] = worker[u]
        /\ \A u \in EmbedWorkers : IsInjective(worker'[u].group)
    BY <2>1, <2>2, WorkerMoves
  <2>4. /\ outcome' \in [PipeFiles -> {"open", "indexed", "failed", "skipped"}]
        /\ \A f \in PipeFiles : outcome'[f] = IF InGroup(w, f) THEN "failed" ELSE outcome[f]
    BY <1>3, Typed DEF InGroup
  <2>5. PipeTypeOK'
    BY <1>1, <2>3, <2>4 DEF PipeInv, PipeTypeOK, WorkerRec
  <2>6. StagesInOrder'
    BY <1>1, <2>1, <2>3, Typed DEF StagesInOrder
  <2>7. ASSUME NEW f \in PipeFiles PROVE FileInOnePlace(f)'
    <3>1. FileInOnePlace(f)
      BY Typed
    <3>2. /\ ~InGroup(w, f)'
          /\ \A u \in EmbedWorkers : u # w => (InGroup(u, f)' <=> InGroup(u, f))
      BY <2>1, <2>3 DEF InGroup
    <3>3. \A v \in Writers : Writes(v, f)' <=> Writes(v, f)
      BY <1>1 DEF Writes
    <3> QED BY <1>1, <2>4, <3>1, <3>2, <3>3 DEF FileInOnePlace
  <2> QED BY <2>5, <2>6, <2>7 DEF PipeInv
<1> QED BY <1>2, <1>3 DEF EmbedFails, embedFails
-----------------------------------------------------------------------------
LEMMA TakeStoreKeeps ==
    ASSUME PipeInv, NEW v \in Writers, TakeStore(v)
    PROVE  PipeInv'
<1> DEFINE h == Head(stores)
           r == Writing("delete", h)
<1>1. /\ writer[v].pc = "idle" /\ stores # <<>> /\ WriterAt(v, r) /\ stores' = Tail(stores)
      /\ UNCHANGED <<toRead, jobs, jobsOpen, worker, storesOpen, outcome, points, cancelled, returned>>
  BY DEF TakeStore, WriterAt
<1>2. /\ h \in PipeFiles /\ h \in ToSet(stores) /\ Tail(stores) \in Seq(PipeFiles) /\ IsInjective(Tail(stores))
      /\ ToSet(Tail(stores)) = ToSet(stores) \ {h}
  BY <1>1, Typed, HoldsLess
<1> HIDE DEF h
<1>3. r \in WriterRec /\ r.pc = "delete" /\ r.file = h
  BY <1>2 DEF Writing, WriterRec
<1> HIDE DEF r
<1>4. /\ writer' \in [Writers -> WriterRec]
      /\ writer'[v] = r /\ \A u \in Writers : u # v => writer'[u] = writer[u]
  BY <1>1, <1>3, WriterMoves
<1>5. PipeTypeOK'
  BY <1>1, <1>2, <1>4 DEF PipeInv, PipeTypeOK, WriterRec
<1>6. StagesInOrder'
  BY <1>1, <1>2, <1>3, <1>4, Typed DEF StagesInOrder
<1>7. ASSUME NEW f \in PipeFiles PROVE FileInOnePlace(f)'
  <2>1. FileInOnePlace(f) /\ FileInOnePlace(h)
    BY <1>2, Typed
  <2>2. /\ ~Writes(v, f) /\ (Writes(v, f)' <=> f = h)
        /\ \A u \in Writers : u # v => (Writes(u, f)' <=> Writes(u, f))
    BY <1>1, <1>3, <1>4 DEF Writes
  <2>3. \A w \in EmbedWorkers : InGroup(w, f)' <=> InGroup(w, f)
    BY <1>1 DEF InGroup
  <2>4. f \in ToSet(stores') <=> f \in ToSet(stores) /\ f # h
    BY <1>1, <1>2
  <2> QED BY <1>1, <1>2, <2>1, <2>2, <2>3, <2>4 DEF FileInOnePlace
<1> QED BY <1>5, <1>6, <1>7 DEF PipeInv

LEMMA DeleteOldKeeps ==
    ASSUME PipeInv, NEW v \in Writers, DeleteOld(v)
    PROVE  PipeInv'
<1> DEFINE r == [writer[v] EXCEPT !.pc = "upsert"]
<1>1. /\ writer[v].pc = "delete" /\ WriterAt(v, r) /\ points' = [points EXCEPT ![writer[v].file] = "none"]
      /\ UNCHANGED <<toRead, jobs, jobsOpen, worker, stores, storesOpen, outcome, cancelled, returned>>
  BY DEF DeleteOld, WriterAt
<1>2. r \in WriterRec /\ r.pc = "upsert" /\ r.file = writer[v].file /\ r.file \in PipeFiles
  BY <1>1, Typed, InARun DEF WriterRec
<1> HIDE DEF r
<1>3. /\ writer' \in [Writers -> WriterRec]
      /\ writer'[v] = r /\ \A u \in Writers : u # v => writer'[u] = writer[u]
  BY <1>1, <1>2, WriterMoves
<1>4. points' \in [PipeFiles -> {"old", "none", "new"}]
  BY <1>1, Typed
<1>5. PipeTypeOK'
  BY <1>1, <1>3, <1>4 DEF PipeInv, PipeTypeOK, WriterRec
<1>6. StagesInOrder'
  BY <1>1, <1>2, <1>3, Typed DEF StagesInOrder
<1>7. ASSUME NEW f \in PipeFiles PROVE FileInOnePlace(f)'
  <2>1. \A u \in Writers : Writes(u, f)' <=> Writes(u, f)
    BY <1>1, <1>2, <1>3 DEF Writes
  <2>2. \A w \in EmbedWorkers : InGroup(w, f)' <=> InGroup(w, f)
    BY <1>1 DEF InGroup
  <2> QED BY <1>1, <2>1, <2>2, Typed DEF FileInOnePlace
<1> QED BY <1>5, <1>6, <1>7 DEF PipeInv

(* A writer is done with its file: stored, or failed. *)
LEMMA FileDone ==
    ASSUME PipeInv, NEW v \in Writers, writer[v].pc \in {"delete", "upsert"},
           WriterAt(v, Writing("idle", NoFile)),
           NEW how \in {"indexed", "failed"}, outcome' = [outcome EXCEPT ![writer[v].file] = how],
           points' \in [PipeFiles -> {"old", "none", "new"}],
           UNCHANGED <<toRead, jobs, jobsOpen, worker, stores, storesOpen, cancelled, returned>>
    PROVE  PipeInv'
<1> DEFINE h == writer[v].file
           r == Writing("idle", NoFile)
<1>1. h \in PipeFiles /\ Writes(v, h) /\ returned = "no"
  BY InARun DEF Writes
<1>2. r \in WriterRec /\ r.pc = "idle"
  BY DEF Writing, WriterRec
<1> HIDE DEF r
<1>3. /\ writer' \in [Writers -> WriterRec]
      /\ writer'[v] = r /\ \A u \in Writers : u # v => writer'[u] = writer[u]
  BY <1>2, WriterMoves DEF r
<1>4. /\ outcome' \in [PipeFiles -> {"open", "indexed", "failed", "skipped"}]
      /\ outcome'[h] # "open" /\ \A g \in PipeFiles : g # h => outcome'[g] = outcome[g]
  BY <1>1, Typed
<1>5. PipeTypeOK'
  BY <1>3, <1>4 DEF PipeInv, PipeTypeOK, WriterRec
<1>6. StagesInOrder'
  BY <1>1, <1>2, <1>3, Typed DEF StagesInOrder
<1>7. ASSUME NEW f \in PipeFiles PROVE FileInOnePlace(f)'
  <2>1. FileInOnePlace(f) /\ FileInOnePlace(h)
    BY <1>1, Typed
  <2>2. ~Writes(v, f)' /\ (Writes(v, f) => f = h) /\ \A u \in Writers : u # v => (Writes(u, f)' <=> Writes(u, f))
    BY <1>2, <1>3 DEF Writes
  <2>3. \A w \in EmbedWorkers : InGroup(w, f)' <=> InGroup(w, f)
    BY DEF InGroup
  <2> HIDE DEF h
  <2> QED BY <1>1, <1>4, <2>1, <2>2, <2>3 DEF FileInOnePlace
<1> QED BY <1>5, <1>6, <1>7 DEF PipeInv

LEMMA WriterEndsKeeps ==
    ASSUME PipeInv, NEW v \in Writers, WriterEnds(v)
    PROVE  PipeInv'
<1> DEFINE r == [writer[v] EXCEPT !.pc = "gone"]
<1>1. /\ writer[v].pc = "idle" /\ stores = <<>> /\ ~storesOpen /\ WriterAt(v, r)
      /\ UNCHANGED <<toRead, jobs, jobsOpen, worker, stores, storesOpen, outcome, points, cancelled, returned>>
  BY DEF WriterEnds, WriterAt
<1>2. r \in WriterRec /\ r.pc = "gone"
  BY Typed DEF WriterRec
<1> HIDE DEF r
<1>3. /\ writer' \in [Writers -> WriterRec]
      /\ writer'[v] = r /\ \A u \in Writers : u # v => writer'[u] = writer[u]
  BY <1>1, <1>2, WriterMoves
<1>4. PipeTypeOK'
  BY <1>1, <1>3 DEF PipeInv, PipeTypeOK, WriterRec
<1>5. StagesInOrder'
  BY <1>1, <1>2, <1>3, Typed DEF StagesInOrder
<1>6. ASSUME NEW f \in PipeFiles PROVE FileInOnePlace(f)'
  <2>1. \A u \in Writers : Writes(u, f)' <=> Writes(u, f)
    BY <1>1, <1>2, <1>3 DEF Writes
  <2>2. \A w \in EmbedWorkers : InGroup(w, f)' <=> InGroup(w, f)
    BY <1>1 DEF InGroup
  <2> QED BY <1>1, <2>1, <2>2, Typed DEF FileInOnePlace
<1> QED BY <1>4, <1>5, <1>6 DEF PipeInv

LEMMA WriterKeeps ==
    ASSUME PipeInv, NEW v \in Writers, WriterNext(v)
    PROVE  PipeInv'
<1>1. CASE Upsert(v)
  <2>1. points' \in [PipeFiles -> {"old", "none", "new"}]
    BY <1>1, Typed DEF Upsert
  <2>2. /\ writer[v].pc \in {"delete", "upsert"} /\ WriterAt(v, Writing("idle", NoFile))
        /\ outcome' = [outcome EXCEPT ![writer[v].file] = "indexed"]
        /\ UNCHANGED <<toRead, jobs, jobsOpen, worker, stores, storesOpen, cancelled, returned>>
    BY <1>1 DEF Upsert, WriterAt
  <2> QED BY <2>1, <2>2, FileDone
<1>2. CASE StoreFails(v)
  <2>1. points' \in [PipeFiles -> {"old", "none", "new"}]
    BY <1>2, Typed DEF StoreFails
  <2>2. /\ writer[v].pc \in {"delete", "upsert"} /\ WriterAt(v, Writing("idle", NoFile))
        /\ outcome' = [outcome EXCEPT ![writer[v].file] = "failed"]
        /\ UNCHANGED <<toRead, jobs, jobsOpen, worker, stores, storesOpen, cancelled, returned>>
    BY <1>2 DEF StoreFails, WriterAt, afterFailure
  <2> QED BY <2>1, <2>2, FileDone
<1> QED BY <1>1, <1>2, TakeStoreKeeps, DeleteOldKeeps, WriterEndsKeeps DEF WriterNext

LEMMA PipeKeeps == PipeInv /\ [PipeNext]_pipeVars => PipeInv'
<1> SUFFICES ASSUME PipeInv, [PipeNext]_pipeVars PROVE PipeInv'
  OBVIOUS
<1>1. ASSUME NEW w \in EmbedWorkers, WorkerNext(w) PROVE PipeInv'
  BY <1>1, TakeJobKeeps, PackKeeps, OnlyPcKeeps, EmbedFailsKeeps, SoloFailsKeeps, PushStoreKeeps DEF WorkerNext
<1>2. ASSUME MainNext PROVE PipeInv'
  BY <1>2, CloseKeeps, ProduceKeeps DEF MainNext
<1>3. CASE UNCHANGED pipeVars
  <2>1. UNCHANGED <<toRead, jobs, jobsOpen, worker, stores, storesOpen, writer, outcome, points, cancelled, returned>>
    BY <1>3 DEF pipeVars
  <2>2. PipeTypeOK' /\ StagesInOrder'
    BY <2>1 DEF PipeInv, PipeTypeOK, StagesInOrder
  <2>3. \A f \in PipeFiles : FileInOnePlace(f)'
    BY <2>1, Typed DEF FileInOnePlace, InGroup, Writes
  <2> QED BY <2>2, <2>3 DEF PipeInv
<1> QED BY <1>1, <1>2, <1>3, CallKeeps, CloseKeeps, WriterKeeps DEF PipeNext

-----------------------------------------------------------------------------
(* A step of the pipeline, as FileOutcomes sees it. *)

LEMMA WorkerSettles ==
    ASSUME PipeInv, NEW w \in EmbedWorkers, WorkerNext(w)
    PROVE  Promise!OutcomesNext \/ UNCHANGED Promise!outcomeVars
<1>1. CASE TakeJob(w) \/ Pack(w) \/ WorkerEnds(w) \/ EmbedOk(w) \/ SoloOk(w) \/ PushStore(w)
  BY <1>1 DEF TakeJob, Pack, WorkerEnds, EmbedOk, SoloOk, PushStore, Promise!outcomeVars
<1>2. CASE SoloFails(w)
  <2> DEFINE h == Head(worker[w].group)
  <2>1. returned = "no" /\ worker[w].group # <<>>
    BY <1>2, InARun DEF SoloFails
  <2>2. h \in PipeFiles /\ InGroup(w, h)
    BY <2>1, OnwardGroup
  <2>3. outcome[h] = "open"
    BY <2>2, Typed DEF FileInOnePlace
  <2>4. outcome' = [f \in PipeFiles |-> IF f \in {h} THEN "failed" ELSE outcome[f]] /\ UNCHANGED <<points, returned>>
    BY <1>2, <2>2, Typed DEF SoloFails
  <2> HIDE DEF h
  <2>5. Promise!Settle({h}, "failed")
    BY <2>1, <2>3, <2>4 DEF Promise!Settle
  <2>6. {h} \in SUBSET PipeFiles
    BY <2>2
  <2> QED BY <2>5, <2>6 DEF Promise!OutcomesNext
<1>3. CASE EmbedFails(w)
  <2>1. CASE cancelled
    <3> DEFINE G == ToSet(worker[w].group)
    <3>1. returned = "no" /\ worker[w].group # <<>> /\ worker[w].group \in Seq(PipeFiles)
      BY <1>3, InARun, Typed DEF EmbedFails
    <3>2. G \in SUBSET PipeFiles /\ G # {}
      BY <3>1, NonEmptyHolds
    <3>3. \A f \in G : outcome[f] = "open"
      BY <3>2, Typed DEF FileInOnePlace, InGroup
    <3>4. outcome' = [f \in PipeFiles |-> IF f \in G THEN "failed" ELSE outcome[f]] /\ UNCHANGED <<points, returned>>
      BY <1>3, <2>1 DEF EmbedFails, embedFails
    <3> HIDE DEF G
    <3>5. Promise!Settle(G, "failed")
      BY <3>1, <3>2, <3>3, <3>4 DEF Promise!Settle
    <3> QED BY <3>2, <3>5 DEF Promise!OutcomesNext
  <2>2. CASE ~cancelled
    BY <1>3, <2>2 DEF EmbedFails, embedFails, Promise!outcomeVars
  <2> QED BY <2>1, <2>2
<1> QED BY <1>1, <1>2, <1>3 DEF WorkerNext

LEMMA WriterSettles ==
    ASSUME PipeInv, NEW v \in Writers, WriterNext(v)
    PROVE  Promise!OutcomesNext \/ UNCHANGED Promise!outcomeVars
<1> DEFINE h == writer[v].file
<1>1. CASE TakeStore(v) \/ WriterEnds(v)
  BY <1>1 DEF TakeStore, WriterEnds, Promise!outcomeVars
<1>2. CASE DeleteOld(v) \/ Upsert(v) \/ StoreFails(v)
  <2>1. returned = "no" /\ h \in PipeFiles /\ Writes(v, h)
    BY <1>2, InARun DEF DeleteOld, Upsert, StoreFails, Writes
  <2>2. outcome[h] = "open"
    BY <2>1, Typed DEF FileInOnePlace
  <2>3. CASE DeleteOld(v)
    <3>1. Promise!Write(h)
      BY <2>1, <2>2, <2>3 DEF DeleteOld, Promise!Write
    <3> HIDE DEF h
    <3> QED BY <2>1, <3>1 DEF Promise!OutcomesNext
  <2>4. CASE Upsert(v)
    <3>1. Promise!WriteAndSettle(h)
      BY <2>1, <2>2, <2>4 DEF Upsert, Promise!WriteAndSettle
    <3> HIDE DEF h
    <3> QED BY <2>1, <3>1 DEF Promise!OutcomesNext
  <2>5. CASE StoreFails(v)
    <3>1. outcome' = [f \in PipeFiles |-> IF f \in {h} THEN "failed" ELSE outcome[f]] /\ UNCHANGED <<points, returned>>
      BY <2>1, <2>5, Typed DEF StoreFails
    <3> HIDE DEF h
    <3>2. Promise!Settle({h}, "failed")
      BY <2>1, <2>2, <3>1 DEF Promise!Settle
    <3>3. {h} \in SUBSET PipeFiles
      BY <2>1
    <3> QED BY <3>2, <3>3 DEF Promise!OutcomesNext
  <2> QED BY <1>2, <2>3, <2>4, <2>5
<1> QED BY <1>1, <1>2 DEF WriterNext

LEMMA ProducerSettles ==
    ASSUME PipeInv, NEW f \in PipeFiles, Produce(f)
    PROVE  Promise!OutcomesNext \/ UNCHANGED Promise!outcomeVars
<1>1. returned = "no" /\ f \in toRead /\ UNCHANGED <<points, returned>>
  BY DEF Produce
<1>2. outcome[f] = "open"
  BY <1>1, Typed DEF FileInOnePlace
<1>3. CASE UNCHANGED outcome
  BY <1>1, <1>3 DEF Promise!outcomeVars
<1>4. ASSUME NEW how \in {"skipped", "failed"}, outcome' = [outcome EXCEPT ![f] = how]
      PROVE  Promise!OutcomesNext
  <2>1. outcome' = [g \in PipeFiles |-> IF g \in {f} THEN how ELSE outcome[g]]
    BY <1>4, Typed
  <2>2. Promise!Settle({f}, how)
    BY <1>1, <1>2, <2>1 DEF Promise!Settle
  <2>3. {f} \in SUBSET PipeFiles /\ how \in {"indexed", "failed", "skipped"}
    OBVIOUS
  <2> QED BY <2>2, <2>3 DEF Promise!OutcomesNext
<1> QED BY <1>3, <1>4 DEF Produce

(* A run that ends uncancelled has settled every file: each stage found the one *)
(* before it gone and its channel empty.                                        *)
LEMMA ReturnEnds ==
    ASSUME PipeInv, IndexReturns
    PROVE  Promise!OutcomesNext
<1>1. /\ returned = "no" /\ ~storesOpen /\ \A v \in Writers : writer[v].pc = "gone"
      /\ returned' = (IF cancelled THEN "cancelled" ELSE "complete") /\ UNCHANGED <<outcome, points>>
  BY DEF IndexReturns
<1>2. ~cancelled => \A f \in PipeFiles : outcome[f] # "open"
  <2> SUFFICES ASSUME ~cancelled, NEW f \in PipeFiles PROVE outcome[f] # "open"
    OBVIOUS
  <2>1. ~jobsOpen /\ \A w \in EmbedWorkers : worker[w].pc = "gone"
    BY <1>1, Typed DEF StagesInOrder
  <2>2. toRead = {} /\ \A w \in EmbedWorkers : worker[w].group = <<>>
    BY <2>1, Typed DEF StagesInOrder
  <2>3. jobs = <<>> /\ stores = <<>>
    BY <1>1, <2>1, Typed, PipelineAssumption DEF StagesInOrder
  <2>4. /\ f \notin ToSet(jobs) /\ f \notin ToSet(stores)
        /\ \A w \in EmbedWorkers : ~InGroup(w, f)
    BY <2>2, <2>3, HoldsNone DEF InGroup
  <2>5. \A v \in Writers : ~Writes(v, f)
    BY <1>1 DEF Writes
  <2> QED BY <2>2, <2>4, <2>5, Typed DEF FileInOnePlace
<1>3. Promise!End
  BY <1>1, <1>2 DEF Promise!End
<1> QED BY <1>3 DEF Promise!OutcomesNext

LEMMA PipeSettles == PipeInv /\ [PipeNext]_pipeVars => [Promise!OutcomesNext]_(Promise!outcomeVars)
<1> SUFFICES ASSUME PipeInv, [PipeNext]_pipeVars
             PROVE  Promise!OutcomesNext \/ UNCHANGED Promise!outcomeVars
  OBVIOUS
<1>1. CASE UNCHANGED pipeVars \/ CloseJobs \/ CloseStores \/ Cancel
  BY <1>1 DEF pipeVars, CloseJobs, CloseStores, Cancel, Promise!outcomeVars
<1>2. CASE CallIndex
  BY <1>2 DEF CallIndex, Promise!OutcomesNext, Promise!Call
<1> QED BY <1>1, <1>2, WorkerSettles, WriterSettles, ProducerSettles, ReturnEnds DEF PipeNext, MainNext

(***************************************************************************)
(* The pipeline implements the indexer's promise: every file is settled    *)
(* once and, when indexed, holds its new points, and a call that ends      *)
(* without an error has settled every file, whatever fails and whenever    *)
(* the run is cancelled (Index, embedGroup, storeFile).  That the call     *)
(* ends is left to TLC.                                                    *)
(***************************************************************************)
THEOREM PipelineImplementsOutcomes ==
    PipeSpec => Promise!OutcomesInit /\ [][Promise!OutcomesNext]_(Promise!outcomeVars)
<1>1. PipeInit => Promise!OutcomesInit
  BY DEF PipeInit, Promise!OutcomesInit
<1> QED BY <1>1, PipeStarts, PipeKeeps, PipeSettles, PTL DEF PipeSpec

-----------------------------------------------------------------------------
(* The remote store *)

(* What a request may do to the collection: nothing that changes its identity,  *)
(* with points written in its name, or its creation.                            *)
ServerKeeps ==
    /\ collection'.width = collection.width /\ collection'.life = collection.life /\ lives' = lives
    /\ ~Exists => collection' = collection
    /\ \A f \in VectorFiles : \/ collection'.points[f] \in {collection.points[f], NoPoint}
                              \/ collection'.points[f] \in PointType /\ OfItsLife(collection'.points[f])

ServerCreates ==
    ~Exists /\ lives' = lives + 1 /\ \E width \in Nat \ {0} : collection' = Created(width, lives + 1)

ServerStep == collection' \in CollectionType /\ lives' \in Nat /\ (ServerKeeps \/ ServerCreates)

LEMMA CreatedFields ==
    ASSUME NEW wd \in Nat, NEW life \in Nat
    PROVE  LET c == Created(wd, life) IN
           /\ c \in CollectionType /\ c.width = wd /\ c.life = life
           /\ \A f \in VectorFiles : c.points[f] = NoPoint
  BY DEF Created, NoCollection, CollectionType, PointType, NoPoint

LEMMA NoCollectionFields ==
    /\ NoCollection \in CollectionType /\ NoCollection.width = 0 /\ NoCollection.life = 0
    /\ \A f \in VectorFiles : NoCollection.points[f] = NoPoint
  BY DEF NoCollection, CollectionType, PointType, NoPoint

(* What was of its life stays so. *)
LEMMA LifeKept ==
    ASSUME VectorInv, ServerStep, NEW x, x.life \in Nat, OfItsLife(x)
    PROVE  x.life <= lives' /\ (Exists' /\ x.life = collection'.life => x.width = collection'.width)
<1>1. x.life <= lives /\ lives \in Nat /\ (Exists /\ x.life = collection.life => x.width = collection.width)
  BY DEF OfItsLife, VectorInv, VectorTypeOK
<1>2. CASE ServerKeeps
  BY <1>1, <1>2 DEF ServerKeeps, Exists
<1>3. CASE ServerCreates
  <2>1. collection'.life = lives + 1 /\ lives' = lives + 1
    BY <1>1, <1>3, CreatedFields DEF ServerCreates
  <2> QED BY <1>1, <2>1
<1> QED BY <1>2, <1>3 DEF ServerStep

LEMMA ServerInOrder ==
    ASSUME VectorInv, ServerStep
    PROVE  /\ Exists => Exists'
           /\ collection'.life <= lives' /\ (Exists' => collection'.life # 0)
           /\ ~Exists' => collection' = NoCollection
           /\ \A f \in VectorFiles : OfItsLife(collection.points[f])' \/ collection'.points[f] = NoPoint
<1>1. /\ lives \in Nat /\ collection \in CollectionType /\ collection.life <= lives
      /\ (Exists => collection.life # 0) /\ (~Exists => collection = NoCollection)
      /\ \A f \in VectorFiles : OfItsLife(collection.points[f]) \/ collection.points[f] = NoPoint
  BY DEF VectorInv, VectorTypeOK, LivesInOrder
<1>2. CASE ServerCreates
  <2>1. PICK width \in Nat \ {0} : collection' = Created(width, lives + 1)
    BY <1>2 DEF ServerCreates
  <2>2. /\ collection'.life = lives + 1 /\ collection'.width = width /\ lives' = lives + 1
        /\ \A f \in VectorFiles : collection'.points[f] = NoPoint
    BY <1>1, <1>2, <2>1, CreatedFields DEF ServerCreates
  <2> QED BY <1>1, <1>2, <2>2 DEF Exists, ServerCreates
<1>3. CASE ServerKeeps
  <2>1. /\ (Exists' <=> Exists) /\ collection'.life = collection.life /\ lives' = lives
        /\ ~Exists => collection' = collection
    BY <1>3 DEF ServerKeeps, Exists
  <2>2. ASSUME NEW f \in VectorFiles PROVE OfItsLife(collection.points[f])' \/ collection'.points[f] = NoPoint
    <3> DEFINE p == collection'.points[f]
    <3>1. p = NoPoint \/ (p \in PointType /\ OfItsLife(p))
      BY <1>1, <1>3 DEF ServerKeeps, CollectionType
    <3>2. CASE p \in PointType /\ OfItsLife(p)
      <4>1. p.life \in Nat
        BY <3>2 DEF PointType
      <4>2. p.life <= lives' /\ (Exists' /\ p.life = collection'.life => p.width = collection'.width)
        BY <3>2, <4>1, LifeKept
      <4> QED BY <4>2 DEF OfItsLife
    <3> QED BY <3>1, <3>2
  <2> QED BY <1>1, <2>1, <2>2
<1> QED BY <1>2, <1>3 DEF ServerStep

(* One call moves from vcall[w] to n, the server does what its request asks, and *)
(* the cache is set by a call that settles or left alone or cleared.             *)
LEMMA CallMoves ==
    ASSUME VectorInv, NEW w \in StoreWorkers, NEW n \in CallType, vcall' = [vcall EXCEPT ![w] = n],
           ServerStep, ready' \in PointType, vbudget' \in [calls : Nat, lost : Nat, drops : Nat],
           OfItsLife(ready)',
           n.life <= lives' /\ (Exists' /\ n.life = collection'.life => n.width = collection'.width),
           n.step \notin Ended \cup {"delete"} => n.width # 0,
           n.step = "missing" => ~n.calm,
           n.step \in {"index", "settle"} => Exists' \/ n.step = vcall[w].step,
           ready'.width # 0 => ready' = ready \/ vcall[w].step = "settle",
           n.step \notin Ended /\ n.calm =>
               \/ vcall[w].step \notin Ended /\ vcall[w].calm
               \/ n.step \notin {"index", "settle"} /\ \A v \in StoreWorkers \ {w} : vcall[v].step \in Ended,
           n.step \notin Ended /\ n.calm /\ n.again /\ (ready'.width # 0 \/ n.step = "put") => Exists'
    PROVE  VectorInv'
<1>1. /\ vcall' \in [StoreWorkers -> CallType] /\ vcall'[w] = n
      /\ \A u \in StoreWorkers : u # w => vcall'[u] = vcall[u]
  BY DEF VectorInv, VectorTypeOK
<1>2. VectorTypeOK'
  BY <1>1 DEF VectorTypeOK, ServerStep
<1>3. LivesInOrder'
  <2>1. ASSUME NEW u \in StoreWorkers PROVE OfItsLife(vcall[u])'
    <3>1. CASE u = w
      BY <1>1, <3>1 DEF OfItsLife
    <3>2. CASE u # w
      <4>1. vcall'[u] = vcall[u] /\ OfItsLife(vcall[u]) /\ vcall[u].life \in Nat
        BY <1>1, <3>2 DEF VectorInv, LivesInOrder, VectorTypeOK, CallType
      <4>2. vcall[u].life <= lives'
            /\ (Exists' /\ vcall[u].life = collection'.life => vcall[u].width = collection'.width)
        BY <4>1, LifeKept
      <4> QED BY <4>1, <4>2 DEF OfItsLife
    <3> QED BY <3>1, <3>2
  <2> QED BY <2>1, ServerInOrder DEF LivesInOrder
<1>4. CallsKeepWidth'
  BY <1>1 DEF VectorInv, CallsKeepWidth
<1>5. CacheNeverStrands'
  BY <1>1 DEF VectorInv, CacheNeverStrands
<1>6. CalmCallsSeeIt'
  <2> SUFFICES ASSUME NEW u \in StoreWorkers, vcall'[u].step \notin Ended, vcall'[u].calm
               PROVE  /\ \A x \in StoreWorkers : vcall'[x].step \in {"index", "settle"} => Exists'
                      /\ vcall'[u].again => (ready'.width # 0 \/ vcall'[u].step = "put" => Exists')
    BY DEF CalmCallsSeeIt
  <2>1. Exists => Exists'
    BY ServerInOrder
  <2>2. CASE vcall[u].step \notin Ended /\ vcall[u].calm
    <3>1. \A x \in StoreWorkers : vcall[x].step \in {"index", "settle"} => Exists
      BY <2>2 DEF VectorInv, CalmCallsSeeIt
    <3>2. \A x \in StoreWorkers : vcall'[x].step \in {"index", "settle"} => Exists'
      BY <1>1, <2>1, <3>1
    <3>3. vcall[u].again => (ready.width # 0 \/ vcall[u].step = "put" => Exists)
      BY <2>2 DEF VectorInv, CalmCallsSeeIt
    <3>4. CASE u = w
      BY <1>1, <3>2, <3>4
    <3>5. CASE u # w
      BY <1>1, <2>1, <3>1, <3>2, <3>3, <3>5
    <3> QED BY <3>4, <3>5
  <2>3. CASE ~(vcall[u].step \notin Ended /\ vcall[u].calm)
    <3>1. u = w /\ n.step \notin {"index", "settle"} /\ \A v \in StoreWorkers \ {w} : vcall[v].step \in Ended
      BY <1>1, <2>3
    <3>2. \A x \in StoreWorkers : vcall'[x].step \notin {"index", "settle"}
      BY <1>1, <3>1 DEF Ended
    <3> QED BY <1>1, <3>1, <3>2
  <2> QED BY <2>2, <2>3
<1> QED BY <1>2, <1>3, <1>4, <1>5, <1>6 DEF VectorInv

(* The calls' records. *)
LEMMA NoVCallFields ==
    /\ NoVCall \in CallType /\ NoVCall.step = "idle" /\ NoVCall.width = 0 /\ NoVCall.life = 0
    /\ NoVCall.again = FALSE /\ NoVCall.calm = TRUE /\ NoVCall.attempt = 0
  BY DEF NoVCall, CallType, Steps

LEMMA FailFields ==
    ASSUME NEW c \in CallType, NEW why \in {"modelChanged", "missing", "unreachable"}
    PROVE  /\ Fail(c, why) \in CallType /\ Fail(c, why).step = why /\ Fail(c, why).life = 0
           /\ Fail(c, why).calm = c.calm /\ Fail(c, why).width = 0 /\ why \in Ended
           /\ [Fail(c, why) EXCEPT !.attempt = 0] = Fail(c, why)
<1> DEFINE x == [NoVCall EXCEPT !.step = why, !.calm = c.calm]
<1>1. x \in CallType
  BY DEF NoVCall, CallType, Steps
<1>2. x.step = why /\ x.life = 0 /\ x.calm = c.calm /\ x.width = 0 /\ x.attempt = 0
  BY DEF NoVCall, CallType
<1>3. [x EXCEPT !.attempt = 0] = x
  <2> HIDE DEF x
  <2> QED BY <1>1, <1>2 DEF CallType
<1> QED BY <1>1, <1>2, <1>3 DEF Fail, Ended

LEMMA DoneFields ==
    LET d == [NoVCall EXCEPT !.step = "done"]
    IN /\ d \in CallType /\ d.step = "done" /\ d.life = 0 /\ d.width = 0 /\ "done" \in Ended
       /\ [d EXCEPT !.attempt = 0] = d
<1> DEFINE d == [NoVCall EXCEPT !.step = "done"]
<1>1. d \in CallType
  BY DEF NoVCall, CallType, Steps
<1>2. d.step = "done" /\ d.life = 0 /\ d.width = 0 /\ d.attempt = 0
  BY DEF NoVCall, CallType
<1>3. [d EXCEPT !.attempt = 0] = d
  <2> HIDE DEF d
  <2> QED BY <1>1, <1>2 DEF CallType
<1> QED BY <1>1, <1>2, <1>3 DEF Ended

(* A call at another step, of another life. *)
Goes(c, step, life, attempt, again) ==
    [c EXCEPT !.step = step, !.life = life, !.attempt = attempt, !.again = again]

LEMMA GoesFields ==
    ASSUME NEW c \in CallType, NEW step \in Steps, NEW life \in Nat, NEW attempt \in Nat, NEW again \in BOOLEAN
    PROVE  LET n == Goes(c, step, life, attempt, again) IN
           /\ n \in CallType /\ n.step = step /\ n.life = life /\ n.width = c.width
           /\ n.again = again /\ n.calm = c.calm
  BY DEF Goes, CallType

LEMMA CallFacts ==
    ASSUME VectorInv, NEW w \in StoreWorkers
    PROVE  LET c == vcall[w] IN
           /\ c \in CallType /\ c.step \in Steps /\ c.width \in Nat /\ c.life \in Nat /\ c.attempt \in Nat
           /\ c.again \in BOOLEAN /\ c.calm \in BOOLEAN
           /\ OfItsLife(c) /\ (c.step \notin Ended \cup {"delete"} => c.width # 0)
           /\ c.step \notin Ended /\ c.calm =>
                 /\ c.step \in {"index", "settle"} => Exists
                 /\ c.again => (ready.width # 0 \/ c.step = "put" => Exists)
  BY DEF VectorInv, VectorTypeOK, CallType, LivesInOrder, CallsKeepWidth, CalmCallsSeeIt

(* What the server does with a request. *)
LEMMA ServedSteps ==
    ASSUME VectorInv, NEW w \in StoreWorkers, vcall[w].step \in Requests,
           collection' = Served(vcall[w]), lives' = ServedLives(vcall[w])
    PROVE  /\ ServerStep
           /\ vcall[w].step # "create" => ServerKeeps
           /\ vcall[w].step = "create" /\ Exists => ServerKeeps
           /\ vcall[w].step = "create" /\ ~Exists =>
                collection'.width = vcall[w].width /\ collection'.life = lives + 1 /\ lives' = lives + 1
<1> DEFINE c == vcall[w]
<1>1. /\ c \in CallType /\ c.width \in Nat /\ c.life \in Nat /\ OfItsLife(c)
      /\ (c.step \notin Ended \cup {"delete"} => c.width # 0)
  BY CallFacts
<1>2. collection \in CollectionType /\ lives \in Nat
  BY DEF VectorInv, VectorTypeOK
<1>3. CASE c.step = "create" /\ ~Exists
  <2>1. collection' = Created(c.width, lives + 1) /\ lives' = lives + 1
    BY <1>3 DEF Served, ServedLives
  <2>2. c.width # 0
    BY <1>1, <1>3 DEF Ended
  <2>3. /\ collection' \in CollectionType /\ collection'.width = c.width /\ collection'.life = lives + 1
    BY <1>1, <1>2, <2>1, CreatedFields
  <2> QED BY <1>1, <1>2, <1>3, <2>1, <2>2, <2>3 DEF ServerStep, ServerCreates
<1>4. CASE ~(c.step = "create" /\ ~Exists)
  <2>0. lives' = lives
    BY <1>4 DEF ServedLives
  <2>1. CASE c.step = "index" /\ Exists
    <3>1. collection' = [collection EXCEPT !.indexed = TRUE]
      BY <2>1 DEF Served
    <3> QED BY <1>2, <2>0, <2>1, <3>1 DEF ServerStep, ServerKeeps, CollectionType
  <2>2. ASSUME NEW p \in PointType, OfItsLife(p) \/ p = NoPoint, Exists,
               collection' = [collection EXCEPT !.points[c.file] = p]
        PROVE  ServerStep /\ ServerKeeps
    <3>1. /\ collection' \in CollectionType
          /\ collection'.width = collection.width /\ collection'.life = collection.life
          /\ \A f \in VectorFiles : collection'.points[f] \in {collection.points[f], p}
      BY <1>2, <2>2 DEF CollectionType
    <3>2. ServerKeeps
      BY <2>0, <2>2, <3>1 DEF ServerKeeps
    <3> QED BY <1>2, <2>0, <3>1, <3>2 DEF ServerStep
  <2>3. CASE c.step = "put" /\ Exists
    <3> DEFINE p == [width |-> c.width, life |-> c.life]
    <3>1. p \in PointType /\ OfItsLife(p)
      BY <1>1 DEF PointType, OfItsLife
    <3>2. collection' = [collection EXCEPT !.points[c.file] = p]
      BY <2>3 DEF Served
    <3> HIDE DEF p
    <3> QED BY <2>2, <2>3, <3>1, <3>2
  <2>4. CASE c.step = "delete" /\ Exists
    <3>1. NoPoint \in PointType
      BY DEF NoPoint, PointType
    <3>2. collection' = [collection EXCEPT !.points[c.file] = NoPoint]
      BY <2>4 DEF Served
    <3> QED BY <2>2, <2>4, <3>1, <3>2
  <2>5. CASE ~Exists \/ c.step \notin {"index", "put", "delete"}
    <3>1. collection' = collection
      BY <1>4, <2>5 DEF Served
    <3>2. ServerKeeps
      BY <2>0, <3>1 DEF ServerKeeps
    <3> QED BY <1>2, <1>4, <2>0, <3>1, <3>2 DEF ServerStep
  <2> QED BY <1>4, <2>1, <2>3, <2>4, <2>5
<1> QED BY <1>3, <1>4

(* Steps of a call that leave the server alone. *)
LEMMA NoRequest ==
    ASSUME VectorInv, UNCHANGED <<collection, lives>>
    PROVE  ServerStep /\ (Exists' <=> Exists)
  BY DEF VectorInv, VectorTypeOK, ServerStep, ServerKeeps, Exists

(* The call ends: nothing is asked of its record but its calm. *)
LEMMA CallEnds ==
    ASSUME VectorInv, NEW w \in StoreWorkers, NEW n \in CallType, vcall' = [vcall EXCEPT ![w] = n],
           ServerStep, UNCHANGED ready, vbudget' \in [calls : Nat, lost : Nat, drops : Nat],
           n.step \in Ended, n.life = 0, n.step = "missing" => ~n.calm
    PROVE  VectorInv'
<1>1. ready \in PointType /\ ready.life \in Nat /\ OfItsLife(ready)
  BY DEF VectorInv, VectorTypeOK, LivesInOrder, PointType
<1>2. OfItsLife(ready)'
  <2>1. ready.life <= lives' /\ (Exists' /\ ready.life = collection'.life => ready.width = collection'.width)
    BY <1>1, LifeKept
  <2> QED BY <2>1 DEF OfItsLife
<1>3. n.life <= lives' /\ (Exists' /\ n.life = collection'.life => n.width = collection'.width)
  BY ServerInOrder DEF ServerStep
<1>4. n.step \notin {"index", "settle", "put"}
  BY DEF Ended
<1> QED BY <1>1, <1>2, <1>3, <1>4, CallMoves

(* The call goes on. *)
LEMMA CallGoes ==
    ASSUME VectorInv, NEW w \in StoreWorkers, NEW step \in Steps, NEW life \in Nat, NEW attempt \in Nat,
           NEW again \in BOOLEAN,
           vcall' = [vcall EXCEPT ![w] = Goes(vcall[w], step, life, attempt, again)],
           vcall[w].step \notin Ended, step \notin Ended, vcall[w].step = "delete" <=> step = "delete",
           ServerStep, ready' \in PointType, vbudget' \in [calls : Nat, lost : Nat, drops : Nat],
           OfItsLife(ready)',
           life = vcall[w].life \/ (life <= lives' /\ (Exists' /\ life = collection'.life =>
                                                         vcall[w].width = collection'.width)),
           step \in {"index", "settle"} => Exists' \/ step = vcall[w].step,
           ready'.width # 0 => ready' = ready \/ vcall[w].step = "settle",
           vcall[w].calm /\ again /\ (ready'.width # 0 \/ step = "put") => Exists'
    PROVE  VectorInv'
<1> DEFINE c == vcall[w]
           n == Goes(c, step, life, attempt, again)
<1>1. c \in CallType /\ OfItsLife(c) /\ (c.step \notin Ended \cup {"delete"} => c.width # 0) /\ c.life \in Nat
  BY CallFacts
<1>2. /\ n \in CallType /\ n.step = step /\ n.life = life /\ n.width = c.width
      /\ n.again = again /\ n.calm = c.calm
  <2> HIDE DEF c
  <2> QED BY <1>1, GoesFields
<1>3. c.life <= lives' /\ (Exists' /\ c.life = collection'.life => c.width = collection'.width)
  BY <1>1, LifeKept
<1>4. "missing" \in Ended
  BY DEF Ended
<1>5. vcall' = [vcall EXCEPT ![w] = n]
  OBVIOUS
<1> HIDE DEF n
<1>6. n.life <= lives' /\ (Exists' /\ n.life = collection'.life => n.width = collection'.width)
  BY <1>2, <1>3
<1>7. n.step \notin Ended \cup {"delete"} => n.width # 0
  BY <1>1, <1>2
<1>8. n.step = "missing" => ~n.calm
  BY <1>2, <1>4
<1>9. n.step \in {"index", "settle"} => Exists' \/ n.step = vcall[w].step
  BY <1>2
<1>10. n.step \notin Ended /\ n.calm =>
               \/ vcall[w].step \notin Ended /\ vcall[w].calm
               \/ n.step \notin {"index", "settle"} /\ \A v \in StoreWorkers \ {w} : vcall[v].step \in Ended
  BY <1>2
<1>11. n.step \notin Ended /\ n.calm /\ n.again /\ (ready'.width # 0 \/ n.step = "put") => Exists'
  BY <1>2
<1>12. n \in CallType
  BY <1>2
<1> HIDE DEF c
<1> QED BY <1>5, <1>6, <1>7, <1>8, <1>9, <1>10, <1>11, <1>12, CallMoves

LEMMA ReadyKept ==
    ASSUME VectorInv, ServerStep, UNCHANGED ready
    PROVE  ready' \in PointType /\ OfItsLife(ready)' /\ (ready'.width # 0 => ready' = ready)
<1>1. ready \in PointType /\ ready.life \in Nat /\ OfItsLife(ready)
  BY DEF VectorInv, VectorTypeOK, LivesInOrder, PointType
<1>2. ready.life <= lives' /\ (Exists' /\ ready.life = collection'.life => ready.width = collection'.width)
  BY <1>1, LifeKept
<1> QED BY <1>1, <1>2 DEF OfItsLife

LEMMA BudgetTyped == VectorInv => vbudget \in [calls : Nat, lost : Nat, drops : Nat]
  BY DEF VectorInv, VectorTypeOK

-----------------------------------------------------------------------------
LEMMA ExchangeKeeps ==
    ASSUME VectorInv, NEW w \in StoreWorkers, Exchange(w)
    PROVE  VectorInv'
<1> DEFINE c == vcall[w]
           n == Answered(c, Status(c))
<1>1. /\ c.step \in Requests /\ collection' = Served(c) /\ lives' = ServedLives(c)
      /\ vcall' = [vcall EXCEPT ![w] = n] /\ UNCHANGED <<ready, vbudget>>
  BY DEF Exchange
<1>2. /\ c \in CallType /\ c.step \in Steps /\ c.width \in Nat /\ c.life \in Nat
      /\ c.again \in BOOLEAN /\ c.calm \in BOOLEAN
      /\ OfItsLife(c) /\ (c.step \notin Ended \cup {"delete"} => c.width # 0)
      /\ c.step \notin Ended /\ c.calm =>
            /\ c.step \in {"index", "settle"} => Exists
            /\ c.again => (ready.width # 0 \/ c.step = "put" => Exists)
  BY CallFacts
<1>3. /\ ServerStep
      /\ c.step # "create" => ServerKeeps
      /\ c.step = "create" /\ Exists => ServerKeeps
      /\ c.step = "create" /\ ~Exists =>
           collection'.width = c.width /\ collection'.life = lives + 1 /\ lives' = lives + 1
  BY <1>1, ServedSteps
<1>4. vbudget' \in [calls : Nat, lost : Nat, drops : Nat] /\ ready' \in PointType /\ OfItsLife(ready)'
      /\ (ready'.width # 0 => ready' = ready)
  BY <1>1, <1>3, BudgetTyped, ReadyKept
<1>5. (Exists => Exists') /\ lives \in Nat /\ collection \in CollectionType /\ collection.life <= lives
      /\ lives' \in Nat /\ (Exists' => collection'.life # 0)
  BY <1>3, ServerInOrder DEF VectorInv, VectorTypeOK, LivesInOrder, ServerStep
<1>6. c.step \notin Ended
  BY <1>1 DEF Requests, Ended
<1>7. ServerKeeps => (Exists' <=> Exists) /\ collection'.width = collection.width
                     /\ collection'.life = collection.life /\ lives' = lives
  BY DEF ServerKeeps, Exists
<1>a. {"create", "index", "settle", "forget", "get", "put"} \subseteq Steps \ Ended
  BY DEF Steps, Requests, Ended
<1> HIDE DEF n
(* The answer ends the call. *)
<1>8. ASSUME n = [NoVCall EXCEPT !.step = "done"] PROVE VectorInv'
  <2>1. n \in CallType /\ n.step = "done" /\ n.life = 0 /\ n.step \in Ended
    BY <1>8, DoneFields
  <2> QED BY <1>1, <1>3, <1>4, <2>1, CallEnds
<1>9. ASSUME NEW why \in {"modelChanged", "missing", "unreachable"}, n = Fail(c, why), why = "missing" => ~c.calm
      PROVE  VectorInv'
  <2>1. n \in CallType /\ n.step = why /\ n.life = 0 /\ n.step \in Ended /\ n.calm = c.calm
    BY <1>2, <1>9, FailFields
  <2> QED BY <1>1, <1>3, <1>4, <1>9, <2>1, CallEnds
(* The answer of each request. *)
<1>10. CASE c.step = "get"
  <2>1. n = [AfterGet(c, Status(c)) EXCEPT !.attempt = 0]
    BY <1>10 DEF n, Answered
  <2>2. CASE ~Exists
    <3>1. n = Goes(c, "create", c.life, 0, c.again)
      <4>1. AfterGet(c, Status(c)) = [c EXCEPT !.step = "create"]
        BY <1>10, <2>2 DEF AfterGet, Status
      <4> QED BY <1>2, <2>1, <4>1 DEF Goes, CallType
    <3>2. c.calm /\ c.again /\ ready'.width # 0 => Exists'
      BY <1>1, <1>2, <1>5, <1>6
    <3> QED BY <1>1, <1>2, <1>3, <1>4, <1>6, <1>10, <1>a, <3>1, <3>2, CallGoes
  <2>3. CASE Exists /\ collection.width # c.width
    <3>1. AfterGet(c, Status(c)) = Fail(c, "modelChanged")
      BY <1>10, <2>3 DEF AfterGet, Status
    <3>2. n = Fail(c, "modelChanged")
      BY <1>2, <2>1, <3>1, FailFields
    <3> QED BY <1>9, <3>2
  <2>4. CASE Exists /\ collection.width = c.width
    <3>0. collection.life \in Nat
      BY <1>5 DEF CollectionType
    <3>1. n = Goes(c, "index", collection.life, 0, c.again)
      <4> DEFINE l == collection.life
      <4>1. AfterGet(c, Status(c)) = [c EXCEPT !.step = "index", !.life = l]
        BY <1>10, <2>4 DEF AfterGet, Status
      <4> HIDE DEF l
      <4>2. n = Goes(c, "index", l, 0, c.again)
        BY <1>2, <2>1, <4>1 DEF Goes, CallType
      <4> QED BY <4>2 DEF l
    <3>2. Exists' /\ collection'.width = c.width /\ lives' = lives
      BY <1>3, <1>7, <1>10, <2>4
    <3> QED BY <1>1, <1>2, <1>3, <1>4, <1>5, <1>6, <1>10, <1>a, <3>0, <3>1, <3>2, CallGoes
  <2> QED BY <2>2, <2>3, <2>4
<1>11. CASE c.step = "create"
  <2> DEFINE life == IF Status(c) = 200 THEN ServedLives(c) ELSE 0
  <2>1. n = Goes(c, "index", life, 0, c.again)
    <3>1. AfterCreate(c, Status(c)) = [c EXCEPT !.step = "index", !.life = life]
      BY DEF AfterCreate
    <3>2. n = [AfterCreate(c, Status(c)) EXCEPT !.attempt = 0]
      BY <1>11 DEF n, Answered
    <3> HIDE DEF life
    <3> QED BY <1>2, <3>1, <3>2 DEF Goes, CallType
  <2>2. life = (IF Exists THEN 0 ELSE lives + 1) /\ life \in Nat
    BY <1>5, <1>11 DEF Status, ServedLives
  <2> HIDE DEF life
  <2>3. Exists'
    BY <1>2, <1>3, <1>5, <1>6, <1>11 DEF Exists
  <2>4. life <= lives' /\ (Exists' /\ life = collection'.life => c.width = collection'.width)
    BY <1>3, <1>5, <1>11, <2>2
  <2> QED BY <1>1, <1>2, <1>3, <1>4, <1>6, <1>11, <1>a, <2>1, <2>2, <2>3, <2>4, CallGoes
<1>12. CASE c.step = "index"
  <2>1. n = [AfterIndex(c, Status(c)) EXCEPT !.attempt = 0]
    BY <1>12 DEF n, Answered
  <2>2. CASE Exists
    <3>1. n = Goes(c, "settle", c.life, 0, c.again)
      <4>1. AfterIndex(c, Status(c)) = [c EXCEPT !.step = "settle"]
        BY <1>12, <2>2 DEF AfterIndex, Status
      <4> QED BY <1>2, <2>1, <4>1 DEF Goes, CallType
    <3> QED BY <1>1, <1>2, <1>3, <1>4, <1>5, <1>6, <1>12, <1>a, <2>2, <3>1, CallGoes
  <2>3. CASE ~Exists
    <3>1. AfterIndex(c, Status(c)) = Fail(c, "missing")
      BY <1>12, <2>3 DEF AfterIndex, Status
    <3>2. n = Fail(c, "missing")
      BY <1>2, <2>1, <3>1, FailFields
    <3>3. ~c.calm
      BY <1>2, <1>6, <1>12, <2>3
    <3> QED BY <1>9, <3>2, <3>3
  <2> QED BY <2>2, <2>3
<1>13. CASE c.step = "put"
  <2>1. n = [AfterPut(c, Status(c)) EXCEPT !.attempt = 0]
    BY <1>13 DEF n, Answered
  <2>2. CASE Exists
    <3>1. AfterPut(c, Status(c)) = [NoVCall EXCEPT !.step = "done"]
      BY <1>13, <2>2 DEF AfterPut, Status
    <3> QED BY <1>8, <2>1, <3>1, DoneFields
  <2>3. CASE ~Exists /\ c.again
    <3>1. AfterPut(c, Status(c)) = Fail(c, "missing")
      BY <1>13, <2>3 DEF AfterPut, Status
    <3>2. n = Fail(c, "missing")
      BY <1>2, <2>1, <3>1, FailFields
    <3>3. ~c.calm
      BY <1>2, <1>6, <1>13, <2>3
    <3> QED BY <1>9, <3>2, <3>3
  <2>4. CASE ~Exists /\ ~c.again
    <3>1. n = Goes(c, "forget", c.life, 0, c.again)
      <4>1. AfterPut(c, Status(c)) = [c EXCEPT !.step = "forget"]
        BY <1>13, <2>4 DEF AfterPut, Status
      <4> QED BY <1>2, <2>1, <4>1 DEF Goes, CallType
    <3> QED BY <1>1, <1>2, <1>3, <1>4, <1>6, <1>13, <1>a, <2>4, <3>1, CallGoes
  <2> QED BY <2>2, <2>3, <2>4
<1>14. CASE c.step = "delete"
  <2>1. n = [AfterDelete(c, Status(c)) EXCEPT !.attempt = 0]
    BY <1>14 DEF n, Answered
  <2> QED BY <1>8, <2>1, DoneFields DEF AfterDelete
<1> QED BY <1>1, <1>10, <1>11, <1>12, <1>13, <1>14 DEF Requests

LEMMA LostTyped ==
    ASSUME VectorInv, NEW w \in StoreWorkers, NEW served \in BOOLEAN, ExchangeLost(w, served)
    PROVE  vbudget' \in [calls : Nat, lost : Nat, drops : Nat]
  BY DEF ExchangeLost, VectorInv, VectorTypeOK

LEMMA ExchangeLostKeeps ==
    ASSUME VectorInv, NEW w \in StoreWorkers, NEW served \in BOOLEAN, ExchangeLost(w, served)
    PROVE  VectorInv'
<1> DEFINE c == vcall[w]
           n == IF c.attempt < extraAttempts THEN [c EXCEPT !.attempt = @ + 1] ELSE Fail(c, "unreachable")
<1>1. /\ c.step \in Requests /\ UNCHANGED ready
      /\ collection' = IF served THEN Served(c) ELSE collection
      /\ lives' = IF served THEN ServedLives(c) ELSE lives
      /\ vcall' = [vcall EXCEPT ![w] = n]
  BY DEF ExchangeLost
<1>2. /\ c \in CallType /\ c.step \in Steps /\ c.width \in Nat /\ c.life \in Nat /\ c.attempt \in Nat
      /\ c.again \in BOOLEAN /\ c.calm \in BOOLEAN
      /\ c.step \notin Ended /\ c.calm =>
            /\ c.step \in {"index", "settle"} => Exists
            /\ c.again => (ready.width # 0 \/ c.step = "put" => Exists)
  BY CallFacts
<1>3. ServerStep
  <2>1. CASE served
    BY <1>1, <2>1, ServedSteps
  <2>2. CASE ~served
    BY <1>1, <2>2, NoRequest
  <2> QED BY <2>1, <2>2
<1>4. /\ vbudget' \in [calls : Nat, lost : Nat, drops : Nat] /\ ready' \in PointType /\ OfItsLife(ready)'
      /\ (ready'.width # 0 => ready' = ready)
  BY <1>1, <1>3, LostTyped, ReadyKept
<1>5. (Exists => Exists') /\ c.step \notin Ended
  BY <1>1, <1>3, ServerInOrder DEF Requests, Ended
<1>6. CASE c.attempt < extraAttempts
  <2>1. n = Goes(c, c.step, c.life, c.attempt + 1, c.again)
    BY <1>2, <1>6 DEF Goes, CallType
  <2>2. c.attempt + 1 \in Nat
    BY <1>2
  <2>3. c.calm /\ c.again /\ (ready'.width # 0 \/ c.step = "put") => Exists'
    BY <1>1, <1>2, <1>5
  <2>4. vcall' = [vcall EXCEPT ![w] = Goes(vcall[w], c.step, c.life, c.attempt + 1, c.again)]
    BY <1>1, <2>1
  <2> HIDE DEF n
  <2> QED BY <1>1, <1>2, <1>3, <1>4, <1>5, <2>2, <2>3, <2>4, CallGoes
<1>7. CASE ~(c.attempt < extraAttempts)
  <2>1. n = Fail(c, "unreachable")
    BY <1>7
  <2> HIDE DEF n
  <2>2. n \in CallType /\ n.step = "unreachable" /\ n.life = 0 /\ n.step \in Ended
    BY <1>2, <2>1, FailFields
  <2> QED BY <1>1, <1>3, <1>4, <2>2, CallEnds
<1> QED BY <1>6, <1>7

LEMMA CancelWaitKeeps ==
    ASSUME VectorInv, NEW w \in StoreWorkers, CancelWait(w)
    PROVE  VectorInv'
<1> DEFINE n == Fail(vcall[w], "unreachable")
<1>1. vcall' = [vcall EXCEPT ![w] = n] /\ UNCHANGED <<collection, ready, lives, vbudget>>
  BY DEF CancelWait
<1>2. vcall[w] \in CallType
  BY CallFacts
<1>3. n \in CallType /\ n.step = "unreachable" /\ n.life = 0 /\ n.step \in Ended
  BY <1>2, FailFields
<1>4. ServerStep /\ vbudget' \in [calls : Nat, lost : Nat, drops : Nat]
  BY <1>1, NoRequest, BudgetTyped
<1> HIDE DEF n
<1> QED BY <1>1, <1>3, <1>4, CallEnds

LEMMA ReturnsKeeps ==
    ASSUME VectorInv, NEW w \in StoreWorkers, Returns(w)
    PROVE  VectorInv'
<1>1. vcall' = [vcall EXCEPT ![w] = NoVCall] /\ UNCHANGED <<collection, ready, lives, vbudget>>
  BY DEF Returns
<1>2. ServerStep /\ vbudget' \in [calls : Nat, lost : Nat, drops : Nat]
  BY <1>1, NoRequest, BudgetTyped
<1>3. "idle" \in Ended
  BY DEF Ended
<1> QED BY <1>1, <1>2, <1>3, NoVCallFields, CallEnds

(* A new call's record. *)
Called(step, width, file, calm) ==
    [NoVCall EXCEPT !.step = step, !.width = width, !.file = file, !.calm = calm]

LEMMA BeginsKeeps ==
    ASSUME VectorInv, NEW w \in StoreWorkers, NEW step \in {"ensure", "delete"}, NEW wd \in Nat,
           NEW file \in VectorFiles, step = "ensure" => wd # 0, Begins(w, step, wd, file)
    PROVE  VectorInv'
<1>0. PICK calm \in BOOLEAN : calm = \A v \in StoreWorkers \ {w} : vcall[v].step \in Ended
  BY Zenon
<1> DEFINE n == Called(step, wd, file, calm)
<1>1. vcall' = [vcall EXCEPT ![w] = n] /\ UNCHANGED <<collection, ready, lives>>
  BY <1>0 DEF Begins, Called, Ended
<1>2. vbudget' \in [calls : Nat, lost : Nat, drops : Nat]
  BY DEF Begins, VectorInv, VectorTypeOK
<1>3. ServerStep
  BY <1>1, NoRequest
<1>4. ready' \in PointType /\ OfItsLife(ready)' /\ (ready'.width # 0 => ready' = ready)
  BY <1>1, <1>3, ReadyKept
<1>5. step \in Steps
  BY DEF Steps, Requests
<1>6. calm => \A v \in StoreWorkers \ {w} : vcall[v].step \in Ended
  BY <1>0
<1>7. /\ n \in CallType /\ n.step = step /\ n.width = wd /\ n.life = 0 /\ n.again = FALSE /\ n.calm = calm
  BY <1>5 DEF Called, NoVCall, CallType
<1> HIDE DEF n
<1>8. n.life <= lives' /\ (Exists' /\ n.life = collection'.life => n.width = collection'.width)
  BY <1>3, <1>7, ServerInOrder DEF ServerStep
<1>9. n.step \notin Ended \cup {"delete"} => n.width # 0
  BY <1>7
<1>10. n.step \notin {"index", "settle", "missing"}
  BY <1>7
<1>11. n.step \notin Ended /\ n.calm =>
          n.step \notin {"index", "settle"} /\ \A v \in StoreWorkers \ {w} : vcall[v].step \in Ended
  BY <1>6, <1>7, <1>10
<1>12. n.again = FALSE /\ n \in CallType
  BY <1>7
<1> QED BY <1>1, <1>2, <1>3, <1>4, <1>8, <1>9, <1>10, <1>11, <1>12, CallMoves

LEMMA EnsureKeeps ==
    ASSUME VectorInv, NEW w \in StoreWorkers, ensureCollection(w)
    PROVE  VectorInv'
<1> DEFINE c == vcall[w]
<1>1. c.step = "ensure" /\ UNCHANGED <<collection, ready, lives, vbudget>>
  BY DEF ensureCollection
<1>2. /\ c \in CallType /\ c.step \in Steps /\ c.width \in Nat /\ c.life \in Nat /\ c.attempt \in Nat
      /\ c.again \in BOOLEAN /\ c.calm \in BOOLEAN /\ (c.step \notin Ended \cup {"delete"} => c.width # 0)
      /\ c.step \notin Ended /\ c.calm => (c.again => (ready.width # 0 => Exists))
  BY CallFacts
<1>3. ServerStep /\ (Exists' <=> Exists) /\ vbudget' \in [calls : Nat, lost : Nat, drops : Nat]
  BY <1>1, NoRequest, BudgetTyped
<1>4. ready' \in PointType /\ OfItsLife(ready)' /\ (ready'.width # 0 => ready' = ready)
  BY <1>1, <1>3, ReadyKept
<1>5. c.step \notin Ended /\ {"put", "get"} \subseteq Steps \ Ended
  BY <1>1 DEF Ended, Steps, Requests
<1>6. ready'.life \in Nat /\ ready'.life <= lives'
      /\ (Exists' /\ ready'.life = collection'.life => ready'.width = collection'.width)
  BY <1>4 DEF PointType, OfItsLife
<1>7. CASE Cached(c.width)
  <2>1. vcall' = [vcall EXCEPT ![w] = Goes(c, "put", ready.life, c.attempt, c.again)]
    <3>1. vcall' = [vcall EXCEPT ![w] = [c EXCEPT !.step = "put", !.life = ready.life]]
      BY <1>7 DEF ensureCollection
    <3>2. [c EXCEPT !.step = "put", !.life = ready.life] = Goes(c, "put", ready.life, c.attempt, c.again)
      <4> DEFINE l == ready.life
      <4> HIDE DEF l
      <4>1. [c EXCEPT !.step = "put", !.life = l] = Goes(c, "put", l, c.attempt, c.again)
        BY <1>2 DEF Goes, CallType
      <4> QED BY <4>1 DEF l
    <3> QED BY <3>1, <3>2
  <2>2. ready.width = c.width /\ c.width # 0 /\ ready' = ready /\ ready.life \in Nat
    BY <1>1, <1>2, <1>5, <1>6, <1>7 DEF Cached
  <2>3. c.calm /\ c.again => Exists'
    BY <1>2, <1>3, <1>5, <2>2
  <2>4. ready.life <= lives' /\ (Exists' /\ ready.life = collection'.life => c.width = collection'.width)
    BY <1>6, <2>2
  <2> QED BY <1>1, <1>2, <1>3, <1>4, <1>5, <2>1, <2>2, <2>3, <2>4, CallGoes
<1>8. CASE ~Cached(c.width)
  <2>1. vcall' = [vcall EXCEPT ![w] = Goes(c, "get", c.life, c.attempt, c.again)]
    <3>1. vcall' = [vcall EXCEPT ![w] = [c EXCEPT !.step = "get"]]
      BY <1>8 DEF ensureCollection
    <3>2. [c EXCEPT !.step = "get"] = Goes(c, "get", c.life, c.attempt, c.again)
      BY <1>2 DEF Goes, CallType
    <3> QED BY <3>1, <3>2
  <2>2. c.calm /\ c.again /\ ready'.width # 0 => Exists'
    BY <1>1, <1>2, <1>3, <1>5
  <2> QED BY <1>1, <1>2, <1>3, <1>4, <1>5, <2>1, <2>2, CallGoes
<1> QED BY <1>7, <1>8

LEMMA SettleKeeps ==
    ASSUME VectorInv, NEW w \in StoreWorkers, Settle(w)
    PROVE  VectorInv'
<1> DEFINE c == vcall[w]
<1>1. c.step = "settle" /\ ready' = [width |-> c.width, life |-> c.life] /\ UNCHANGED <<collection, lives, vbudget>>
  BY DEF Settle
<1>2. /\ c \in CallType /\ c.step \in Steps /\ c.width \in Nat /\ c.life \in Nat /\ c.attempt \in Nat
      /\ c.again \in BOOLEAN /\ c.calm \in BOOLEAN /\ OfItsLife(c)
      /\ c.step \notin Ended /\ c.calm => (c.step \in {"index", "settle"} => Exists)
  BY CallFacts
<1>3. ServerStep /\ (Exists' <=> Exists) /\ vbudget' \in [calls : Nat, lost : Nat, drops : Nat]
  BY <1>1, NoRequest, BudgetTyped
<1>4. c.life <= lives' /\ (Exists' /\ c.life = collection'.life => c.width = collection'.width)
  BY <1>2, <1>3, LifeKept
<1>5. ready' \in PointType /\ ready'.width = c.width /\ ready'.life = c.life
  BY <1>1, <1>2 DEF PointType
<1>6. OfItsLife(ready)'
  BY <1>4, <1>5 DEF OfItsLife
<1>7. c.step \notin Ended /\ "put" \in Steps /\ "put" \notin Ended
  BY <1>1 DEF Ended, Steps, Requests
<1>8. vcall' = [vcall EXCEPT ![w] = Goes(c, "put", c.life, c.attempt, c.again)]
  <2>1. vcall' = [vcall EXCEPT ![w] = [c EXCEPT !.step = "put"]]
    BY DEF Settle
  <2>2. [c EXCEPT !.step = "put"] = Goes(c, "put", c.life, c.attempt, c.again)
    BY <1>2 DEF Goes, CallType
  <2> QED BY <2>1, <2>2
<1>9. c.calm => Exists'
  BY <1>1, <1>2, <1>3, <1>7
<1> QED BY <1>1, <1>2, <1>3, <1>5, <1>6, <1>7, <1>8, <1>9, CallGoes

LEMMA ForgetKeeps ==
    ASSUME VectorInv, NEW w \in StoreWorkers, forgetCollection(w)
    PROVE  VectorInv'
<1> DEFINE c == vcall[w]
<1>1. c.step = "forget" /\ ready' = NotReady /\ UNCHANGED <<collection, lives, vbudget>>
  BY DEF forgetCollection, Forgotten
<1>2. c \in CallType /\ c.life \in Nat /\ c.attempt \in Nat
  BY CallFacts
<1>3. ServerStep /\ (Exists' <=> Exists) /\ vbudget' \in [calls : Nat, lost : Nat, drops : Nat]
  BY <1>1, NoRequest, BudgetTyped
<1>4. ready' \in PointType /\ ready'.width = 0 /\ ready'.life = 0
  BY <1>1 DEF PointType, NotReady
<1>5. OfItsLife(ready)'
  BY <1>3, <1>4, ServerInOrder DEF OfItsLife, ServerStep
<1>6. c.step \notin Ended /\ "ensure" \in Steps /\ "ensure" \notin Ended
  BY <1>1 DEF Ended, Steps
<1>7. vcall' = [vcall EXCEPT ![w] = Goes(c, "ensure", c.life, c.attempt, TRUE)]
  <2>1. vcall' = [vcall EXCEPT ![w] = [c EXCEPT !.step = "ensure", !.again = TRUE]]
    BY DEF forgetCollection, VectorInv, VectorTypeOK
  <2>2. [c EXCEPT !.step = "ensure", !.again = TRUE] = Goes(c, "ensure", c.life, c.attempt, TRUE)
    BY <1>2 DEF Goes, CallType
  <2> QED BY <2>1, <2>2
<1> QED BY <1>1, <1>2, <1>3, <1>4, <1>5, <1>6, <1>7, CallGoes

(* A call that lived through the drop is calm no more. *)
LEMMA DropKeeps ==
    ASSUME VectorInv, DropCollection
    PROVE  VectorInv'
<1>1. /\ collection' = NoCollection /\ UNCHANGED <<ready, lives>>
      /\ vcall' = [w \in StoreWorkers |-> IF vcall[w].step = "idle" THEN NoVCall
                                           ELSE [vcall[w] EXCEPT !.calm = FALSE]]
  BY DEF DropCollection
<1>2. vbudget' \in [calls : Nat, lost : Nat, drops : Nat]
  BY DEF DropCollection, VectorInv, VectorTypeOK
<1>3. ASSUME NEW u \in StoreWorkers
      PROVE  LET n == vcall'[u] IN
             /\ n \in CallType /\ n.life <= lives /\ (n.step \notin Ended \cup {"delete"} => n.width # 0)
             /\ n.step \notin Ended \/ n.step = "missing" => ~n.calm
  <2>1. /\ vcall[u] \in CallType /\ vcall[u].life <= lives
        /\ (vcall[u].step \notin Ended \cup {"delete"} => vcall[u].width # 0)
    BY CallFacts DEF OfItsLife
  <2>2. CASE vcall[u].step = "idle"
    <3>1. vcall'[u] = NoVCall /\ lives \in Nat /\ "idle" \in Ended
      BY <1>1, <2>2 DEF VectorInv, VectorTypeOK, Ended
    <3> QED BY <3>1, NoVCallFields
  <2>3. CASE vcall[u].step # "idle"
    <3> DEFINE n == [vcall[u] EXCEPT !.calm = FALSE]
    <3>1. n \in CallType /\ n.life = vcall[u].life /\ n.step = vcall[u].step /\ n.width = vcall[u].width /\ ~n.calm
      BY <2>1 DEF CallType
    <3>2. vcall'[u] = n
      BY <1>1, <2>3
    <3> HIDE DEF n
    <3> QED BY <2>1, <3>1, <3>2
  <2> QED BY <2>2, <2>3
<1>4. ~Exists' /\ collection' \in CollectionType /\ collection'.life = 0
      /\ \A f \in VectorFiles : collection'.points[f] = NoPoint
  BY <1>1, NoCollectionFields DEF Exists
<1>5. VectorTypeOK'
  <2>1. vcall' \in [StoreWorkers -> CallType]
    <3>1. vcall' = [u \in StoreWorkers |-> vcall'[u]]
      BY <1>1
    <3> QED BY <1>3, <3>1
  <2> QED BY <1>1, <1>2, <1>4, <2>1 DEF VectorInv, VectorTypeOK
<1>6. LivesInOrder'
  <2>1. OfItsLife(ready)'
    BY <1>1, <1>4 DEF VectorInv, LivesInOrder, OfItsLife
  <2>2. \A u \in StoreWorkers : OfItsLife(vcall[u])'
    BY <1>1, <1>3, <1>4 DEF OfItsLife
  <2>3. collection'.life <= lives'
    BY <1>1, <1>4 DEF VectorInv, VectorTypeOK
  <2> QED BY <1>1, <1>4, <2>1, <2>2, <2>3 DEF LivesInOrder
<1>7. CallsKeepWidth' /\ CalmCallsSeeIt' /\ CacheNeverStrands'
  BY <1>3 DEF CallsKeepWidth, CalmCallsSeeIt, CacheNeverStrands
<1> QED BY <1>5, <1>6, <1>7 DEF VectorInv

LEMMA CreatedElsewhereKeeps ==
    ASSUME VectorInv, NEW wd \in Nat \ {0}, CreatedElsewhere(wd)
    PROVE  VectorInv'
<1>1. /\ ~Exists /\ lives' = lives + 1 /\ collection' = Created(wd, lives + 1)
      /\ UNCHANGED <<ready, vcall, vbudget>>
  BY DEF CreatedElsewhere
<1>2. lives \in Nat
  BY DEF VectorInv, VectorTypeOK
<1>3. ServerStep
  BY <1>1, <1>2, CreatedFields DEF ServerStep, ServerCreates
<1>4. VectorTypeOK'
  BY <1>1, <1>3 DEF VectorInv, VectorTypeOK, ServerStep
<1>5. \A u \in StoreWorkers : OfItsLife(vcall[u])'
  <2> TAKE u \in StoreWorkers
  <2>1. OfItsLife(vcall[u]) /\ vcall[u].life \in Nat
    BY CallFacts
  <2>2. vcall[u].life <= lives'
        /\ (Exists' /\ vcall[u].life = collection'.life => vcall[u].width = collection'.width)
    BY <1>3, <2>1, LifeKept
  <2> QED BY <1>1, <2>2 DEF OfItsLife
<1>6. LivesInOrder'
  BY <1>1, <1>3, <1>5, ServerInOrder, ReadyKept DEF LivesInOrder
<1>7. CallsKeepWidth' /\ CacheNeverStrands'
  BY <1>1 DEF VectorInv, CallsKeepWidth, CacheNeverStrands
<1>8. CalmCallsSeeIt'
  <2>1. Exists => Exists'
    BY <1>3, ServerInOrder
  <2> QED BY <1>1, <2>1 DEF VectorInv, CalmCallsSeeIt
<1> QED BY <1>4, <1>6, <1>7, <1>8 DEF VectorInv

LEMMA VectorStarts == VectorInit => VectorInv
<1> SUFFICES ASSUME VectorInit PROVE VectorInv
  OBVIOUS
<1>1. /\ collection = NoCollection /\ ready = NotReady /\ lives = 0
      /\ vcall = [w \in StoreWorkers |-> NoVCall] /\ vbudget = [calls |-> 0, lost |-> 0, drops |-> 0]
  BY DEF VectorInit
<1>2. ~Exists /\ \A f \in VectorFiles : collection.points[f] = NoPoint
  BY <1>1, NoCollectionFields DEF Exists
<1>3. VectorTypeOK
  BY <1>1, NoCollectionFields, NoVCallFields DEF VectorTypeOK, NotReady, PointType
<1>4. \A u \in StoreWorkers : vcall[u] = NoVCall
  BY <1>1
<1>5. LivesInOrder
  <2>1. OfItsLife(ready)
    BY <1>1, <1>2 DEF OfItsLife, NotReady
  <2>2. \A u \in StoreWorkers : OfItsLife(vcall[u])
    BY <1>1, <1>2, <1>4, NoVCallFields DEF OfItsLife
  <2> QED BY <1>1, <1>2, <2>1, <2>2, NoCollectionFields DEF LivesInOrder
<1>6. CallsKeepWidth /\ CalmCallsSeeIt /\ CacheNeverStrands
  BY <1>4, NoVCallFields DEF CallsKeepWidth, CalmCallsSeeIt, CacheNeverStrands, Ended
<1> QED BY <1>3, <1>5, <1>6 DEF VectorInv

LEMMA VectorKeeps == VectorInv /\ [VectorNext]_vectorVars => VectorInv'
<1> SUFFICES ASSUME VectorInv, [VectorNext]_vectorVars PROVE VectorInv'
  OBVIOUS
<1>1. ASSUME NEW w \in StoreWorkers, NEW width \in Widths, NEW file \in VectorFiles, UpsertVectors(w, width, file)
      PROVE  VectorInv'
  <2>1. width \in Nat /\ width # 0
    BY VectorStoreAssumption
  <2> QED BY <1>1, <2>1, BeginsKeeps DEF UpsertVectors
<1>2. ASSUME NEW w \in StoreWorkers, NEW file \in VectorFiles, DeleteVectors(w, file)
      PROVE  VectorInv'
  BY <1>2, BeginsKeeps DEF DeleteVectors
<1>3. ASSUME NEW w \in StoreWorkers,
             \/ ensureCollection(w) \/ Exchange(w) \/ \E served \in BOOLEAN : ExchangeLost(w, served)
             \/ CancelWait(w) \/ Settle(w) \/ forgetCollection(w) \/ Returns(w)
      PROVE  VectorInv'
  BY <1>3, EnsureKeeps, ExchangeKeeps, ExchangeLostKeeps, CancelWaitKeeps, SettleKeeps, ForgetKeeps, ReturnsKeeps
<1>4. CASE DropCollection
  BY <1>4, DropKeeps
<1>5. ASSUME NEW width \in Widths, CreatedElsewhere(width) PROVE VectorInv'
  <2>1. width \in Nat \ {0}
    BY VectorStoreAssumption
  <2> QED BY <1>5, <2>1, CreatedElsewhereKeeps
<1>6. CASE UNCHANGED vectorVars
  <2>1. UNCHANGED collection /\ UNCHANGED ready /\ UNCHANGED vcall /\ UNCHANGED lives /\ UNCHANGED vbudget
    BY <1>6 DEF vectorVars
  <2> QED BY <2>1 DEF VectorInv, VectorTypeOK, LivesInOrder, OfItsLife, Exists, CallsKeepWidth,
              CalmCallsSeeIt, CacheNeverStrands
<1> QED BY <1>1, <1>2, <1>3, <1>4, <1>5, <1>6 DEF VectorNext

(* The inductive invariant says more than is promised: a point of the life of the  *)
(* collection it is in has its width, since each point is of a life no later.      *)
LEMMA VectorInvSuffices == VectorInv => VectorStoreSafe
<1> SUFFICES ASSUME VectorInv, NEW f \in VectorFiles,
                    collection.points[f] # NoPoint, collection.points[f].life = collection.life
             PROVE  collection.points[f].width = collection.width
  BY DEF VectorStoreSafe, CheckedWidthHolds, VectorInv
<1>1. Exists
  BY NoCollectionFields DEF VectorInv, LivesInOrder
<1>2. OfItsLife(collection.points[f])
  BY DEF VectorInv, LivesInOrder
<1> QED BY <1>1, <1>2 DEF OfItsLife

(* ensureCollection and Upsert (qdrant.go): however requests are lost, repeated    *)
(* after they took effect, or raced by drops and by other processes' creations,    *)
(* no point is written in the name of a width comparison that does not hold for    *)
(* the collection it is in; and a call that started alone and saw no drop never    *)
(* ends on a missing collection because of what the cache said.                    *)
THEOREM VectorStoreIsSafe == VectorSpec => []VectorStoreSafe
<1>1. VectorInit => VectorInv
  BY VectorStarts
<1>2. VectorInv /\ [VectorNext]_vectorVars => VectorInv'
  BY VectorKeeps
<1>3. VectorInv => VectorStoreSafe
  BY VectorInvSuffices
<1> QED BY <1>1, <1>2, <1>3, PTL DEF VectorSpec

-----------------------------------------------------------------------------
(* Enrichment: sentences, notes, summaries and the coverage of a pass. *)

(* Files, versions and symbols are what Shape lists; 0 is none of the files. *)
LEMMA ShapeFacts ==
    /\ SourceFiles = 1 .. Len(Shape) /\ Len(Shape) \in Nat /\ IsFiniteSet(SourceFiles) /\ 0 \notin SourceFiles
    /\ \A f \in SourceFiles : 1 \in DOMAIN Shape[f] /\ DOMAIN Shape[f] \subseteq Nat /\ 0 \notin DOMAIN Shape[f]
    /\ \A f \in SourceFiles : \A v \in DOMAIN Shape[f] : Symbols(f, v) \in Seq(STRING)
<1>1. Shape \in Seq(Seq(Seq(STRING)) \ {<<>>})
  BY EnrichAssumption
<1>2. SourceFiles = 1 .. Len(Shape) /\ Len(Shape) \in Nat
  BY <1>1 DEF SourceFiles
<1>3. IsFiniteSet(SourceFiles)
  BY <1>2, FS_Interval
<1>4. ASSUME NEW f \in SourceFiles
      PROVE  Shape[f] \in Seq(Seq(STRING)) /\ Shape[f] # <<>>
  BY <1>1, <1>2, <1>4
<1>5. ASSUME NEW f \in SourceFiles
      PROVE  1 \in DOMAIN Shape[f] /\ DOMAIN Shape[f] \subseteq Nat /\ 0 \notin DOMAIN Shape[f]
  <2>1. DOMAIN Shape[f] = 1 .. Len(Shape[f]) /\ Len(Shape[f]) \in Nat /\ Len(Shape[f]) # 0
    BY <1>4, EmptySeq
  <2> QED BY <2>1
<1>6. ASSUME NEW f \in SourceFiles, NEW v \in DOMAIN Shape[f]
      PROVE  Symbols(f, v) \in Seq(STRING)
  <2>1. v # 0
    BY <1>5
  <2>2. Shape[f][v] \in Seq(STRING)
    BY <1>4
  <2> QED BY <2>1, <2>2 DEF Symbols
<1> QED BY <1>2, <1>3, <1>5, <1>6

(* A function of a finite domain has finitely many values. *)
LEMMA ValuesAreFinite ==
    ASSUME NEW h, IsFiniteSet(DOMAIN h)
    PROVE  IsFiniteSet({h[x] : x \in DOMAIN h})
<1> DEFINE g == [x \in DOMAIN h |-> h[x]]
           T == {h[x] : x \in DOMAIN h}
<1>1. g \in Surjection(DOMAIN h, T)
  BY DEF Surjection
<1> HIDE DEF g, T
<1>2. IsFiniteSet(T)
  BY <1>1, FS_Surjection
<1> QED BY <1>2 DEF T

-----------------------------------------------------------------------------
(* Coverage: as many edges as call sites means an edge for every site. *)
LEMMA CoveredMeansAll ==
    ASSUME NEW of, \A f \in SourceFiles : of[f] = 0 \/ of[f] \in DOMAIN Shape[f],
           Tally(of).candidates = Tally(of).edges,
           NEW f \in SourceFiles, NEW s \in ToSet(Symbols(f, of[f]))
    PROVE  s \notin Unlinked
<1> DEFINE Sites(g) == {<<g, i>> : i \in DOMAIN Symbols(g, of[g])}
           all == UNION {Sites(g) : g \in SourceFiles}
           linked == {x \in all : Symbols(x[1], of[x[1]])[x[2]] \notin Unlinked}
<1>1. Cardinality(all) = Cardinality(linked)
  BY DEF Tally
<1>2. ASSUME NEW g \in SourceFiles PROVE Symbols(g, of[g]) \in Seq(STRING)
  <2>1. CASE of[g] = 0
    <3>1. Symbols(g, of[g]) = <<>>
      BY <2>1 DEF Symbols
    <3> QED BY <3>1
  <2>2. CASE of[g] \in DOMAIN Shape[g]
    BY <2>2, <1>2, ShapeFacts
  <2> QED BY <2>1, <2>2, <1>2
<1>3. ASSUME NEW g \in SourceFiles PROVE IsFiniteSet(Sites(g))
  <2> DEFINE h == [i \in DOMAIN Symbols(g, of[g]) |-> <<g, i>>]
  <2>1. IsFiniteSet(DOMAIN Symbols(g, of[g]))
    <3>1. Symbols(g, of[g]) \in Seq(STRING)
      BY <1>2, <1>3
    <3>2. Len(Symbols(g, of[g])) \in Nat /\ DOMAIN Symbols(g, of[g]) = 1 .. Len(Symbols(g, of[g]))
      BY <3>1, LenProperties
    <3> QED BY <3>2, FS_Interval
  <2>2. DOMAIN h = DOMAIN Symbols(g, of[g]) /\ {h[i] : i \in DOMAIN h} = Sites(g)
    OBVIOUS
  <2> HIDE DEF h
  <2> QED BY <2>1, <2>2, ValuesAreFinite
<1>4. IsFiniteSet({Sites(g) : g \in SourceFiles})
  <2> DEFINE h == [g \in SourceFiles |-> Sites(g)]
  <2> HIDE DEF Sites
  <2>1. IsFiniteSet(SourceFiles)
    BY ShapeFacts
  <2>2. DOMAIN h = SourceFiles /\ {h[g] : g \in DOMAIN h} = {Sites(g) : g \in SourceFiles}
    OBVIOUS
  <2> HIDE DEF h
  <2> QED BY <2>1, <2>2, ValuesAreFinite
<1>5. IsFiniteSet(all)
  <2> DEFINE family == {Sites(g) : g \in SourceFiles}
  <2>1. \A x \in family : IsFiniteSet(x)
    BY <1>3
  <2>2. IsFiniteSet(family)
    BY <1>4
  <2> HIDE DEF family
  <2>3. IsFiniteSet(UNION family)
    BY <2>1, <2>2, FS_UNION
  <2> QED BY <2>3 DEF family
<1>6. all = linked
  <2>1. linked \subseteq all
    OBVIOUS
  <2> HIDE DEF all, linked
  <2> QED BY <1>1, <1>5, <2>1, FS_Subset
<1>7. PICK i \in DOMAIN Symbols(f, of[f]) : s = Symbols(f, of[f])[i]
  BY DEF ToSet
<1>8. <<f, i>> \in Sites(f)
  OBVIOUS
<1>9. <<f, i>> \in all
  BY <1>8
<1>10. <<f, i>> \in linked
  BY <1>6, <1>9
<1> HIDE DEF all
<1> QED BY <1>7, <1>10

-----------------------------------------------------------------------------
LEMMA EnrichStarts == EnrichInit => EnrichInv
<1> SUFFICES ASSUME EnrichInit PROVE EnrichInv
  OBVIOUS
<1>1. EnrichTypeOK
  BY ShapeFacts DEF EnrichInit, EnrichTypeOK, NoPass
<1>2. OneSummary /\ OneRecon /\ CodeUnits = {}
  BY DEF EnrichInit, OneSummary, OneRecon, Recons, CodeUnits
<1>3. PassSound
  BY <1>2 DEF EnrichInit, PassSound, NoPass
<1>4. CoverageSound
  BY DEF EnrichInit, CoverageSound, NoCoverage
<1>5. \A f \in SourceFiles : NotesInPlace(f)
  BY DEF EnrichInit, NotesInPlace, NoCards
<1> QED BY <1>1, <1>2, <1>3, <1>4, <1>5 DEF EnrichInv

(* A step that leaves the rows, the cards and the coverage alone keeps what is  *)
(* said of them.                                                                *)
LEMMA RowsKept ==
    ASSUME EnrichInv, UNCHANGED <<fileRow, units, torn>>
    PROVE  /\ OneSummary' /\ OneRecon' /\ CodeUnits' = CodeUnits
           /\ \A u \in CodeUnits' : CodeSound(u)'
  BY DEF EnrichInv, OneSummary, OneRecon, Recons, CodeUnits, CodeSound

LEMMA CardsKept ==
    ASSUME EnrichInv, UNCHANGED <<fileRow, cards, torn>>
    PROVE  \A f \in SourceFiles : NotesInPlace(f)'
  BY DEF EnrichInv, NotesInPlace

LEMMA CoverageKept ==
    ASSUME EnrichInv, UNCHANGED coverage
    PROVE  CoverageSound'
  BY DEF EnrichInv, CoverageSound

LEMMA EditKeeps ==
    ASSUME EnrichInv, NEW f \in SourceFiles, EditFile(f)
    PROVE  EnrichInv'
<1>1. UNCHANGED <<fileRow, units, cards, coverage, run, torn>>
  BY DEF EditFile
<1>2. EnrichTypeOK'
  BY <1>1, ShapeFacts DEF EditFile, EnrichInv, EnrichTypeOK
<1>3. PassSound'
  BY <1>1, RowsKept DEF EnrichInv, PassSound
<1> QED BY <1>1, <1>2, <1>3, RowsKept, CardsKept, CoverageKept DEF EnrichInv

LEMMA CoverageStepKeeps == EnrichInv /\ storeCoverage => EnrichInv'
<1> SUFFICES ASSUME EnrichInv, storeCoverage PROVE EnrichInv'
  OBVIOUS
<1>1. /\ UNCHANGED <<tree, fileRow, units, cards, torn>>
      /\ run' = [run EXCEPT !.phase = "recon"] /\ run.phase = "coverage"
      /\ coverage' = coverage \/ coverage' = summaryAfter(accumulated, ~run.skipped)
  BY DEF storeCoverage
<1>2. EnrichTypeOK'
  BY <1>1 DEF EnrichInv, EnrichTypeOK, NoPass
<1>3. run'.phase = "recon" /\ run'.kept = run.kept /\ run'.todo = run.todo /\ run'.noted = run.noted
  BY <1>1 DEF EnrichInv, EnrichTypeOK, NoPass
<1>4. PassSound'
  BY <1>1, <1>3, RowsKept DEF EnrichInv, PassSound
<1>5. CoverageSound'
  <2>1. CASE coverage' = coverage
    BY <2>1, CoverageKept
  <2>2. CASE coverage' # coverage
    <3>1. coverage' = accumulated /\ ~run.skipped
      BY <1>1, <2>2 DEF summaryAfter
    <3>2. run.seen = run.of /\ \A f \in SourceFiles : run.of[f] = 0 \/ run.of[f] \in DOMAIN Shape[f]
      BY <1>1, <3>1 DEF EnrichInv, PassSound
    <3>3. coverage'.tally = Tally(run.of) /\ coverage'.of = run.of
      BY <3>1, <3>2 DEF accumulated
    <3> QED BY <3>2, <3>3 DEF CoverageSound
  <2> QED BY <2>1, <2>2
<1> QED BY <1>1, <1>2, <1>4, <1>5, RowsKept, CardsKept DEF EnrichInv

-----------------------------------------------------------------------------
(* A step that adds rows which are not code, and may take such rows away.       *)
LEMMA OtherRows ==
    ASSUME EnrichInv, UNCHANGED <<fileRow, torn>>, CodeUnits' = CodeUnits
    PROVE  \A u \in CodeUnits' : CodeSound(u)'
  BY DEF EnrichInv, CodeSound

LEMMA ReconKeeps == EnrichInv /\ ReconRepo => EnrichInv'
<1> SUFFICES ASSUME EnrichInv, ReconRepo PROVE EnrichInv'
  OBVIOUS
<1>0. units' = units \/ (Recons = {} /\ units' = units \cup {Recon(charged.ids + 1, "json")})
  <2>1. \/ units' = units
        \/ /\ Recons = {}
           /\ \E answer \in {"json", "prose"} :
                 IF accepted(answer) THEN units' = units \cup {Recon(charged.ids + 1, answer)}
                 ELSE units' = units
    BY DEF ReconRepo
  <2>2. CASE units' # units
    <3>1. PICK answer \in {"json", "prose"} :
              Recons = {} /\ IF accepted(answer) THEN units' = units \cup {Recon(charged.ids + 1, answer)}
                             ELSE units' = units
      BY <2>1, <2>2
    <3>2. answer = "json"
      BY <2>2, <3>1 DEF accepted
    <3>3. Recons = {} /\ units' = units \cup {Recon(charged.ids + 1, answer)}
      BY <2>2, <3>1
    <3> QED BY <3>2, <3>3
  <2> QED BY <2>2
<1>1. /\ UNCHANGED <<tree, fileRow, cards, coverage, torn>>
      /\ run' = [run EXCEPT !.phase = "files"] /\ run.phase = "recon"
      /\ units' = units \/ (Recons = {} /\ units' = units \cup {Recon(charged.ids + 1, "json")})
  BY <1>0 DEF ReconRepo
<1>2. EnrichTypeOK'
  BY <1>1 DEF EnrichInv, EnrichTypeOK, NoPass
<1>3. run'.phase = "files" /\ run'.kept = run.kept /\ run'.todo = run.todo /\ run'.noted = run.noted
  BY <1>1 DEF EnrichInv, EnrichTypeOK, NoPass
<1>4. CodeUnits' = CodeUnits
  BY <1>1 DEF CodeUnits, Recon
<1>5. OneSummary' /\ \A u \in units' : u.kind = "summary" => u \in units
  BY <1>1 DEF EnrichInv, OneSummary, Recon
<1>6. OneRecon'
  BY <1>1 DEF EnrichInv, OneRecon, Recons, Recon
<1>7. PassSound'
  BY <1>1, <1>3, <1>4, <1>5 DEF EnrichInv, PassSound
<1> QED BY <1>1, <1>2, <1>4, <1>5, <1>6, <1>7, OtherRows, CardsKept, CoverageKept DEF EnrichInv

LEMMA FilesKeep == EnrichInv /\ SummarizeFiles => EnrichInv'
<1> SUFFICES ASSUME EnrichInv, SummarizeFiles PROVE EnrichInv'
  OBVIOUS
<1>1. PICK ok \in SUBSET run.kept :
        units' = units \cup {Summary(charged.ids + f, f, ToString(f)) : f \in ok}
  BY DEF SummarizeFiles
<1>2. /\ UNCHANGED <<tree, fileRow, cards, coverage, torn>> /\ run.phase = "files"
      /\ \E next \in {"symbols", "services"} : \E docs :
            run' = [run EXCEPT !.phase = next, !.summaries = docs]
  BY DEF SummarizeFiles
<1>3. /\ run'.phase \in {"symbols", "services"} /\ run'.kept = run.kept /\ run'.todo = run.todo
      /\ run'.noted = run.noted /\ DOMAIN run' = DOMAIN run
  BY <1>2 DEF EnrichInv, EnrichTypeOK, NoPass
<1>4. EnrichTypeOK'
  BY <1>2, <1>3 DEF EnrichInv, EnrichTypeOK
<1>5. \A u \in units' \ units : /\ u.kind = "summary" /\ u.file \in ok
                                /\ u = Summary(charged.ids + u.file, u.file, ToString(u.file))
  BY <1>1 DEF Summary
<1>6. CodeUnits' = CodeUnits /\ Recons' = Recons
  BY <1>1, <1>5 DEF CodeUnits, Recons
<1>7. OneSummary'
  <2>1. \A u \in units : u.kind = "summary" => u.file \notin ok
    BY <1>2 DEF EnrichInv, PassSound
  <2>2. 0 \notin ok
    BY ShapeFacts DEF EnrichInv, EnrichTypeOK
  <2> SUFFICES ASSUME NEW u \in units', NEW w \in units', u.kind = "summary", w.kind = "summary",
                      u.file = w.file, u.file # 0 \/ u.owner = w.owner
               PROVE  u = w
    BY DEF OneSummary
  <2>3. CASE u \in units /\ w \in units
    BY <2>3 DEF EnrichInv, OneSummary
  <2>4. CASE u \notin units /\ w \notin units
    BY <2>4, <1>5, Zenon
  <2> QED BY <1>5, <2>1, <2>3, <2>4
<1>8. OneRecon'
  BY <1>6 DEF EnrichInv, OneRecon
<1>9. PassSound'
  BY <1>3, <1>6 DEF EnrichInv, PassSound
<1> QED BY <1>2, <1>4, <1>6, <1>7, <1>8, <1>9, OtherRows, CardsKept, CoverageKept DEF EnrichInv

LEMMA ServicesKeep == EnrichInv /\ summarizeServices => EnrichInv'
<1> SUFFICES ASSUME EnrichInv, summarizeServices PROVE EnrichInv'
  OBVIOUS
<1> DEFINE rank(s) == Cardinality({x \in SourceFiles : \E f \in SourceFiles : ServiceOfFile[f] = s /\ x <= f})
           row(s) == Summary(charged.ids + rank(s), 0, s)
<1>1. PICK told, stored :
        /\ stored \subseteq told
        /\ units' = (units \ UNION {replacedBy(s) : s \in told}) \cup {row(s) : s \in stored}
  BY DEF summarizeServices
<1>2. /\ UNCHANGED <<tree, fileRow, cards, coverage, torn>>
      /\ \E docs : run' = [run EXCEPT !.phase = "summaryDocs", !.summaries = docs]
  BY DEF summarizeServices
<1>3. /\ run'.phase = "summaryDocs" /\ run'.kept = run.kept /\ run'.todo = run.todo
      /\ run'.noted = run.noted /\ DOMAIN run' = DOMAIN run
  BY <1>2 DEF EnrichInv, EnrichTypeOK, NoPass
<1>4. EnrichTypeOK'
  BY <1>2, <1>3 DEF EnrichInv, EnrichTypeOK
<1> HIDE DEF rank
<1>5. \A u \in units' : u \in units \/ (u.owner \in stored /\ u = row(u.owner))
  BY <1>1 DEF Summary
<1>6. \A s : row(s).kind = "summary" /\ row(s).file = 0 /\ row(s).owner = s
  BY DEF Summary
<1>7. \A u \in units' : u.kind = "summary" /\ u.file = 0 /\ u.owner \in stored => u = row(u.owner)
  <2> SUFFICES ASSUME NEW u \in units', u.kind = "summary", u.file = 0, u.owner \in stored, u # row(u.owner)
               PROVE  FALSE
    OBVIOUS
  <2>1. u \in units /\ u \in replacedBy(u.owner)
    BY <1>5 DEF replacedBy
  <2>2. u \notin {row(s) : s \in stored}
    BY <1>6
  <2> QED BY <1>1, <2>1, <2>2
<1> HIDE DEF row
<1>8. \A u \in units : u.kind # "summary" => u \in units'
  BY <1>1 DEF replacedBy
<1>9. CodeUnits' = CodeUnits /\ Recons' = Recons
  BY <1>5, <1>6, <1>8 DEF CodeUnits, Recons
<1>10. OneSummary'
  <2> SUFFICES ASSUME NEW u \in units', NEW w \in units', u.kind = "summary", w.kind = "summary",
                      u.file = w.file, u.file # 0 \/ u.owner = w.owner
               PROVE  u = w
    BY DEF OneSummary
  <2>1. CASE u \in units /\ w \in units
    BY <2>1 DEF EnrichInv, OneSummary
  <2>2. CASE u \notin units \/ w \notin units
    <3>1. u.file = 0 /\ w.file = 0 /\ u.owner = w.owner /\ u.owner \in stored
      BY <2>2, <1>5, <1>6
    <3> QED BY <3>1, <1>7
  <2> QED BY <2>1, <2>2
<1>11. OneRecon'
  BY <1>9 DEF EnrichInv, OneRecon
<1>12. PassSound'
  BY <1>3, <1>9 DEF EnrichInv, PassSound
<1> QED BY <1>2, <1>4, <1>9, <1>10, <1>11, <1>12, OtherRows, CardsKept, CoverageKept DEF EnrichInv

LEMMA DocsKeep == EnrichInv /\ indexSummaries => EnrichInv'
<1> SUFFICES ASSUME EnrichInv, indexSummaries PROVE EnrichInv'
  OBVIOUS
<1>1. UNCHANGED <<tree, fileRow, units, cards, coverage, torn>> /\ run' = [run EXCEPT !.phase = "symbols"]
  BY DEF indexSummaries
<1>2. EnrichTypeOK'
  BY <1>1 DEF EnrichInv, EnrichTypeOK, NoPass
<1>3. run'.phase = "symbols" /\ run'.todo = run.todo /\ run'.noted = run.noted
  BY <1>1 DEF EnrichInv, EnrichTypeOK, NoPass
<1>4. PassSound'
  BY <1>1, <1>3, RowsKept DEF EnrichInv, PassSound
<1> QED BY <1>1, <1>2, <1>4, RowsKept, CardsKept, CoverageKept DEF EnrichInv

-----------------------------------------------------------------------------
(* The indexers' step: the rows of the stored files are those of the tree.      *)
LEMMA IndexingKeeps == EnrichInv /\ IndexFiles => EnrichInv'
<1> SUFFICES ASSUME EnrichInv, IndexFiles PROVE EnrichInv'
  OBVIOUS
<1>1. PICK force \in BOOLEAN, unreadable \in SUBSET SourceFiles, astFailed \in SUBSET SourceFiles,
           vecFailed \in SUBSET SourceFiles, gone \in SUBSET SourceFiles :
        LET readable == SourceFiles \ unreadable
            given == {f \in readable : force \/ fileRow[f] # tree[f]}
            ok == given \ (astFailed \cup vecFailed)
            stored == given \ astFailed
            lines == UNION {{f} \X DOMAIN Symbols(f, tree[f]) : f \in stored}
            Rank(x) == Cardinality({y \in lines : y[1] < x[1] \/ (y[1] = x[1] /\ y[2] <= x[2])})
            faults == Cardinality(unreadable) + Cardinality(astFailed) + Cardinality(vecFailed)
        IN /\ astFailed \subseteq given /\ vecFailed \subseteq given /\ gone \subseteq vecFailed
           /\ Affordable(faults)
           /\ fileRow' = [f \in SourceFiles |-> IF f \in ok THEN tree[f] ELSE fileRow[f]]
           /\ torn' = (torn \cup stored) \ ok
           /\ units' = {u \in units : u.file \notin stored}
                         \cup {Code(charged.ids + Rank(x), x[1], tree[x[1]], x[2], "") : x \in lines}
           /\ cards' = [f \in SourceFiles |->
                          IF f \in given \ vecFailed THEN buildCards(f, tree[f], {})
                          ELSE IF f \in gone THEN NoCards ELSE cards[f]]
           /\ run' = [NoPass EXCEPT !.phase = "coverage",
                                   !.of = [f \in SourceFiles |-> IF f \in readable THEN tree[f] ELSE 0],
                                   !.seen = [f \in SourceFiles |-> IF f \in given THEN tree[f] ELSE 0],
                                   !.skipped = given # readable,
                                   !.kept = collectSummaryFiles(ok)]
           /\ charged' = [charged EXCEPT !.passes = @ + 1, !.faults = @ + faults,
                                     !.ids = @ + Cardinality(lines)]
  BY Zenon DEF IndexFiles
<1> DEFINE readable == SourceFiles \ unreadable
           given == {f \in readable : force \/ fileRow[f] # tree[f]}
           ok == given \ (astFailed \cup vecFailed)
           stored == given \ astFailed
           lines == UNION {{f} \X DOMAIN Symbols(f, tree[f]) : f \in stored}
           Rank(x) == Cardinality({y \in lines : y[1] < x[1] \/ (y[1] = x[1] /\ y[2] <= x[2])})
           row(x) == Code(charged.ids + Rank(x), x[1], tree[x[1]], x[2], "")
<1>2. /\ units' = {u \in units : u.file \notin stored} \cup {row(x) : x \in lines}
      /\ fileRow' = [f \in SourceFiles |-> IF f \in ok THEN tree[f] ELSE fileRow[f]]
      /\ torn' = (torn \cup stored) \ ok /\ gone \subseteq vecFailed /\ vecFailed \subseteq given
      /\ UNCHANGED <<tree, coverage>>
  BY <1>1 DEF IndexFiles
<1>3. cards' = [f \in SourceFiles |-> IF f \in given \ vecFailed THEN buildCards(f, tree[f], {})
                                      ELSE IF f \in gone THEN NoCards ELSE cards[f]]
  BY <1>1
<1>4. /\ run'.phase = "coverage" /\ run'.kept = collectSummaryFiles(ok)
      /\ run'.todo = <<>> /\ run'.noted = {} /\ DOMAIN run' = DOMAIN NoPass
      /\ run'.of = [f \in SourceFiles |-> IF f \in readable THEN tree[f] ELSE 0]
      /\ run'.seen = [f \in SourceFiles |-> IF f \in given THEN tree[f] ELSE 0]
      /\ run'.skipped = (given # readable)
  BY <1>1 DEF NoPass
<1>5. /\ ok \subseteq stored /\ stored \subseteq given /\ given \subseteq SourceFiles
      /\ ok = stored \ vecFailed /\ run'.kept \subseteq ok
  BY <1>4 DEF collectSummaryFiles
<1>6. \A x \in lines : /\ row(x).kind = "code" /\ row(x).file \in stored /\ row(x).version = tree[row(x).file]
                       /\ row(x).owner = Symbols(row(x).file, row(x).version)[row(x).line]
                       /\ row(x).text = ""
  BY DEF Code
<1> HIDE DEF readable, given, ok, stored, lines, row
<1>7. EnrichTypeOK'
  BY <1>2, <1>3, <1>4, <1>5 DEF EnrichInv, EnrichTypeOK
<1>8. \A u \in units' : (u \in units /\ u.file \notin stored) \/ \E x \in lines : u = row(x)
  BY <1>2
<1>9. OneSummary' /\ OneRecon'
  <2>1. \A u \in units' : u.kind # "code" => u \in units
    BY <1>6, <1>8
  <2>2. OneSummary'
    BY <2>1 DEF EnrichInv, OneSummary
  <2> QED BY <2>1, <2>2 DEF EnrichInv, OneRecon, Recons
<1>10. ASSUME NEW u \in CodeUnits' PROVE CodeSound(u)'
  <2>1. u \in units' /\ u.kind = "code"
    BY DEF CodeUnits
  <2>2. CASE u \in units /\ u.file \notin stored
    <3>1. CodeSound(u)
      BY <2>1, <2>2 DEF EnrichInv, CodeUnits
    <3>2. u.file \notin torn' => u.file \notin torn /\ fileRow'[u.file] = fileRow[u.file]
      BY <1>2, <1>5, <2>2, <3>1 DEF CodeSound
    <3> QED BY <3>1, <3>2 DEF CodeSound
  <2>3. CASE \E x \in lines : u = row(x)
    <3>1. /\ u.file \in stored /\ u.version = tree[u.file] /\ u.text = ""
          /\ u.owner = Symbols(u.file, u.version)[u.line]
      BY <1>6, <2>3
    <3>2. u.file \in SourceFiles /\ u.version \in DOMAIN Shape[u.file]
      BY <1>5, <3>1 DEF EnrichInv, EnrichTypeOK
    <3>3. u.file \notin torn' => fileRow'[u.file] = tree[u.file]
      BY <1>2, <1>5, <3>1, <3>2
    <3> QED BY <3>1, <3>2, <3>3 DEF CodeSound
  <2> QED BY <1>8, <2>1, <2>2, <2>3
<1>11. ASSUME NEW f \in SourceFiles PROVE NotesInPlace(f)'
  <2>1. CASE f \in given \ vecFailed
    BY <1>3, <2>1 DEF NotesInPlace, buildCards
  <2>2. CASE f \in gone
    BY <1>2, <1>3, <2>2 DEF NotesInPlace, NoCards
  <2>3. CASE f \notin given \ vecFailed /\ f \notin gone
    <3>1. cards'[f] = cards[f] /\ f \notin ok
      BY <1>3, <1>5, <2>3
    <3>2. fileRow'[f] = fileRow[f] /\ (f \notin torn' => f \notin torn)
      BY <1>2, <3>1
    <3> QED BY <3>1, <3>2 DEF EnrichInv, NotesInPlace
  <2> QED BY <2>1, <2>2, <2>3
<1>12. PassSound'
  <2>1. run'.todo \in Seq(CodeUnits')
    BY <1>4
  <2>2. ASSUME NEW u \in units', u.kind = "summary" PROVE u.file \notin run'.kept
    BY <1>5, <1>6, <1>8, <2>2
  <2>3. ~run'.skipped => run'.seen = run'.of
    BY <1>4
  <2>4. \A f \in SourceFiles : run'.of[f] = 0 \/ run'.of[f] \in DOMAIN Shape[f]
    BY <1>4 DEF EnrichInv, EnrichTypeOK
  <2> QED BY <1>4, <2>1, <2>2, <2>3, <2>4 DEF PassSound
<1> QED BY <1>2, <1>7, <1>9, <1>10, <1>11, <1>12, CoverageKept DEF EnrichInv

-----------------------------------------------------------------------------
LEMMA StartKeeps == EnrichInv /\ StartSymbols => EnrichInv'
<1> SUFFICES ASSUME EnrichInv, StartSymbols PROVE EnrichInv'
  OBVIOUS
<1>1. PICK todo \in boundarySymbols :
        run' = [run EXCEPT !.phase = IF todo = <<>> THEN "idle" ELSE "batch", !.todo = todo]
  BY DEF StartSymbols
<1>2. UNCHANGED <<tree, fileRow, units, cards, coverage, torn>>
  BY DEF StartSymbols
<1>3. /\ run'.phase \in {"idle", "batch"} /\ run'.todo = todo
      /\ run'.noted = run.noted /\ run'.kept = run.kept /\ DOMAIN run' = DOMAIN run
  BY <1>1 DEF EnrichInv, EnrichTypeOK, NoPass
<1>4. EnrichTypeOK'
  BY <1>2, <1>3 DEF EnrichInv, EnrichTypeOK
<1>5. todo \in Seq(CodeUnits)
  <2> DEFINE left == {u \in Endpoints : u.text = ""}
  <2>1. PICK k \in 0 .. MaxSymSumm : todo \in [1 .. k -> left]
    BY DEF boundarySymbols
  <2>2. left \subseteq CodeUnits
    BY DEF Endpoints, CodeUnits
  <2>3. k \in Nat
    BY EnrichAssumption
  <2> HIDE DEF left
  <2>4. todo \in [1 .. k -> CodeUnits]
    BY <2>1, <2>2
  <2> QED BY <2>3, <2>4
<1>6. PassSound'
  BY <1>2, <1>3, <1>5, RowsKept DEF EnrichInv, PassSound
<1> QED BY <1>2, <1>4, <1>6, RowsKept, CardsKept, CoverageKept DEF EnrichInv

(* The sentence kept for the i-th symbol is about the i-th symbol.              *)
LEMMA SentenceOfItsSymbol ==
    ASSUME NEW batch, NEW numbers, NEW i \in DOMAIN batch,
           summarizeBatch(batch, numbers)[i] # "", i # 0
    PROVE  summarizeBatch(batch, numbers)[i] = batch[i].owner
<1> DEFINE from == {n \in numbers : positionOf(n, Len(batch)) = i}
<1>1. summarizeBatch(batch, numbers)[i] = IF from = {} THEN "" ELSE batch[CHOOSE n \in from : TRUE].owner
  BY DEF summarizeBatch
<1>2. \A n \in from : n = i
  BY DEF positionOf
<1>3. from # {}
  BY <1>1
<1>4. (CHOOSE n \in from : TRUE) \in from
  BY <1>3
<1> HIDE DEF from
<1>5. (CHOOSE n \in from : TRUE) = i
  BY <1>2, <1>4
<1> QED BY <1>1, <1>3, <1>5

LEMMA SentencesKeep == EnrichInv /\ SummarizeSymbols => EnrichInv'
<1> SUFFICES ASSUME EnrichInv, SummarizeSymbols PROVE EnrichInv'
  OBVIOUS
<1> DEFINE size == IF Len(run.todo) < SymbolBatchSize THEN Len(run.todo) ELSE SymbolBatchSize
           batch == SubSeq(run.todo, 1, size)
           rest == SubSeq(run.todo, size + 1, Len(run.todo))
           sentence(numbers, i) == summarizeBatch(batch, numbers)[i]
           row(numbers, i) == Code(charged.ids + i, batch[i].file, batch[i].version, batch[i].line,
                                   sentence(numbers, i))
           written(numbers) == {row(numbers, i) : i \in {j \in 1 .. size : sentence(numbers, j) # ""}}
<1>1. /\ UNCHANGED <<tree, fileRow, cards, coverage, torn>> /\ run.phase = "batch"
      /\ \/ \E numbers \in SUBSET (1 .. size + 1) :
               /\ units' = units \cup written(numbers)
               /\ run' = [run EXCEPT !.todo = rest, !.noted = @ \cup written(numbers)]
               /\ charged' = Charge(0, size)
         \/ /\ Affordable(1)
            /\ run' = [run EXCEPT !.todo = rest]
            /\ units' = units /\ charged' = Charge(1, 0)
  BY Zenon DEF SummarizeSymbols
<1>2. run.todo \in Seq(CodeUnits) /\ Len(run.todo) \in Nat /\ SymbolBatchSize \in Nat
  <2>1. run.todo \in Seq(CodeUnits)
    BY DEF EnrichInv, PassSound
  <2> QED BY <2>1, LenProperties, EnrichAssumption
<1>3. size \in Nat /\ size <= Len(run.todo)
  BY <1>2
<1> HIDE DEF size
<1>4. rest \in Seq(CodeUnits)
  <2>1. \A i \in size + 1 .. Len(run.todo) : run.todo[i] \in CodeUnits
    BY <1>2, <1>3
  <2> QED BY <1>2, <1>3, <2>1, SubSeqProperties
<1>5. DOMAIN batch = 1 .. size /\ \A i \in 1 .. size : batch[i] \in CodeUnits
  <2>1. \A i \in 1 .. size : run.todo[i] \in CodeUnits
    BY <1>2, <1>3
  <2>2. /\ batch \in Seq(CodeUnits) /\ Len(batch) = IF 1 <= size THEN size - 1 + 1 ELSE 0
    BY <1>3, <2>1, SubSeqProperties
  <2>3. Len(batch) = size
    BY <1>3, <2>2
  <2> HIDE DEF batch
  <2> QED BY <2>2, <2>3, LenProperties
<1> HIDE DEF batch, rest
<1>6. ASSUME NEW numbers, NEW u \in written(numbers)
      PROVE  u.kind = "code" /\ u.text # "" /\ CodeSound(u)
  <2>1. PICK i \in 1 .. size : u = row(numbers, i) /\ sentence(numbers, i) # ""
    BY <1>6
  <2>2. i # 0 /\ i \in DOMAIN batch
    <3>1. i # 0
      <4> HIDE DEF written, row, sentence
      <4> QED BY <1>3
    <3>2. i \in DOMAIN batch
      BY <1>5, Zenon
    <3> QED BY <3>1, <3>2
  <2>3. sentence(numbers, i) = batch[i].owner
    BY <2>1, <2>2, SentenceOfItsSymbol
  <2>4. CodeSound(batch[i])
    BY <1>5 DEF EnrichInv
  <2>5. /\ u.kind = "code" /\ u.file = batch[i].file /\ u.version = batch[i].version
        /\ u.line = batch[i].line /\ u.text = sentence(numbers, i)
        /\ u.owner = Symbols(batch[i].file, batch[i].version)[batch[i].line]
    BY <2>1 DEF Code
  <2> QED BY <2>1, <2>3, <2>4, <2>5 DEF CodeSound
<1> HIDE DEF written
<1>7. PICK new : /\ units' = units \cup new /\ run'.todo = rest /\ run'.noted \subseteq run.noted \cup new
                 /\ \A u \in new : u.kind = "code" /\ u.text # "" /\ CodeSound(u)
  <2>1. CASE units' = units /\ run' = [run EXCEPT !.todo = rest]
    <3> DEFINE none == {}
    <3>1. units' = units \cup none /\ run'.todo = rest /\ run'.noted \subseteq run.noted \cup none
      BY <2>1 DEF EnrichInv, EnrichTypeOK, NoPass
    <3>2. \A u \in none : u.kind = "code" /\ u.text # "" /\ CodeSound(u)
      OBVIOUS
    <3> HIDE DEF none
    <3> QED BY <3>1, <3>2
  <2>2. ASSUME NEW numbers, units' = units \cup written(numbers),
               run' = [run EXCEPT !.todo = rest, !.noted = @ \cup written(numbers)]
        PROVE  \E new : /\ units' = units \cup new /\ run'.todo = rest
                        /\ run'.noted \subseteq run.noted \cup new
                        /\ \A u \in new : u.kind = "code" /\ u.text # "" /\ CodeSound(u)
    <3>1. run'.todo = rest /\ run'.noted \subseteq run.noted \cup written(numbers)
      BY <2>2 DEF EnrichInv, EnrichTypeOK, NoPass
    <3> QED BY <1>6, <2>2, <3>1
  <2> QED BY <1>1, <2>1, <2>2
<1>8. run'.phase = "batch" /\ run'.kept = run.kept /\ DOMAIN run' = DOMAIN run
  BY <1>1 DEF EnrichInv, EnrichTypeOK, NoPass
<1>9. EnrichTypeOK'
  BY <1>1, <1>8 DEF EnrichInv, EnrichTypeOK
<1>10. CodeUnits' = CodeUnits \cup new /\ Recons' = Recons
  BY <1>7 DEF CodeUnits, Recons
<1>11. OneSummary' /\ OneRecon'
  BY <1>7, <1>10 DEF EnrichInv, OneSummary, OneRecon
<1>12. \A u \in CodeUnits' : CodeSound(u)'
  <2>1. \A u \in CodeUnits' : CodeSound(u)
    BY <1>7, <1>10 DEF EnrichInv
  <2> QED BY <2>1, <1>1 DEF CodeSound
<1>13. PassSound'
  <2>1. run'.todo \in Seq(CodeUnits')
    <3>1. CodeUnits \subseteq CodeUnits'
      BY <1>10
    <3>2. Len(rest) \in Nat /\ rest \in [1 .. Len(rest) -> CodeUnits]
      BY <1>4, LenProperties
    <3>3. rest \in [1 .. Len(rest) -> CodeUnits']
      BY <3>1, <3>2
    <3>4. rest \in Seq(CodeUnits')
      BY <3>2, <3>3
    <3> QED BY <3>4, <1>7
  <2>2. run'.noted \subseteq CodeUnits' /\ \A u \in run'.noted : u.text # ""
    BY <1>7, <1>10 DEF EnrichInv, PassSound
  <2> QED BY <1>8, <2>1, <2>2 DEF PassSound
<1> QED BY <1>1, <1>9, <1>11, <1>12, <1>13, CardsKept, CoverageKept DEF EnrichInv

(* The cards of a file are built from the tree and take the notes of rows that   *)
(* may be of another version; the row then records the rows' version.            *)
LEMMA ReindexKeeps == EnrichInv /\ reindexAnnotated => EnrichInv'
<1> SUFFICES ASSUME EnrichInv, reindexAnnotated PROVE EnrichInv'
  OBVIOUS
<1> DEFINE touched == {u.file : u \in run.noted}
           notes(f) == {[line |-> u.line, text |-> u.text] : u \in {x \in run.noted : x.file = f}}
<1>1. PICK failed \in SUBSET touched, gone \in SUBSET touched :
        cards' = [f \in SourceFiles |-> IF f \in touched \ failed THEN buildCards(f, tree[f], notes(f))
                                        ELSE IF f \in gone THEN NoCards ELSE cards[f]]
  BY DEF reindexAnnotated
<1>2. UNCHANGED <<tree, fileRow, units, coverage, torn>> /\ run' = NoPass
  BY DEF reindexAnnotated
<1>3. EnrichTypeOK'
  BY <1>1, <1>2 DEF EnrichInv, EnrichTypeOK, NoPass
<1>4. PassSound'
  BY <1>2 DEF PassSound, NoPass
<1>5. ASSUME NEW f \in SourceFiles PROVE NotesInPlace(f)'
  <2>1. CASE f \in touched \ failed
    <3>1. cards'[f].version = tree[f] /\ cards'[f].notes \subseteq notes(f)
      BY <1>1, <2>1 DEF buildCards
    <3> SUFFICES ASSUME f \notin torn, tree[f] = fileRow[f], NEW n \in notes(f)
                 PROVE  n.text = Symbols(f, tree[f])[n.line]
      BY <1>2, <3>1 DEF NotesInPlace
    <3>2. PICK u \in run.noted : u.file = f /\ n.line = u.line /\ n.text = u.text
      OBVIOUS
    <3>3. CodeSound(u) /\ u.text # ""
      BY DEF EnrichInv, PassSound
    <3> QED BY <3>2, <3>3 DEF CodeSound
  <2>2. CASE f \notin touched \ failed /\ f \in gone
    <3>1. cards'[f] = NoCards
      BY <1>1, <2>2
    <3> QED BY <3>1 DEF NotesInPlace, NoCards
  <2>3. CASE f \notin touched \ failed /\ f \notin gone
    <3>1. cards'[f] = cards[f]
      BY <1>1, <2>3
    <3> QED BY <1>2, <3>1 DEF EnrichInv, NotesInPlace
  <2> QED BY <2>1, <2>2, <2>3
<1> QED BY <1>2, <1>3, <1>4, <1>5, RowsKept, CoverageKept DEF EnrichInv

LEMMA EnrichKeeps == EnrichInv /\ [EnrichNext]_enrichVars => EnrichInv'
<1> SUFFICES ASSUME EnrichInv, [EnrichNext]_enrichVars PROVE EnrichInv'
  OBVIOUS
<1>1. CASE UNCHANGED enrichVars
  <2>1. UNCHANGED <<tree, fileRow, units, cards, coverage, run, torn>>
    BY <1>1 DEF enrichVars
  <2>2. EnrichTypeOK' /\ PassSound'
    BY <2>1, RowsKept DEF EnrichInv, EnrichTypeOK, PassSound
  <2> QED BY <2>1, <2>2, RowsKept, CardsKept, CoverageKept DEF EnrichInv
<1> QED BY <1>1, EditKeeps, IndexingKeeps, CoverageStepKeeps, ReconKeeps, FilesKeep, ServicesKeep,
           DocsKeep, StartKeeps, SentencesKeep, ReindexKeeps DEF EnrichNext

(* Whatever files change, fail or are skipped in whichever passes, and whatever   *)
(* the model answers (summarizeBatch, reindexAnnotated, recon, summarizeServices, *)
(* summaryAfter): a stored sentence is about the symbol that carries it and a     *)
(* note about the symbol at its line, a file and a service have one summary, the  *)
(* recon answer can be read, and coverage counts a whole pass.                    *)
THEOREM EnrichmentIsSafe == EnrichSpec => []EnrichmentSafe
<1>1. EnrichInv => EnrichmentSafe
  <2> SUFFICES ASSUME EnrichInv PROVE EnrichmentSafe
    OBVIOUS
  <2>1. NotesDescribeTheirSymbol
    <3>1. \A u \in units : u.kind = "code" /\ u.text # "" => u.text = u.owner
      BY DEF EnrichInv, CodeUnits, CodeSound
    <3>2. ASSUME NEW f \in SourceFiles \ torn, NEW u \in units, u.kind = "code", u.file = f,
                 u.version = cards[f].version, u.version = fileRow[f],
                 NEW n \in cards[f].notes, n.line = u.line
          PROVE  n.text = u.owner
      BY <3>2 DEF EnrichInv, CodeUnits, CodeSound, NotesInPlace
    <3> QED BY <3>1, <3>2 DEF NotesDescribeTheirSymbol
  <2>2. SummariesReplaced
    <3>1. Cardinality(Recons) <= 1
      <4>1. CASE Recons = {}
        BY <4>1, FS_EmptySet
      <4>2. ASSUME NEW u \in Recons PROVE Cardinality(Recons) = 1
        <5>1. Recons = {u}
          BY DEF EnrichInv, OneRecon
        <5> QED BY <5>1, FS_Singleton
      <4> QED BY <4>1, <4>2
    <3>2. Recons # {} => ReconHints # {}
      BY DEF EnrichInv, OneRecon, ReconHints
    <3> QED BY <3>1, <3>2 DEF EnrichInv, OneSummary, SummariesReplaced
  <2>3. CoverageOfAWholePass
    <3>1. coverage.reported => coverage.tally = Tally(coverage.of)
      BY DEF EnrichInv, CoverageSound
    <3>2. ASSUME RepoCoverage.reported, RepoCoverage.covered,
                 NEW f \in SourceFiles, NEW s \in ToSet(Symbols(f, coverage.of[f]))
          PROVE  s \notin Unlinked
      <4>1. coverage.reported /\ coverage.tally.candidates = coverage.tally.edges
        BY <3>2 DEF RepoCoverage
      <4>2. \A g \in SourceFiles : coverage.of[g] = 0 \/ coverage.of[g] \in DOMAIN Shape[g]
        BY <4>1 DEF EnrichInv, CoverageSound
      <4>3. Tally(coverage.of).candidates = Tally(coverage.of).edges
        BY <3>1, <4>1
      <4> QED BY <4>2, <4>3, CoveredMeansAll
    <3> QED BY <3>1, <3>2 DEF CoverageOfAWholePass
  <2> QED BY <2>1, <2>2, <2>3 DEF EnrichmentSafe
<1> QED BY <1>1, EnrichStarts, EnrichKeeps, PTL DEF EnrichSpec
=============================================================================
