----------------------------- MODULE ProgressBus -----------------------------
(***************************************************************************)
(* The status bus (internal/server/progress) and the dashboard that reads  *)
(* it (internal/server/tui).  Publishers change the surface under the lock *)
(* and wake the subscribers after releasing it; a dashboard reads a        *)
(* snapshot for every wakeup, in commands that run concurrently.           *)
(*                                                                         *)
(* A repository is abstracted to its phase, a log entry to its level and   *)
(* the number of the publication that wrote it.                            *)
(***************************************************************************)
EXTENDS Integers, Sequences, FiniteSets

CONSTANTS
    Publishers,   \* goroutines that publish: index passes, the watcher, the log
    Shown,        \* repositories on the surface
    LogCap,       \* capacity of the log ring
    MaxPublish,   \* bound: publications
    Dashboards    \* subscriptions

ASSUME BusAssumption == LogCap \in Nat \ {0} /\ MaxPublish \in Nat

VARIABLES
    surface,   \* [phase, ring, logNext, logLen, errors, warnings]
    published, \* how many publications have changed the surface
    history,   \* the log entries ever written
    pub,       \* per publisher: [pc, targets]
    sub,       \* per subscription: [state, token]; the token is the one-slot channel
    dash,      \* per dashboard: [waiting, changed, asked, msgs, shown, seen]
    panicked   \* a send met a closed channel

busVars == <<surface, published, history, pub, sub, dash, panicked>>

(* What the log handler tees into the bus: warnings and worse. *)
LogLevels == {"warn", "error"}

Absent == "absent"
IdlePub == [pc |-> "idle", targets |-> {}]
NoDash == [waiting |-> FALSE, changed |-> FALSE, asked |-> 0, msgs |-> {}, shown |-> 0, seen |-> 0]

BusInit ==
    /\ surface = [phase |-> [r \in Shown |-> Absent],
                  ring |-> [i \in 0 .. LogCap - 1 |-> [level |-> "none", n |-> 0]],
                  logNext |-> 0, logLen |-> 0, errors |-> 0, warnings |-> 0]
    /\ published = 0 /\ history = <<>> /\ panicked = FALSE
    /\ pub = [p \in Publishers |-> IdlePub]
    /\ sub = [s \in Dashboards |-> [state |-> "none", token |-> FALSE]]
    /\ dash = [s \in Dashboards |-> NoDash]

-----------------------------------------------------------------------------
(* The surface.  Every update is made under the lock. *)

(* state: an entry is created on first mention. *)
state(b, r) == IF b.phase[r] = Absent THEN [b EXCEPT !.phase[r] = "idle"] ELSE b

appendLog(b, e) ==
    [b EXCEPT !.ring[b.logNext] = e,
              !.logNext = (@ + 1) % LogCap,
              !.logLen = IF @ < LogCap THEN @ + 1 ELSE @,
              !.errors = IF e.level = "error" THEN @ + 1 ELSE @,
              !.warnings = IF e.level = "warn" THEN @ + 1 ELSE @]

Entry(level) == [level |-> level, n |-> published + 1]

RepoRegistered(r) == [to |-> state(surface, r), log |-> <<>>]
ReposDormant == [to |-> surface, log |-> <<>>]
IndexQueued(r) == [to |-> [state(surface, r) EXCEPT !.phase[r] = "queued"], log |-> <<>>]
IndexStarted(r) == [to |-> [state(surface, r) EXCEPT !.phase[r] = "indexing"],
                    log |-> <<Entry("info")>>]
IndexProgress(r) == [to |-> state(surface, r), log |-> <<>>]
IndexFinished(r, ok) == [to |-> [state(surface, r) EXCEPT !.phase[r] = IF ok THEN "idle" ELSE "error"],
                         log |-> <<Entry(IF ok THEN "info" ELSE "error")>>]
Watching(r) == [to |-> state(surface, r), log |-> <<>>]
WatchApplied(r, ok) == [to |-> [state(surface, r) EXCEPT !.phase[r] = IF ok THEN "idle" ELSE "error"],
                        log |-> <<Entry(IF ok THEN "info" ELSE "error")>>]
Log(level) == [to |-> surface, log |-> <<Entry(level)>>]

RepoPublications(r) ==
    {RepoRegistered(r), IndexQueued(r), IndexStarted(r), IndexProgress(r), Watching(r),
     IndexFinished(r, TRUE), IndexFinished(r, FALSE), WatchApplied(r, TRUE), WatchApplied(r, FALSE)}

Publications == (UNION {RepoPublications(r) : r \in Shown}) \cup {ReposDormant} \cup {Log(l) : l \in LogLevels}

Publish(p) ==
    /\ pub[p].pc = "idle" /\ published < MaxPublish
    /\ \E op \in Publications :
        /\ surface' = IF op.log = <<>> THEN op.to ELSE appendLog(op.to, op.log[1])
        /\ history' = history \o op.log
    /\ published' = published + 1
    /\ pub' = [pub EXCEPT ![p].pc = "notify"]
    /\ UNCHANGED <<sub, dash, panicked>>

(* Mutant of SnapLog: the oldest entry is where the next one will be written. *)
SnapLogFromNext(b) == [i \in 1 .. b.logLen |-> b.ring[(b.logNext + i - 1) % LogCap]]

(* Snapshot: the entries held, oldest first. *)
SnapLog(b) ==
    LET start == (b.logNext - b.logLen + LogCap) % LogCap
    IN [i \in 1 .. b.logLen |-> b.ring[(start + i - 1) % LogCap]]

-----------------------------------------------------------------------------
(* notify: the channels are copied under the lock and sent to without it. *)

Sending(targets) == IF targets = {} THEN IdlePub ELSE [pc |-> "send", targets |-> targets]

CopySubs(p) ==
    /\ pub[p].pc = "notify"
    /\ pub' = [pub EXCEPT ![p] = Sending({s \in Dashboards : sub[s].state = "open"})]
    /\ UNCHANGED <<surface, published, history, sub, dash, panicked>>

(* A non-blocking send into the one-slot channel; on a channel closed since it *)
(* was copied it brings the process down.                                      *)
Send(p) ==
    /\ \E s \in pub[p].targets :
        /\ pub' = [pub EXCEPT ![p] = Sending(pub[p].targets \ {s})]
        /\ IF sub[s].state = "open"
           THEN sub' = [sub EXCEPT ![s].token = TRUE] /\ UNCHANGED panicked
           ELSE panicked' = TRUE /\ UNCHANGED sub
    /\ UNCHANGED <<surface, published, history, dash>>

Subscribe(s) ==
    /\ sub[s].state = "none"
    /\ sub' = [sub EXCEPT ![s].state = "open"]
    /\ UNCHANGED <<surface, published, history, pub, dash, panicked>>

(* The dashboard ends, the subscription is removed and its channel closed. *)
Cancel(s) ==
    /\ sub[s].state = "open" /\ dash[s].waiting
    /\ sub' = [sub EXCEPT ![s].state = "closed"]
    /\ dash' = [dash EXCEPT ![s] = NoDash]
    /\ UNCHANGED <<surface, published, history, pub, panicked>>

-----------------------------------------------------------------------------
(* The dashboard's update loop.  Commands run in goroutines of their own, so   *)
(* the snapshots they read arrive in any order.                                *)

Dash(s, d) == dash' = [dash EXCEPT ![s] = d] /\ UNCHANGED <<surface, published, history, pub, panicked>>

(* newModel reads a snapshot; Init asks for another and waits for a change. *)
DashOpen(s) ==
    /\ sub[s].state = "open" /\ dash[s] = NoDash
    /\ Dash(s, [NoDash EXCEPT !.waiting = TRUE, !.asked = 1, !.shown = published, !.seen = published])
    /\ UNCHANGED sub

waitForChange(s) ==
    /\ dash[s].waiting /\ sub[s].token
    /\ sub' = [sub EXCEPT ![s].token = FALSE]
    /\ Dash(s, [dash[s] EXCEPT !.waiting = FALSE, !.changed = TRUE])

(* Mutant of OnChanged: no new read while a snapshot is on its way. *)
OnChangedOnce(s) ==
    /\ dash[s].changed
    /\ Dash(s, [dash[s] EXCEPT !.changed = FALSE, !.waiting = TRUE,
                               !.asked = IF dash[s].msgs = {} THEN @ + 1 ELSE @])
    /\ UNCHANGED sub

OnChanged(s) ==
    /\ dash[s].changed
    /\ Dash(s, [dash[s] EXCEPT !.changed = FALSE, !.waiting = TRUE, !.asked = @ + 1])
    /\ UNCHANGED sub

readSnapshot(s) ==
    /\ dash[s].asked > 0
    /\ Dash(s, [dash[s] EXCEPT !.asked = @ - 1, !.msgs = @ \cup {published}, !.seen = published])
    /\ UNCHANGED sub

OnSnap(s) ==
    /\ \E v \in dash[s].msgs : Dash(s, [dash[s] EXCEPT !.msgs = @ \ {v}, !.shown = v])
    /\ UNCHANGED sub

BusNext ==
    /\ ~panicked
    /\ \/ \E p \in Publishers : Publish(p) \/ CopySubs(p) \/ Send(p)
       \/ \E s \in Dashboards :
            \/ Subscribe(s) \/ Cancel(s) \/ DashOpen(s) \/ waitForChange(s)
            \/ OnChanged(s) \/ readSnapshot(s) \/ OnSnap(s)

BusSpec == BusInit /\ [][BusNext]_busVars

-----------------------------------------------------------------------------
(* Properties *)

(* A snapshot's log is the last LogCap entries ever written, oldest first, and  *)
(* the error and warning counters count every entry, the overwritten ones too   *)
(* (appendLog, Snapshot).                                                       *)
SnapshotLogIsSuffix ==
    LET held == IF Len(history) < LogCap THEN Len(history) ELSE LogCap
        Count(l) == Cardinality({i \in DOMAIN history : history[i].level = l})
    IN /\ SnapLog(surface) = SubSeq(history, Len(history) - held + 1, Len(history))
       /\ surface.errors = Count("error") /\ surface.warnings = Count("warn")

(* "A subscriber that is redrawing misses no change" (Subscribe): whenever the  *)
(* surface is newer than every snapshot an open dashboard has read, a wakeup is *)
(* in its channel or on its way, or a read is still to come.                    *)
NoMissedChange ==
    \A s \in Dashboards :
        sub[s].state = "open" /\ dash[s] # NoDash /\ dash[s].seen < published =>
            \/ sub[s].token \/ dash[s].changed \/ dash[s].asked > 0
            \/ \E p \in Publishers : pub[p].pc = "notify" \/ s \in pub[p].targets

(* The inductive invariant.  The ring holds the newest entries in the order     *)
(* they were written: from slot 0 until it is full, then from logNext around;   *)
(* only an open subscription has a dashboard, and only a sender has targets.    *)
LogEntries == [level : {"none", "info"} \cup LogLevels, n : Nat]

SurfaceType ==
    [phase : [Shown -> {Absent, "idle", "queued", "indexing", "error"}], ring : [0 .. LogCap - 1 -> LogEntries],
     logNext : 0 .. LogCap - 1, logLen : 0 .. LogCap, errors : Nat, warnings : Nat]

BusTypeOK ==
    /\ surface \in SurfaceType /\ published \in Nat /\ history \in Seq(LogEntries)
    /\ pub \in [Publishers -> [pc : {"idle", "notify", "send"}, targets : SUBSET Dashboards]]
    /\ sub \in [Dashboards -> [state : {"none", "open", "closed"}, token : BOOLEAN]]
    /\ dash \in [Dashboards -> [waiting : BOOLEAN, changed : BOOLEAN, asked : Nat, msgs : SUBSET Nat,
                                shown : Nat, seen : Nat]]

Slot(first, i) == IF first + i - 1 < LogCap THEN first + i - 1 ELSE first + i - 1 - LogCap

RingHolds(b, h) ==
    /\ Len(h) < LogCap => /\ b.logNext = Len(h) /\ b.logLen = Len(h)
                          /\ \A j \in 1 .. Len(h) : b.ring[j - 1] = h[j]
    /\ Len(h) >= LogCap => /\ b.logLen = LogCap
                           /\ \A i \in 1 .. LogCap : b.ring[Slot(b.logNext, i)] = h[Len(h) - LogCap + i]

Counted(b, h) ==
    /\ b.errors = Cardinality({i \in DOMAIN h : h[i].level = "error"})
    /\ b.warnings = Cardinality({i \in DOMAIN h : h[i].level = "warn"})

DashboardsOpen == \A s \in Dashboards : sub[s].state # "open" => dash[s] = NoDash

Senders == \A p \in Publishers : pub[p].targets # {} => pub[p].pc = "send"

BusInv ==
    /\ BusTypeOK /\ RingHolds(surface, history) /\ Counted(surface, history)
    /\ DashboardsOpen /\ Senders /\ NoMissedChange

(* What the terminal dashboard may rely on: a consistent log tail in every     *)
(* snapshot, and a wake-up for every change it has not seen.                   *)
BusConsistent == SnapshotLogIsSuffix /\ NoMissedChange
=============================================================================
