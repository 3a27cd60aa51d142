------------------------------- MODULE Watcher -------------------------------
(***************************************************************************)
(* The filesystem watcher (internal/server/watch): one event loop that     *)
(* turns kernel events into batches of changed paths, waits for a quiet    *)
(* moment and pushes each batch into the index, and the budget that bounds *)
(* how many directories it follows.                                        *)
(*                                                                         *)
(* One repository: files in directories below its root.  The root itself   *)
(* is always watched.  The tree changes between any two steps of the loop. *)
(***************************************************************************)
EXTENDS Integers, Sequences, FiniteSets

CONSTANTS
    Dirs,         \* the directories below the root that may come and go
    Names,        \* the names a file in a directory may have
    MaxContent,   \* bound: contents of a file
    MaxStream,    \* bound: the kernel's queue of undelivered events
    HardMax,      \* budget.hardMax: directories that may be watched
    WatchFaults   \* what may go wrong: subset of AllWatchFaults

AllWatchFaults == {"overflow", "descriptors", "add", "list", "apply"}

ASSUME WatchAssumption ==
    /\ IsFiniteSet(Dirs) /\ IsFiniteSet(Names) /\ HardMax \in Nat
    /\ {MaxContent, MaxStream} \subseteq Nat \ {0}
    /\ WatchFaults \subseteq AllWatchFaults

VARIABLES
    made,       \* the directories that exist
    content,    \* per file: what is on disk, 0 without the file
    stream,     \* kernel events not yet delivered
    watched,    \* directories with a kernel watch
    known,      \* tree.dirs: directories the watcher believes it watches
    budget,     \* [granted, exhausted]
    pending,    \* the batch that gathers events
    loop,       \* what the event loop is doing
    rowsOf,     \* per file: the content the index holds, 0 for none
    other,      \* a full pass over the repository: [busy, read]
    lost,       \* history: files whose change was dropped with a warning
    silent,     \* history: files whose change came from a directory nobody followed
    dropped     \* history: files whose batch came to nothing and was let go

diskVars == <<made, content>>
watchVars == <<watched, known, budget>>
lossVars == <<lost, silent, dropped>>
watcherVars == <<diskVars, stream, watchVars, pending, loop, rowsOf, other, lossVars>>

Files == Dirs \X Names
In(d) == {f \in Files : f[1] = d}

(* A batch: changed files, vanished directories, and how old it is: quiet for a *)
(* debounce interval, open for longer than maxDelay, held off after a refusal.  *)
NoFiles == [files |-> {}, dirs |-> {}, settled |-> FALSE, overdue |-> FALSE, held |-> FALSE]
Empty(b) == b.files = {} /\ b.dirs = {}

Carries(b, f) == f \in b.files \/ f[1] \in b.dirs

Batched(f) ==
    \/ Carries(pending, f)
    \/ loop.pc \in {"resolve", "apply", "run"} /\ Carries(loop.batch, f)

(* The change set: what to delete, what to read again. *)
AtLoop == [pc |-> "loop", batch |-> NoFiles, dir |-> "none", gone |-> {}, changed |-> {}]

WatchInit ==
    /\ made = {} /\ content = [f \in Files |-> 0] /\ stream = <<>>
    /\ watched = {} /\ known = {} /\ budget = [granted |-> 1, exhausted |-> FALSE]
    /\ pending = NoFiles /\ loop = AtLoop
    /\ rowsOf = content /\ other = [busy |-> FALSE, read |-> content]
    /\ lost = {} /\ silent = {} /\ dropped = {}

-----------------------------------------------------------------------------
(* The tree changes.  An event that finds the queue full is dropped; the      *)
(* overflow comes up as an error that Run logs.                               *)
Emit(ev, affected) ==
    IF Len(stream) < MaxStream
    THEN stream' = Append(stream, ev) /\ UNCHANGED lost
    ELSE /\ "overflow" \in WatchFaults
         /\ lost' = lost \cup affected
         /\ UNCHANGED stream

(* The walk of an appeared directory is still to come. *)
WalkAhead(d) ==
    \/ \E i \in DOMAIN stream : stream[i] = [kind |-> "made", path |-> d]
    \/ loop.pc = "watch" /\ loop.dir = d

(* A file in a directory nobody watches changes unseen, unless the walk will    *)
(* find it there.                                                               *)
Change(f, c) ==
    /\ f[1] \in made /\ c # content[f]
    /\ content' = [content EXCEPT ![f] = c]
    /\ IF f[1] \in watched
       THEN Emit([kind |-> "file", path |-> f], {f}) /\ UNCHANGED silent
       ELSE /\ silent' = IF c # 0 /\ WalkAhead(f[1]) THEN silent ELSE silent \cup {f}
            /\ UNCHANGED <<stream, lost>>
    /\ UNCHANGED <<made, watchVars, pending, loop, rowsOf, other, dropped>>

Mkdir(d) ==
    /\ d \notin made /\ made' = made \cup {d}
    /\ Emit([kind |-> "made", path |-> d], In(d))
    /\ UNCHANGED <<content, watchVars, pending, loop, rowsOf, other, silent, dropped>>

(* A directory is moved away or removed with what is in it: one event. *)
Rmdir(d) ==
    /\ d \in made /\ made' = made \ {d}
    /\ content' = [f \in Files |-> IF f \in In(d) THEN 0 ELSE content[f]]
    /\ watched' = watched \ {d}
    /\ Emit([kind |-> "gone", path |-> d], In(d))
    /\ UNCHANGED <<known, budget, pending, loop, rowsOf, other, silent, dropped>>

(* A full pass holds the claim: it reads the tree, and stores what it read.   *)
OtherPass ==
    /\ ~other.busy /\ loop.pc # "run"
    /\ other' = [busy |-> TRUE, read |-> content]
    /\ UNCHANGED <<diskVars, stream, watchVars, pending, loop, rowsOf, lossVars>>

OtherPassEnds ==
    /\ other.busy
    /\ other' = [other EXCEPT !.busy = FALSE]
    /\ rowsOf' = other.read
    /\ LET caught == {f \in Files : other.read[f] = content[f] /\ ~Batched(f)}
       IN lost' = lost \ caught /\ silent' = silent \ caught /\ dropped' = dropped \ caught
    /\ UNCHANGED <<diskVars, stream, watchVars, pending, loop>>

-----------------------------------------------------------------------------
(* The budget *)

take == IF budget.granted >= HardMax \/ budget.exhausted THEN "refused" ELSE "granted"
Granted == [budget EXCEPT !.granted = @ + 1]

(* Mutant of release: the capacity is given back twice. *)
releaseTwice(b) == [granted |-> IF b.granted > 1 THEN b.granted - 2 ELSE 0, exhausted |-> FALSE]

(* A released descriptor lets the next take sample again. *)
release(b) == [granted |-> IF b.granted > 0 THEN b.granted - 1 ELSE 0, exhausted |-> FALSE]

-----------------------------------------------------------------------------
(* record: one event *)

(* Every recorded path restarts the quiet period. *)
Gather(fs, ds) ==
    LET seen == fs \cup UNION {In(d) : d \in ds} IN
    /\ pending' = [pending EXCEPT !.files = @ \cup fs, !.dirs = @ \cup ds,
                      !.settled = FALSE,
                      !.overdue = IF Empty(pending) THEN FALSE ELSE @,
                      !.held = IF Empty(pending) THEN FALSE ELSE @]
    /\ lost' = lost \ seen /\ silent' = silent \ seen /\ dropped' = dropped \ seen

Deliver(kind) == /\ loop.pc = "loop" /\ stream # <<>> /\ Head(stream).kind = kind
                 /\ stream' = Tail(stream)

RecordFile ==
    /\ Deliver("file")
    /\ Gather({Head(stream).path}, {})
    /\ UNCHANGED <<diskVars, watchVars, loop, rowsOf, other>>

(* Only a directory known to be watched is told from a removed file; an        *)
(* unknown one has no language and is dropped.  The budget is not given back.  *)
RecordGone ==
    LET d == Head(stream).path IN
    /\ Deliver("gone")
    /\ IF d \in known
       THEN /\ known' = known \ {d} /\ watched' = watched \ {d}
            /\ Gather({}, {d})
       ELSE /\ silent' = silent \cup In(d)
            /\ UNCHANGED <<known, watched, pending, lost, dropped>>
    /\ UNCHANGED <<diskVars, budget, loop, rowsOf, other>>

(* A directory that appeared: walkTree watches it, then lists what is in it.   *)
RecordMade ==
    LET d == Head(stream).path IN
    /\ Deliver("made")
    /\ loop' = IF d \in made THEN [loop EXCEPT !.pc = "watch", !.dir = d] ELSE loop
    /\ UNCHANGED <<diskVars, watchVars, pending, rowsOf, other, lossVars>>

(* fsnotify's Add fails for a directory that is gone again. *)
WatchDir ==
    LET d == loop.dir IN
    /\ loop.pc = "watch"
    /\ \/ /\ take = "granted" /\ d \in made
          /\ budget' = Granted /\ watched' = watched \cup {d} /\ known' = known \cup {d}
          /\ loop' = [loop EXCEPT !.pc = "list"]
       \/ /\ take = "granted" /\ ("add" \in WatchFaults \/ d \notin made)
          /\ budget' = release(Granted)
          /\ loop' = [loop EXCEPT !.pc = "list"]
          /\ UNCHANGED <<watched, known>>
       \/ /\ \/ take = "refused" /\ UNCHANGED budget
             \/ /\ take = "granted" /\ "descriptors" \in WatchFaults
                /\ budget' = [budget EXCEPT !.exhausted = TRUE]
          /\ loop' = AtLoop
          /\ UNCHANGED <<watched, known>>
    /\ UNCHANGED <<diskVars, stream, pending, rowsOf, other, lossVars>>

(* Mutant of ListDir: the files that were already there are not enqueued. *)
ListDirOnlyWatches ==
    /\ loop.pc = "list"
    /\ loop' = AtLoop
    /\ UNCHANGED <<diskVars, stream, watchVars, pending, rowsOf, other, lossVars>>

(* The files found, also in a directory whose watch could not be installed. *)
ListDir ==
    LET found == {f \in In(loop.dir) : content[f] # 0} IN
    /\ loop.pc = "list"
    /\ IF found = {} THEN UNCHANGED <<pending, lossVars>> ELSE Gather(found, {})
    /\ loop' = AtLoop
    /\ UNCHANGED <<diskVars, stream, watchVars, rowsOf, other>>

-----------------------------------------------------------------------------
(* flush and apply *)

(* Time passes for the batch that is gathering. *)
Settle == ~Empty(pending) /\ ~pending.settled /\ pending' = [pending EXCEPT !.settled = TRUE]
Overdue == ~Empty(pending) /\ ~pending.overdue /\ pending' = [pending EXCEPT !.overdue = TRUE]
HoldEnds == pending.held /\ pending' = [pending EXCEPT !.held = FALSE]

Passing(step) == step /\ UNCHANGED <<diskVars, stream, watchVars, loop, rowsOf, other, lossVars>>

(* Mutant of Ready: the quiet period has no cap. *)
ReadyWhenQuiet(b) == ~b.held /\ b.settled

Ready(b) == ~b.held /\ (b.settled \/ b.overdue)

flush ==
    /\ loop.pc = "loop" /\ ~Empty(pending) /\ Ready(pending)
    /\ loop' = [loop EXCEPT !.pc = "resolve", !.batch = pending]
    /\ pending' = NoFiles
    /\ UNCHANGED <<diskVars, stream, watchVars, rowsOf, other, lossVars>>

(* The last entry of the change set for a path wins (mergeCommitPlan): the      *)
(* vanished directories come first, the changed files after them.               *)
ChangeSet(b, under) ==
    [gone |-> (under \ b.files) \cup {f \in b.files : content[f] = 0},
     changed |-> {f \in b.files : content[f] # 0}]

(* IndexedPathsUnder of every vanished directory, Lstat of every changed file. *)
(* An empty change set ends here, also while a full pass is about to store     *)
(* what was in the directory.                                                  *)
changeSet ==
    LET b == loop.batch
        under == {f \in Files : f[1] \in b.dirs /\ rowsOf[f] # 0}
    IN
    /\ loop.pc = "resolve"
    /\ \/ LET cs == ChangeSet(b, under) IN
          /\ loop' = IF cs.gone \cup cs.changed = {} THEN AtLoop
                     ELSE [loop EXCEPT !.pc = "apply", !.gone = cs.gone, !.changed = cs.changed]
          /\ dropped' = IF cs.gone \cup cs.changed = {}
                        THEN dropped \cup {f \in Files : Carries(b, f)} ELSE dropped
          /\ UNCHANGED lost
       \/ /\ "list" \in WatchFaults /\ b.dirs # {}
          /\ LET cs == ChangeSet(b, {}) IN
             loop' = IF cs.gone \cup cs.changed = {} THEN AtLoop
                     ELSE [loop EXCEPT !.pc = "apply", !.gone = cs.gone, !.changed = cs.changed]
          /\ lost' = lost \cup {f \in Files : f[1] \in b.dirs}
          /\ UNCHANGED dropped
    /\ UNCHANGED <<diskVars, stream, watchVars, pending, rowsOf, other, silent>>

(* Mutant of requeue: a refused batch is dropped. *)
requeueDrops(b) == pending' = pending

(* A refused batch goes back.  Only the loop gathers events, so nothing is      *)
(* pending yet; the merge with newer events is what the code does if it were.   *)
requeue(b) ==
    pending' = [files |-> pending.files \cup b.files, dirs |-> pending.dirs \cup b.dirs,
                settled |-> IF Empty(pending) THEN b.settled ELSE pending.settled,
                overdue |-> b.overdue, held |-> TRUE]

(* ApplyLocalChanges: refused while another pass holds the claim. *)
ApplyBusy ==
    /\ loop.pc = "apply" /\ other.busy
    /\ requeue(loop.batch)
    /\ loop' = AtLoop
    /\ UNCHANGED <<diskVars, stream, watchVars, rowsOf, other, lossVars>>

(* The change set was made before the claim: a file of a vanished directory     *)
(* that a full pass has stored since is not in it, and the batch lets it go.    *)
ApplyClaims ==
    /\ loop.pc = "apply" /\ ~other.busy
    /\ loop' = [loop EXCEPT !.pc = "run"]
    /\ dropped' = dropped \cup ({f \in Files : Carries(loop.batch, f)} \ (loop.gone \cup loop.changed))
    /\ UNCHANGED <<diskVars, stream, watchVars, pending, rowsOf, other, lost, silent>>

(* The pass reads the changed files now; one that is gone meanwhile is left    *)
(* unapplied, which is logged, and its removal has an event of its own.        *)
ApplyLands ==
    /\ loop.pc = "run"
    /\ rowsOf' = [f \in Files |-> CASE f \in loop.gone -> 0
                                    [] f \in loop.changed \ loop.gone /\ content[f] # 0 -> content[f]
                                    [] OTHER -> rowsOf[f]]
    /\ loop' = AtLoop
    /\ UNCHANGED <<diskVars, stream, watchVars, pending, other, lossVars>>

(* Any other failure is logged and the batch is not put back. *)
ApplyFails ==
    /\ loop.pc = "run" /\ "apply" \in WatchFaults
    /\ lost' = lost \cup loop.gone \cup loop.changed
    /\ loop' = AtLoop
    /\ UNCHANGED <<diskVars, stream, watchVars, pending, rowsOf, other, silent, dropped>>

-----------------------------------------------------------------------------
TreeChanges ==
    \/ \E f \in Files, c \in 0 .. MaxContent : Change(f, c)
    \/ \E d \in Dirs : Mkdir(d) \/ Rmdir(d)
    \/ OtherPass

LoopNext ==
    \/ RecordFile \/ RecordGone \/ RecordMade \/ WatchDir \/ ListDir
    \/ flush \/ changeSet \/ ApplyBusy \/ ApplyClaims \/ ApplyLands \/ ApplyFails

WatchNext ==
    \/ TreeChanges \/ OtherPassEnds \/ LoopNext
    \/ Passing(Settle) \/ Passing(Overdue) \/ Passing(HoldEnds)

(* The loop keeps running and its select, which picks among ready channels at    *)
(* random, does not starve the tick; passes end and clocks advance.              *)
WatchFairness ==
    /\ WF_watcherVars(LoopNext) /\ SF_watcherVars(flush) /\ WF_watcherVars(OtherPassEnds)
    /\ WF_watcherVars(Passing(Overdue)) /\ WF_watcherVars(Passing(HoldEnds))

WatchSpec == WatchInit /\ [][WatchNext]_watcherVars /\ WatchFairness

-----------------------------------------------------------------------------
(* Properties *)

Stale(f) == rowsOf[f] # content[f]

(* A change of f is still on its way into the index. *)
InFlight(f) ==
    \/ Batched(f)
    \/ loop.pc \in {"watch", "list"} /\ loop.dir = f[1]
    \/ \E i \in DOMAIN stream : stream[i].path \in {f, f[1]}

(* A change in a directory that is not followed. *)
Unseen(f) == f \in silent \/ (f[1] \in made \ watched /\ ~WalkAhead(f[1]))

(* A file the index holds differently from the disk is in the event stream, in  *)
(* a batch or being applied, unless its change went one of the ways that drop   *)
(* one: an overflow, a failed pass or listing, a directory that is not          *)
(* followed, a batch that came to nothing.  A running full pass has yet to      *)
(* store what it read.                                                          *)
ChangesAccounted ==
    \A f \in Files :
        Stale(f) /\ ~other.busy => InFlight(f) \/ f \in lost \cup dropped \/ Unseen(f)

(* The budget bounds the watches: it never grants more than hardMax and never   *)
(* counts fewer directories than are watched beside the root.                   *)
BudgetBounds ==
    /\ budget.granted <= HardMax \/ budget.granted = 1
    /\ Cardinality(known) < budget.granted /\ watched \subseteq known

(* "Waiting for silence that does not come is indistinguishable from having     *)
(* stopped working" (DefaultMaxDelay): a batch is taken up even if the tree     *)
(* never goes quiet.                                                            *)
BatchFlushes == ~Empty(pending) ~> (Empty(pending) \/ loop.pc = "resolve")

(* Once the tree is left alone, the index comes to hold it, but for the changes *)
(* that were dropped.                                                           *)
TreeCaughtUp ==
    <>[][~TreeChanges]_watcherVars =>
        <>[](\A f \in Files : Stale(f) => f \in lost \cup dropped \/ Unseen(f))

(* What the watcher keeps at every step: each change is pending, applied or    *)
(* announced as missed, and the watch budget is within its bounds.             *)
WatcherSafe == ChangesAccounted /\ BudgetBounds

(* What the watcher achieves: a gathered batch is applied, and once the tree   *)
(* is quiet the index catches up with it.                                      *)
WatcherLive == BatchFlushes /\ TreeCaughtUp

-----------------------------------------------------------------------------
(* The inductive invariant behind the theorem of WatcherProofs. *)

Batch == [files : SUBSET Files, dirs : SUBSET Dirs,
          settled : BOOLEAN, overdue : BOOLEAN, held : BOOLEAN]

Events == [kind : {"file"}, path : Files] \cup [kind : {"made", "gone"}, path : Dirs]

LoopState == [pc : {"loop", "watch", "list", "resolve", "apply", "run"}, batch : Batch,
              dir : Dirs \cup {"none"}, gone : SUBSET Files, changed : SUBSET Files]

WatcherTypeOK ==
    /\ made \subseteq Dirs /\ content \in [Files -> Nat] /\ stream \in Seq(Events)
    /\ watched \subseteq Dirs /\ known \subseteq Dirs
    /\ budget \in [granted : Nat, exhausted : BOOLEAN]
    /\ pending \in Batch
    /\ loop \in LoopState
    /\ loop.pc \in {"watch", "list"} => loop.dir \in Dirs
    /\ rowsOf \in [Files -> Nat] /\ other \in [busy : BOOLEAN, read : [Files -> Nat]]
    /\ lost \subseteq Files /\ silent \subseteq Files /\ dropped \subseteq Files

(* Files stand in directories that exist, and so do watches; a full pass and a   *)
(* batch never run together; what the change set names, the batch carries.       *)
WatcherShape ==
    /\ \A f \in Files : content[f] # 0 => f[1] \in made
    /\ watched \subseteq made
    /\ other.busy => loop.pc # "run"
    /\ loop.pc \in {"apply", "run"} =>
          /\ loop.changed \subseteq loop.batch.files /\ loop.gone \cap loop.changed = {}
          /\ \A f \in loop.gone : Carries(loop.batch, f)
          /\ loop.batch.files \subseteq loop.gone \cup loop.changed

Has(kind, path) == \E i \in DOMAIN stream : stream[i] = [kind |-> kind, path |-> path]
Missed(f) == f \in lost \cup silent \cup dropped

(* What a new content and a removal still have ahead of them outside a batch.    *)
WillRead(f) == f[1] \notin watched \/ Has("file", f) \/ Missed(f)
WillRemove(f) == Has("file", f) \/ Has("gone", f[1]) \/ Missed(f)
Listing(f) == loop.pc = "list" /\ loop.dir = f[1]

(* Why a file on disk comes to be read, and one that is gone to be removed.      *)
ReadAhead(f) ==
    \/ WillRead(f) \/ Listing(f) \/ f \in pending.files
    \/ loop.pc = "resolve" /\ f \in loop.batch.files
    \/ loop.pc \in {"apply", "run"} /\ f \in loop.changed

RemovalAhead(f) ==
    \/ WillRemove(f) \/ Carries(pending, f)
    \/ loop.pc \in {"resolve", "apply"} /\ Carries(loop.batch, f)
    \/ loop.pc = "run" /\ f \in loop.gone

(* What the index will hold of a file once a running full pass has stored.       *)
View(f) == IF other.busy THEN other.read[f] ELSE rowsOf[f]

StaleAhead(f) ==
    View(f) # content[f] => IF content[f] = 0 THEN RemovalAhead(f) ELSE ReadAhead(f)

(* A vanished directory that has come back: the batch removes its files, so the  *)
(* ones it holds again have to be read after it.                                 *)
BackAgain(f) ==
    content[f] # 0 =>
        /\ f[1] \in pending.dirs /\ f \notin pending.files => WillRead(f) \/ Listing(f)
        /\ /\ loop.pc \in {"resolve", "apply", "run"} /\ Carries(loop.batch, f)
           /\ f \notin (IF loop.pc = "resolve" THEN loop.batch.files ELSE loop.changed)
           => WillRead(f)

(* A file that vanished after the change set was made to read it. *)
GoneSince(f) ==
    loop.pc \in {"apply", "run"} /\ f \in loop.changed /\ content[f] = 0 => WillRemove(f)

FileAccounted(f) == StaleAhead(f) /\ BackAgain(f) /\ GoneSince(f)

WatcherInv ==
    WatcherTypeOK /\ WatcherShape /\ (\A f \in Files : FileAccounted(f)) /\ BudgetBounds
=============================================================================
