------------------------------ MODULE LspClient ------------------------------
(***************************************************************************)
(* The language-server client (internal/lsp/client.go): calls that         *)
(* register a channel under their id and wait for the read loop to hand    *)
(* them an answer, a timeout or a cancelled context, over a connection     *)
(* that may break between any two steps.  Close ends a session.            *)
(***************************************************************************)
EXTENDS Integers, FiniteSets

CONSTANTS
    Callers,     \* goroutines that call
    MaxCalls,    \* bound: requests of one session
    MaxReplies   \* bound: times the server answers one request

ASSUME LspAssumption == MaxCalls \in Nat /\ MaxReplies \in Nat \ {0}

CallIds == 1 .. MaxCalls

VARIABLES
    nextID,     \* requests encoded so far
    waiters,    \* c.pending: ids whose channel the read loop may use
    chan,       \* per id: "empty", "msg" or "closed"
    caller,     \* per caller: [pc, id]
    sent,       \* ids written to the server
    replies,    \* per id: how often the server has answered
    inbox,      \* responses that wait to be read
    reader,     \* the read loop: [pc, id]
    conn,       \* "open", "broken" (by the network or Close)
    ended       \* history: per id, how the call ended

lspVars == <<nextID, waiters, chan, caller, sent, replies, inbox, reader, conn, ended>>

Resting == [pc |-> "idle", id |-> 0]
Reading == [pc |-> "read", id |-> 0]

LspInit ==
    /\ nextID = 0 /\ waiters = {} /\ sent = {} /\ inbox = {} /\ conn = "open"
    /\ chan = [i \in CallIds |-> "empty"] /\ ended = [i \in CallIds |-> "none"]
    /\ caller = [c \in Callers |-> Resting] /\ reader = Reading
    /\ replies = [i \in CallIds |-> 0]

-----------------------------------------------------------------------------
(* call *)

encodeRequest(c) ==
    /\ caller[c].pc = "idle" /\ nextID < MaxCalls
    /\ nextID' = nextID + 1
    /\ caller' = [caller EXCEPT ![c] = [pc |-> "encoded", id |-> nextID + 1]]
    /\ UNCHANGED <<waiters, chan, sent, replies, inbox, reader, conn, ended>>

Ends(c, how) ==
    /\ ended' = [ended EXCEPT ![caller[c].id] = how]
    /\ caller' = [caller EXCEPT ![c] = Resting]

(* The channel is registered and the frame written under one lock.  A broken    *)
(* connection may still take the frame; nothing checks that the read loop lives. *)
RegisterAndWrite(c) ==
    /\ caller[c].pc = "encoded"
    /\ waiters' = waiters \cup {caller[c].id}
    /\ sent' = IF conn = "open" THEN sent \cup {caller[c].id} ELSE sent
    /\ caller' = [caller EXCEPT ![c].pc = "wait"]
    /\ UNCHANGED <<nextID, chan, replies, inbox, reader, conn, ended>>

WriteFails(c) ==
    /\ caller[c].pc = "encoded"
    /\ Ends(c, "failed")
    /\ UNCHANGED <<nextID, waiters, chan, sent, replies, inbox, reader, conn>>

Receive(c) ==
    /\ caller[c].pc = "wait" /\ chan[caller[c].id] # "empty"
    /\ chan' = IF chan[caller[c].id] = "msg" THEN [chan EXCEPT ![caller[c].id] = "empty"] ELSE chan
    /\ Ends(c, IF chan[caller[c].id] = "msg" THEN "answered" ELSE "failed")
    /\ UNCHANGED <<nextID, waiters, sent, replies, inbox, reader, conn>>

(* The timer fires or the context ends: the call stops waiting, then forgets.   *)
GiveUp(c) ==
    /\ caller[c].pc = "wait"
    /\ caller' = [caller EXCEPT ![c].pc = "forget"]
    /\ UNCHANGED <<nextID, waiters, chan, sent, replies, inbox, reader, conn, ended>>

forget(c) ==
    /\ caller[c].pc = "forget"
    /\ waiters' = waiters \ {caller[c].id}
    /\ Ends(c, "failed")
    /\ UNCHANGED <<nextID, chan, sent, replies, inbox, reader, conn>>

-----------------------------------------------------------------------------
(* readLoop *)

(* The server answers in any order, late, or more than once. *)
ServerAnswers(i) ==
    /\ i \in sent /\ i \notin inbox /\ replies[i] < MaxReplies /\ conn = "open"
    /\ replies' = [replies EXCEPT ![i] = @ + 1]
    /\ inbox' = inbox \cup {i}
    /\ UNCHANGED <<nextID, waiters, chan, caller, sent, reader, conn, ended>>

(* The connection breaks, or Close gives it up. *)
Break ==
    /\ conn = "open"
    /\ conn' = "broken"
    /\ UNCHANGED <<nextID, waiters, chan, caller, sent, replies, inbox, reader, ended>>

(* Mutant of dispatch: the entry stays after its answer was taken. *)
dispatchKeeps(i) ==
    /\ reader.pc = "read" /\ i \in inbox
    /\ inbox' = inbox \ {i}
    /\ reader' = IF i \in waiters THEN [pc |-> "deliver", id |-> i] ELSE Reading
    /\ UNCHANGED <<nextID, waiters, chan, caller, sent, replies, conn, ended>>

(* Mutant of dispatch: the answer goes to the call that has waited longest. *)
dispatchInOrder(i) ==
    /\ reader.pc = "read" /\ i \in inbox
    /\ inbox' = inbox \ {i}
    /\ IF waiters = {} THEN UNCHANGED <<waiters, reader>>
       ELSE LET first == CHOOSE j \in waiters : \A k \in waiters : j <= k IN
            /\ waiters' = waiters \ {first}
            /\ reader' = [pc |-> "deliver", id |-> first]
    /\ UNCHANGED <<nextID, chan, caller, sent, replies, conn, ended>>

(* An answer to a call nobody waits for is dropped. *)
dispatch(i) ==
    /\ reader.pc = "read" /\ i \in inbox
    /\ inbox' = inbox \ {i}
    /\ waiters' = waiters \ {i}
    /\ reader' = IF i \in waiters THEN [pc |-> "deliver", id |-> i] ELSE Reading
    /\ UNCHANGED <<nextID, chan, caller, sent, replies, conn, ended>>

(* Outside the lock: the send blocks while the one-slot channel is full. *)
HandOver ==
    /\ reader.pc = "deliver" /\ chan[reader.id] = "empty"
    /\ chan' = [chan EXCEPT ![reader.id] = "msg"]
    /\ reader' = Reading
    /\ UNCHANGED <<nextID, waiters, caller, sent, replies, inbox, conn, ended>>

(* Every registered channel is closed and forgotten; unread answers are lost. *)
ReadFails ==
    /\ reader.pc = "read" /\ conn = "broken"
    /\ reader' = [pc |-> "done", id |-> 0]
    /\ chan' = [i \in CallIds |-> IF i \in waiters THEN "closed" ELSE chan[i]]
    /\ waiters' = {}
    /\ UNCHANGED <<nextID, caller, sent, replies, inbox, conn, ended>>

-----------------------------------------------------------------------------
CallStep(c) == Receive(c) \/ GiveUp(c) \/ forget(c) \/ RegisterAndWrite(c) \/ WriteFails(c)

LspNext ==
    \/ \E c \in Callers : encodeRequest(c) \/ CallStep(c)
    \/ \E i \in CallIds : ServerAnswers(i) \/ dispatch(i)
    \/ Break \/ HandOver \/ ReadFails

(* A call's own steps are taken: timers fire.  Nothing is assumed of the server. *)
LspFairness == \A c \in Callers : WF_lspVars(CallStep(c))

LspSpec == LspInit /\ [][LspNext]_lspVars /\ LspFairness

-----------------------------------------------------------------------------
(* Properties *)

(* The read loop never blocks on handing over an answer, so no call that gave   *)
(* up and no server that repeats itself can stall the other calls; and it never *)
(* closes a channel that holds one (dispatch, readLoop).                        *)
ReaderNeverBlocks ==
    /\ reader.pc = "deliver" => chan[reader.id] = "empty"
    /\ \A i \in waiters : chan[i] = "empty"

(* What the refinement sees of a call: an encoded one is asked. *)
CallState(i) ==
    IF ended[i] # "none" THEN ended[i] ELSE IF i <= nextID THEN "asked" ELSE "none"

Abs == INSTANCE Calls WITH Ids <- CallIds, call <- [i \in CallIds |-> CallState(i)],
                           replied <- {i \in CallIds : replies[i] > 0}

(* The client implements Calls: each request ends once, with its own answer or  *)
(* an error, whatever the server and the connection do, and every one ends.     *)
CallsImplemented == Abs!CallsSpec

(* The client's promise to its callers: it implements Calls, and its reader is *)
(* never held up by one of them.                                               *)
LspPromise == CallsImplemented /\ []ReaderNeverBlocks

-----------------------------------------------------------------------------
(* The inductive invariant behind the theorems of LspClientProofs. *)

LspTypeOK ==
    /\ nextID \in Nat /\ nextID <= MaxCalls
    /\ waiters \subseteq CallIds /\ sent \subseteq CallIds /\ inbox \subseteq CallIds
    /\ chan \in [CallIds -> {"empty", "msg", "closed"}]
    /\ caller \in [Callers -> [pc : {"idle", "encoded", "wait", "forget"}, id : Nat]]
    /\ reader \in [pc : {"read", "deliver", "done"}, id : Nat]
    /\ conn \in {"open", "broken"}
    /\ replies \in [CallIds -> Nat]
    /\ ended \in [CallIds -> {"none", "answered", "failed"}]

(* A call in progress owns its id. *)
IdsOwned ==
    /\ \A c \in Callers : caller[c].pc # "idle" =>
          /\ caller[c].id \in 1 .. nextID /\ ended[caller[c].id] = "none"
          /\ \A d \in Callers : caller[d].pc # "idle" /\ caller[d].id = caller[c].id => d = c

(* Nothing has happened yet under an id that was not written to the server. *)
Untouched(i) == i \notin sent /\ i \notin waiters /\ chan[i] = "empty" /\ replies[i] = 0

FreshIds ==
    /\ \A i \in CallIds : nextID < i => Untouched(i) /\ ended[i] = "none"
    /\ \A c \in Callers : caller[c].pc = "encoded" => Untouched(caller[c].id)

(* A channel is registered, being filled, or full, but never two of these, and  *)
(* is filled only with an answer the server gave.                               *)
AnswersFlow ==
    /\ \A i \in waiters : chan[i] = "empty" /\ ~(reader.pc = "deliver" /\ reader.id = i)
    /\ reader.pc = "deliver" => /\ reader.id \in sent /\ replies[reader.id] > 0
                               /\ chan[reader.id] = "empty"
    /\ \A i \in inbox : i \in sent /\ replies[i] > 0
    /\ \A i \in CallIds : chan[i] = "msg" => replies[i] > 0

LspInv == LspTypeOK /\ IdsOwned /\ FreshIds /\ AnswersFlow
=============================================================================
