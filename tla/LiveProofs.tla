----------------------------- MODULE LiveProofs ------------------------------
(***************************************************************************)
(* The two components that serve whoever comes while the program runs.     *)
(* The language-server client keeps its promises to any number of callers, *)
(* for any number of requests, repeated answers and connection losses; the *)
(* watcher accounts for every change of the tree, for any tree, any        *)
(* interleaving with full passes, and every way events and batches can be  *)
(* lost.                                                                   *)
(***************************************************************************)
EXTENDS LspClient, Watcher, FiniteSetTheorems, TLAPS

-----------------------------------------------------------------------------
(* The language-server client *)

(* The two records of the model. *)
LEMMA RestingFields == Resting.pc = "idle" /\ Resting.id = 0
  BY DEF Resting

LEMMA ReadingFields == Reading.pc = "read" /\ Reading.id = 0
  BY DEF Reading

CallerRec == [pc : {"idle", "encoded", "wait", "forget"}, id : Nat]
ReaderRec == [pc : {"read", "deliver", "done"}, id : Nat]

LEMMA LspInitInv == LspInit => LspInv
<1> SUFFICES ASSUME LspInit PROVE LspInv
  OBVIOUS
<1>1. \A c \in Callers : caller[c].pc = "idle"
  BY RestingFields DEF LspInit
<1>2. LspTypeOK
  BY LspAssumption DEF LspInit, LspTypeOK, Resting, Reading
<1>3. IdsOwned
  BY <1>1 DEF IdsOwned
<1>4. FreshIds
  BY <1>1 DEF FreshIds, Untouched, LspInit
<1>5. AnswersFlow
  BY ReadingFields DEF AnswersFlow, LspInit
<1> QED BY <1>2, <1>3, <1>4, <1>5 DEF LspInv

(* A call that ends gives its id up and touches no other. *)
LEMMA EndsCall ==
    ASSUME LspTypeOK, IdsOwned, NEW c \in Callers, NEW how \in {"answered", "failed"},
           caller[c].pc # "idle", Ends(c, how)
    PROVE  /\ caller[c].id \in CallIds
           /\ ended' \in [CallIds -> {"none", "answered", "failed"}]
           /\ caller' \in [Callers -> CallerRec]
           /\ caller'[c].pc = "idle"
           /\ \A d \in Callers : d # c => caller'[d] = caller[d]
           /\ ended'[caller[c].id] = how
           /\ \A i \in CallIds : i # caller[c].id => ended'[i] = ended[i]
<1>1. caller[c].id \in CallIds
  BY LspAssumption DEF IdsOwned, LspTypeOK, CallIds
<1>2. Resting \in CallerRec
  BY DEF Resting, CallerRec
<1> QED BY <1>1, <1>2, RestingFields DEF Ends, LspTypeOK, CallerRec

(* ... so the ids stay owned. *)
LEMMA EndsOwned ==
    ASSUME LspTypeOK, IdsOwned, NEW c \in Callers, NEW how \in {"answered", "failed"},
           caller[c].pc # "idle", Ends(c, how), nextID' = nextID
    PROVE  IdsOwned'
<1> SUFFICES ASSUME NEW a \in Callers, caller'[a].pc # "idle"
             PROVE  /\ caller'[a].id \in 1 .. nextID' /\ ended'[caller'[a].id] = "none"
                    /\ \A d \in Callers : caller'[d].pc # "idle" /\ caller'[d].id = caller'[a].id => d = a
  BY DEF IdsOwned
<1>1. a # c /\ caller'[a] = caller[a]
  BY EndsCall
<1>2. caller[a].id \in 1 .. nextID /\ ended[caller[a].id] = "none" /\ caller[a].id # caller[c].id
  BY <1>1 DEF IdsOwned
<1>3. caller[a].id \in CallIds
  BY <1>2, LspAssumption DEF CallIds, LspTypeOK
<1>4. ASSUME NEW d \in Callers, caller'[d].pc # "idle", caller'[d].id = caller'[a].id PROVE d = a
  BY <1>1, <1>4, EndsCall DEF IdsOwned
<1> QED BY <1>1, <1>2, <1>3, <1>4, EndsCall

(* A call that moves on keeps its id. *)
LEMMA MovesCall ==
    ASSUME LspTypeOK, IdsOwned, NEW c \in Callers, caller[c].pc # "idle",
           NEW pc \in {"wait", "forget"}, caller' = [caller EXCEPT ![c].pc = pc],
           nextID' = nextID, ended' = ended
    PROVE  /\ caller' \in [Callers -> CallerRec] /\ IdsOwned'
           /\ caller'[c].pc = pc /\ caller'[c].id = caller[c].id
           /\ \A d \in Callers : d # c => caller'[d] = caller[d]
<1>1. caller \in [Callers -> CallerRec]
  BY DEF LspTypeOK, CallerRec
<1>2. /\ caller' \in [Callers -> CallerRec]
      /\ caller'[c].pc = pc /\ caller'[c].id = caller[c].id
      /\ \A d \in Callers : d # c => caller'[d] = caller[d]
  BY <1>1 DEF CallerRec
<1>3. IdsOwned'
  BY <1>2 DEF IdsOwned
<1> QED BY <1>2, <1>3

LEMMA LspStep ==
    ASSUME LspInv, [LspNext]_lspVars
    PROVE  LspInv'
<1> USE DEF LspInv
<1>0. /\ caller \in [Callers -> CallerRec] /\ \A c \in Callers : caller[c] \in CallerRec
      /\ \A i \in 1 .. nextID : i \in CallIds
      /\ nextID \in Nat /\ MaxCalls \in Nat
  BY LspAssumption DEF LspTypeOK, CallerRec, CallIds
<1>1. ASSUME NEW c \in Callers, encodeRequest(c) PROVE LspInv'
  <2> DEFINE new == [pc |-> "encoded", id |-> nextID + 1]
  <2>1. new \in CallerRec /\ new.pc = "encoded" /\ new.id = nextID + 1
    BY <1>0 DEF CallerRec
  <2>2. /\ caller' = [caller EXCEPT ![c] = new] /\ nextID' = nextID + 1 /\ nextID < MaxCalls
        /\ caller[c].pc = "idle"
        /\ UNCHANGED <<waiters, chan, sent, replies, inbox, reader, conn, ended>>
    BY <1>1 DEF encodeRequest
  <2> HIDE DEF new
  <2>3. /\ caller' \in [Callers -> CallerRec] /\ caller'[c].pc = "encoded" /\ caller'[c].id = nextID + 1
        /\ \A d \in Callers : d # c => caller'[d] = caller[d]
        /\ nextID + 1 \in CallIds
    BY <1>0, <2>1, <2>2 DEF CallIds
  <2>4. LspTypeOK'
    BY <1>0, <2>2, <2>3 DEF LspTypeOK, CallerRec
  <2>5. Untouched(nextID + 1) /\ ended[nextID + 1] = "none"
    BY <1>0, <2>3 DEF FreshIds
  <2>6. IdsOwned'
    BY <1>0, <2>2, <2>3, <2>5 DEF IdsOwned
  <2>7. FreshIds'
    BY <1>0, <2>2, <2>3, <2>5 DEF FreshIds, Untouched, CallIds
  <2>8. AnswersFlow'
    BY <2>2 DEF AnswersFlow
  <2> QED BY <2>4, <2>6, <2>7, <2>8
<1>2. ASSUME NEW c \in Callers, RegisterAndWrite(c) PROVE LspInv'
  <2> DEFINE i == caller[c].id
  <2>1. /\ caller[c].pc = "encoded" /\ waiters' = waiters \cup {i}
        /\ sent \subseteq sent' /\ sent' \subseteq sent \cup {i}
        /\ caller' = [caller EXCEPT ![c].pc = "wait"]
        /\ UNCHANGED <<nextID, chan, replies, inbox, reader, conn, ended>>
    BY <1>2 DEF RegisterAndWrite
  <2>2. /\ caller' \in [Callers -> CallerRec] /\ IdsOwned'
        /\ caller'[c].pc = "wait" /\ caller'[c].id = i
        /\ \A d \in Callers : d # c => caller'[d] = caller[d]
    BY <2>1, MovesCall
  <2>3. i \in CallIds /\ i \in 1 .. nextID /\ Untouched(i)
    BY <1>0, <2>1 DEF IdsOwned, FreshIds
  <2>4. \A d \in Callers : d # c /\ caller[d].pc = "encoded" => caller[d].id # i
    BY <2>1 DEF IdsOwned
  <2> HIDE DEF i
  <2>5. LspTypeOK'
    BY <2>1, <2>2, <2>3 DEF LspTypeOK, CallerRec
  <2>6. FreshIds'
    BY <1>0, <2>1, <2>2, <2>3, <2>4 DEF FreshIds, Untouched
  <2>7. AnswersFlow'
    BY <2>1, <2>3 DEF AnswersFlow, Untouched
  <2> QED BY <2>2, <2>5, <2>6, <2>7
<1>3. ASSUME NEW c \in Callers, WriteFails(c) PROVE LspInv'
  <2>1. /\ caller[c].pc = "encoded" /\ Ends(c, "failed")
        /\ UNCHANGED <<nextID, waiters, chan, sent, replies, inbox, reader, conn>>
    BY <1>3 DEF WriteFails
  <2>2. IdsOwned'
    BY <2>1, EndsOwned
  <2>3. LspTypeOK'
    BY <2>1, EndsCall DEF LspTypeOK, CallerRec
  <2>4. FreshIds'
    BY <1>0, <2>1, EndsCall DEF FreshIds, Untouched, IdsOwned
  <2>5. AnswersFlow'
    BY <2>1 DEF AnswersFlow
  <2> QED BY <2>2, <2>3, <2>4, <2>5
<1>4. ASSUME NEW c \in Callers, Receive(c) PROVE LspInv'
  <2> DEFINE i == caller[c].id
             how == IF chan[i] = "msg" THEN "answered" ELSE "failed"
  <2>1. /\ caller[c].pc = "wait" /\ chan[i] # "empty" /\ Ends(c, how)
        /\ chan' = (IF chan[i] = "msg" THEN [chan EXCEPT ![i] = "empty"] ELSE chan)
        /\ UNCHANGED <<nextID, waiters, sent, replies, inbox, reader, conn>>
    BY <1>4 DEF Receive
  <2>2. how \in {"answered", "failed"} /\ i \in CallIds /\ i \in 1 .. nextID
    BY <1>0, <2>1 DEF IdsOwned
  <2>3. /\ chan' \in [CallIds -> {"empty", "msg", "closed"}]
        /\ \A k \in CallIds : chan'[k] = chan[k] \/ chan'[k] = "empty"
    BY <2>1, <2>2 DEF LspTypeOK
  <2> HIDE DEF i, how
  <2>4. IdsOwned'
    BY <2>1, <2>2, EndsOwned
  <2>5. LspTypeOK'
    BY <2>1, <2>2, <2>3, EndsCall DEF LspTypeOK, CallerRec
  <2>6. \A d \in Callers : caller'[d].pc = "encoded" => caller'[d] = caller[d] /\ caller[d].id \in CallIds
    BY <1>0, <2>1, <2>2, EndsCall DEF IdsOwned
  <2>7. \A k \in CallIds : nextID < k => ended'[k] = ended[k]
    BY <1>0, <2>1, <2>2, EndsCall DEF i, CallIds
  <2>8. FreshIds'
    BY <1>0, <2>1, <2>3, <2>6, <2>7 DEF FreshIds, Untouched
  <2>9. AnswersFlow'
    BY <2>1, <2>3 DEF AnswersFlow, LspTypeOK
  <2> QED BY <2>4, <2>5, <2>8, <2>9
<1>5. ASSUME NEW c \in Callers, GiveUp(c) PROVE LspInv'
  <2>1. /\ caller[c].pc = "wait" /\ caller' = [caller EXCEPT ![c].pc = "forget"]
        /\ UNCHANGED <<nextID, waiters, chan, sent, replies, inbox, reader, conn, ended>>
    BY <1>5 DEF GiveUp
  <2>2. /\ caller' \in [Callers -> CallerRec] /\ IdsOwned'
        /\ caller'[c].pc = "forget"
        /\ \A d \in Callers : d # c => caller'[d] = caller[d]
    BY <2>1, MovesCall
  <2>3. LspTypeOK'
    BY <2>1, <2>2 DEF LspTypeOK, CallerRec
  <2>4. FreshIds'
    BY <2>1, <2>2 DEF FreshIds, Untouched
  <2>5. AnswersFlow'
    BY <2>1 DEF AnswersFlow
  <2> QED BY <2>2, <2>3, <2>4, <2>5
<1>6. ASSUME NEW c \in Callers, forget(c) PROVE LspInv'
  <2>1. /\ caller[c].pc = "forget" /\ waiters' \subseteq waiters /\ Ends(c, "failed")
        /\ UNCHANGED <<nextID, chan, sent, replies, inbox, reader, conn>>
    BY <1>6 DEF forget
  <2>2. IdsOwned'
    BY <2>1, EndsOwned
  <2>3. LspTypeOK'
    BY <2>1, EndsCall DEF LspTypeOK, CallerRec
  <2>4. FreshIds'
    BY <1>0, <2>1, EndsCall DEF FreshIds, Untouched, IdsOwned
  <2>5. AnswersFlow'
    BY <2>1 DEF AnswersFlow
  <2> QED BY <2>2, <2>3, <2>4, <2>5
<1>7. ASSUME NEW i \in CallIds, ServerAnswers(i) PROVE LspInv'
  <2>1. /\ i \in sent /\ replies' = [replies EXCEPT ![i] = @ + 1] /\ inbox' = inbox \cup {i}
        /\ UNCHANGED <<nextID, waiters, chan, caller, sent, reader, conn, ended>>
    BY <1>7 DEF ServerAnswers
  <2>2. /\ replies' \in [CallIds -> Nat] /\ replies'[i] > 0
        /\ \A k \in CallIds : replies[k] > 0 => replies'[k] > 0
        /\ \A k \in CallIds : k # i => replies'[k] = replies[k]
    BY <2>1 DEF LspTypeOK
  <2>3. LspTypeOK'
    BY <2>1, <2>2 DEF LspTypeOK
  <2>4. IdsOwned'
    BY <2>1 DEF IdsOwned
  <2>5. \A c \in Callers : caller[c].pc = "encoded" => caller[c].id \in CallIds
    BY <1>0 DEF IdsOwned
  <2>6. FreshIds'
    BY <2>1, <2>2, <2>5 DEF FreshIds, Untouched
  <2>7. AnswersFlow'
    BY <2>1, <2>2 DEF AnswersFlow, LspTypeOK
  <2> QED BY <2>3, <2>4, <2>6, <2>7
<1>8. ASSUME NEW i \in CallIds, dispatch(i) PROVE LspInv'
  <2> DEFINE handing == [pc |-> "deliver", id |-> i]
  <2>1. handing \in ReaderRec /\ Reading \in ReaderRec /\ handing.pc = "deliver" /\ handing.id = i
    BY <1>0 DEF ReaderRec, Reading, CallIds
  <2>2. /\ reader.pc = "read" /\ i \in inbox /\ inbox' \subseteq inbox /\ waiters' = waiters \ {i}
        /\ reader' = (IF i \in waiters THEN handing ELSE Reading)
        /\ UNCHANGED <<nextID, chan, caller, sent, replies, conn, ended>>
    BY <1>8 DEF dispatch
  <2> HIDE DEF handing
  <2>3. LspTypeOK'
    BY <2>1, <2>2 DEF LspTypeOK, ReaderRec
  <2>4. IdsOwned' /\ FreshIds'
    BY <2>2 DEF IdsOwned, FreshIds, Untouched
  <2>5. reader'.pc = "deliver" => reader'.id = i /\ i \in waiters
    BY <2>1, <2>2, ReadingFields
  <2>6. AnswersFlow'
    BY <2>2, <2>5 DEF AnswersFlow
  <2> QED BY <2>3, <2>4, <2>6
<1>9. ASSUME HandOver PROVE LspInv'
  <2> DEFINE i == reader.id
  <2>1. /\ reader.pc = "deliver" /\ chan' = [chan EXCEPT ![i] = "msg"] /\ reader' = Reading
        /\ UNCHANGED <<nextID, waiters, caller, sent, replies, inbox, conn, ended>>
    BY <1>9 DEF HandOver
  <2>2. i \in CallIds /\ i \in sent /\ replies[i] > 0 /\ i \notin waiters
    BY <2>1 DEF AnswersFlow, LspTypeOK
  <2> HIDE DEF i
  <2>3. /\ chan' \in [CallIds -> {"empty", "msg", "closed"}]
        /\ \A k \in CallIds : k # i => chan'[k] = chan[k]
    BY <2>1, <2>2 DEF LspTypeOK
  <2>4. LspTypeOK'
    BY <2>1, <2>3 DEF LspTypeOK, Reading
  <2>5. IdsOwned'
    BY <2>1 DEF IdsOwned
  <2>6. \A c \in Callers : caller[c].pc = "encoded" => caller[c].id \in CallIds
    BY <1>0 DEF IdsOwned
  <2>7. FreshIds'
    BY <2>1, <2>2, <2>3, <2>6 DEF FreshIds, Untouched
  <2>8. AnswersFlow'
    BY <2>1, <2>2, <2>3, ReadingFields DEF AnswersFlow, LspTypeOK
  <2> QED BY <2>4, <2>5, <2>7, <2>8
<1>10. ASSUME ReadFails PROVE LspInv'
  <2> DEFINE stop == [pc |-> "done", id |-> 0]
  <2>1. stop \in ReaderRec /\ stop.pc = "done"
    BY DEF ReaderRec
  <2>2. /\ reader.pc = "read" /\ waiters' = {} /\ reader' = stop
        /\ chan' = [i \in CallIds |-> IF i \in waiters THEN "closed" ELSE chan[i]]
        /\ UNCHANGED <<nextID, caller, sent, replies, inbox, conn, ended>>
    BY <1>10 DEF ReadFails
  <2> HIDE DEF stop
  <2>3. LspTypeOK'
    BY <2>1, <2>2 DEF LspTypeOK, ReaderRec
  <2>4. IdsOwned'
    BY <2>2 DEF IdsOwned
  <2>5. \A c \in Callers : caller[c].pc = "encoded" => caller[c].id \in CallIds
    BY <1>0 DEF IdsOwned
  <2>6. FreshIds'
    BY <2>2, <2>5 DEF FreshIds, Untouched
  <2>7. AnswersFlow'
    BY <2>1, <2>2 DEF AnswersFlow
  <2> QED BY <2>3, <2>4, <2>6, <2>7
<1>11. ASSUME Break \/ UNCHANGED lspVars PROVE LspInv'
  <2>1. conn' \in {"open", "broken"}
        /\ UNCHANGED <<nextID, waiters, chan, caller, sent, replies, inbox, reader, ended>>
    BY <1>11 DEF Break, lspVars, LspTypeOK
  <2> QED BY <2>1 DEF LspTypeOK, IdsOwned, FreshIds, Untouched, AnswersFlow
<1> QED BY <1>1, <1>2, <1>3, <1>4, <1>5, <1>6, <1>7, <1>8, <1>9, <1>10, <1>11 DEF LspNext, CallStep

(***************************************************************************)
(* No call that gave up, no repeated answer and no loss of the connection  *)
(* makes the read loop wait on a full channel or close one that holds an   *)
(* answer.                                                                 *)
(***************************************************************************)
THEOREM ReaderIsFree == LspSpec => []ReaderNeverBlocks
<1>1. LspInv => ReaderNeverBlocks
  BY DEF LspInv, AnswersFlow, ReaderNeverBlocks
<1> QED BY <1>1, LspInitInv, LspStep, PTL DEF LspSpec

-----------------------------------------------------------------------------
(* The client implements Calls. *)

LEMMA CallsStep ==
    ASSUME LspInv, [LspNext]_lspVars
    PROVE  [Abs!CallsNext]_(Abs!callsVars)
<1> DEFINE call == [i \in CallIds |-> CallState(i)]
           replied == {i \in CallIds : replies[i] > 0}
<1> USE DEF LspInv
<1>1. ASSUME NEW c \in Callers, encodeRequest(c) PROVE Abs!CallsNext
  <2>1. /\ nextID' = nextID + 1 /\ nextID + 1 \in CallIds /\ ended' = ended /\ replies' = replies
        /\ nextID \in Nat
    BY <1>1, LspAssumption DEF encodeRequest, CallIds, LspTypeOK
  <2>2. ended[nextID + 1] = "none"
    BY <2>1 DEF FreshIds
  <2>3. CallState(nextID + 1) = "none"
    BY <2>1, <2>2 DEF CallState
  <2>4. \A i \in CallIds : CallState(i)' = IF i = nextID + 1 THEN "asked" ELSE CallState(i)
    BY <2>1, <2>2 DEF CallState, CallIds
  <2>5. call' = [call EXCEPT ![nextID + 1] = "asked"]
    BY <2>4
  <2>6. Abs!Ask(nextID + 1)
    BY <2>1, <2>3, <2>5 DEF Abs!Ask
  <2> QED BY <2>1, <2>6 DEF Abs!CallsNext
<1>2. ASSUME NEW c \in Callers, NEW how \in {"answered", "failed"}, caller[c].pc # "idle", Ends(c, how),
             nextID' = nextID, replies' = replies,
             how = "answered" => replies[caller[c].id] > 0
      PROVE  Abs!CallsNext
  <2> DEFINE i == caller[c].id
  <2>1. i \in CallIds /\ i \in 1 .. nextID /\ ended[i] = "none"
    BY <1>2, EndsCall DEF IdsOwned
  <2>2. ended'[i] = how /\ \A k \in CallIds : k # i => ended'[k] = ended[k]
    BY <1>2, EndsCall
  <2> HIDE DEF i
  <2>3. CallState(i) = "asked"
    BY <2>1 DEF CallState, LspTypeOK
  <2>4. \A k \in CallIds : CallState(k)' = IF k = i THEN how ELSE CallState(k)
    BY <1>2, <2>1, <2>2 DEF CallState
  <2>5. call' = [call EXCEPT ![i] = how]
    BY <2>4
  <2>6. CASE how = "answered"
    <3>1. Abs!Answered(i)
      BY <1>2, <2>1, <2>3, <2>5, <2>6 DEF Abs!Answered, i
    <3> QED BY <2>1, <3>1 DEF Abs!CallsNext
  <2>7. CASE how = "failed"
    <3>1. Abs!Failed(i)
      BY <1>2, <2>1, <2>3, <2>5, <2>7 DEF Abs!Failed
    <3> QED BY <2>1, <3>1 DEF Abs!CallsNext
  <2> QED BY <2>6, <2>7
<1>3. ASSUME NEW c \in Callers, WriteFails(c) \/ forget(c) PROVE Abs!CallsNext
  BY <1>2, <1>3 DEF WriteFails, forget
<1>4. ASSUME NEW c \in Callers, Receive(c) PROVE Abs!CallsNext
  <2> DEFINE i == caller[c].id
  <2>1. /\ caller[c].pc = "wait" /\ Ends(c, IF chan[i] = "msg" THEN "answered" ELSE "failed")
        /\ nextID' = nextID /\ replies' = replies
    BY <1>4 DEF Receive
  <2>2. i \in CallIds
    BY <2>1, LspAssumption DEF IdsOwned, CallIds, LspTypeOK
  <2>3. chan[i] = "msg" => replies[i] > 0
    BY <2>2 DEF AnswersFlow
  <2> QED BY <1>2, <2>1, <2>3
<1>5. ASSUME NEW i \in CallIds, ServerAnswers(i) PROVE Abs!CallsNext
  <2>1. /\ i \in sent /\ nextID' = nextID /\ ended' = ended /\ replies' = [replies EXCEPT ![i] = @ + 1]
    BY <1>5 DEF ServerAnswers
  <2>2. CallState(i) # "none"
    BY <2>1 DEF CallState, FreshIds, Untouched, LspTypeOK, CallIds
  <2>3. call' = call
    BY <2>1 DEF CallState
  <2>4. replied' = replied \cup {i}
    BY <2>1 DEF LspTypeOK
  <2>5. Abs!Reply(i)
    BY <2>2, <2>3, <2>4 DEF Abs!Reply
  <2> QED BY <2>5 DEF Abs!CallsNext
<1>6. ASSUME \/ \E c \in Callers : RegisterAndWrite(c) \/ GiveUp(c)
             \/ \E i \in CallIds : dispatch(i)
             \/ Break \/ HandOver \/ ReadFails \/ UNCHANGED lspVars
      PROVE  UNCHANGED Abs!callsVars
  <2>1. nextID' = nextID /\ ended' = ended /\ replies' = replies
    BY <1>6 DEF RegisterAndWrite, GiveUp, dispatch, Break, HandOver, ReadFails, lspVars
  <2> QED BY <2>1 DEF Abs!callsVars, CallState
<1> QED BY <1>1, <1>3, <1>4, <1>5, <1>6 DEF LspNext, CallStep

(***************************************************************************)
(* The client is a request-response client: a request ends once, with the  *)
(* server's answer to that very request or with an error, whatever the     *)
(* order, the delay and the number of answers and wherever the connection  *)
(* breaks.  (That every request ends is CallsSpec's fairness, left to TLC.) *)
(***************************************************************************)
THEOREM ClientImplementsCalls ==
    LspSpec => Abs!CallsInit /\ [][Abs!CallsNext]_(Abs!callsVars)
<1>1. LspInit => Abs!CallsInit
  <2> SUFFICES ASSUME LspInit PROVE Abs!CallsInit
    OBVIOUS
  <2>1. \A i \in CallIds : CallState(i) = "none"
    BY DEF LspInit, CallState, CallIds
  <2>2. {i \in CallIds : replies[i] > 0} = {}
    BY DEF LspInit
  <2> QED BY <2>1, <2>2 DEF Abs!CallsInit
<1>2. LspInv /\ [LspNext]_lspVars => [Abs!CallsNext]_(Abs!callsVars)
  BY CallsStep
<1> QED BY <1>1, <1>2, LspInitInv, LspStep, PTL DEF LspSpec

-----------------------------------------------------------------------------
(* The watcher *)

(* Files, batches, the loop and the stream. *)

LEMMA FileDir ==
    /\ \A f \in Files : f[1] \in Dirs
    /\ \A d : In(d) = {f \in Files : f[1] = d}
  BY DEF Files, In

LEMMA NoFilesIs == NoFiles \in Batch /\ NoFiles.files = {} /\ NoFiles.dirs = {}
  BY DEF NoFiles, Batch

LEMMA AtLoopIs ==
    /\ AtLoop \in LoopState /\ AtLoop.pc = "loop" /\ AtLoop.batch = NoFiles
    /\ AtLoop.gone = {} /\ AtLoop.changed = {}
  BY NoFilesIs DEF AtLoop, LoopState

LEMMA LoopMoves ==
    ASSUME loop \in LoopState, NEW pc \in {"loop", "watch", "list", "resolve", "apply", "run"}
    PROVE  LET new == [loop EXCEPT !.pc = pc]
           IN  /\ new \in LoopState /\ new.pc = pc /\ new.dir = loop.dir /\ new.batch = loop.batch
               /\ new.gone = loop.gone /\ new.changed = loop.changed
  BY DEF LoopState

LEMMA SameHas ==
    ASSUME stream' = stream, NEW k, NEW p
    PROVE  Has(k, p)' <=> Has(k, p)
  BY DEF Has

LEMMA Emitted ==
    ASSUME stream \in Seq(Events), NEW kind, NEW path, [kind |-> kind, path |-> path] \in Events,
           NEW affected \in SUBSET Files, lost \subseteq Files,
           Emit([kind |-> kind, path |-> path], affected)
    PROVE  /\ stream' \in Seq(Events) /\ lost \subseteq lost' /\ lost' \subseteq Files
           /\ \A k, p : Has(k, p) => Has(k, p)'
           /\ Has(kind, path)' \/ affected \subseteq lost'
<1> DEFINE ev == [kind |-> kind, path |-> path]
<1>1. CASE Len(stream) < MaxStream
  <2>1. stream' = Append(stream, ev) /\ lost' = lost
    BY <1>1 DEF Emit
  <2>2. /\ stream' \in Seq(Events) /\ Len(stream') = Len(stream) + 1
        /\ stream'[Len(stream) + 1] = ev /\ \A i \in 1 .. Len(stream) : stream'[i] = stream[i]
    BY <2>1
  <2>3. Has(kind, path)'
    BY <2>2 DEF Has
  <2>4. ASSUME NEW k, NEW p, Has(k, p) PROVE Has(k, p)'
    <3>1. PICK i \in 1 .. Len(stream) : stream[i] = [kind |-> k, path |-> p]
      BY <2>4 DEF Has
    <3> QED BY <2>2, <3>1 DEF Has
  <2> QED BY <2>1, <2>2, <2>3, <2>4
<1>2. CASE ~(Len(stream) < MaxStream)
  <2>1. stream' = stream /\ lost' = lost \cup affected
    BY <1>2 DEF Emit
  <2> QED BY <2>1, SameHas
<1> QED BY <1>1, <1>2

LEMMA Delivered ==
    ASSUME stream \in Seq(Events), NEW kind, Deliver(kind)
    PROVE  /\ loop.pc = "loop" /\ stream' \in Seq(Events)
           /\ Head(stream) \in Events /\ Head(stream).kind = kind
           /\ \A k, p : Has(k, p) => Has(k, p)' \/ (k = kind /\ p = Head(stream).path)
<1>1. loop.pc = "loop" /\ stream # <<>> /\ Head(stream).kind = kind /\ stream' = Tail(stream)
  BY DEF Deliver
<1>2. /\ stream' \in Seq(Events) /\ Len(stream') = Len(stream) - 1 /\ Head(stream) = stream[1]
      /\ \A i \in 2 .. Len(stream) : stream'[i - 1] = stream[i] /\ i - 1 \in 1 .. Len(stream')
      /\ Head(stream) \in Events
  BY <1>1
<1>3. ASSUME NEW k, NEW p, Has(k, p) PROVE Has(k, p)' \/ (k = kind /\ p = Head(stream).path)
  <2>1. PICK i \in 1 .. Len(stream) : stream[i] = [kind |-> k, path |-> p]
    BY <1>3 DEF Has
  <2>2. CASE i = 1
    BY <1>1, <1>2, <2>1, <2>2
  <2>3. CASE i # 1
    <3>1. i \in 2 .. Len(stream)
      BY <2>3
    <3> QED BY <1>2, <2>1, <3>1 DEF Has
  <2> QED BY <2>2, <2>3
<1> QED BY <1>1, <1>2, <1>3

LEMMA EventPaths ==
    ASSUME NEW e \in Events
    PROVE  /\ e.kind \in {"file", "made", "gone"}
           /\ e.kind = "file" => e.path \in Files
           /\ e.kind \in {"made", "gone"} => e.path \in Dirs
<1>1. CASE e \in [kind : {"file"}, path : Files]
  BY <1>1
<1>2. CASE e \in [kind : {"made", "gone"}, path : Dirs]
  BY <1>2
<1> QED BY <1>1, <1>2 DEF Events

LEMMA IsEvent ==
    /\ \A f \in Files : [kind |-> "file", path |-> f] \in Events
    /\ \A d \in Dirs : [kind |-> "made", path |-> d] \in Events /\ [kind |-> "gone", path |-> d] \in Events
  BY DEF Events

LEMMA Gathered ==
    ASSUME pending \in Batch, NEW fs \in SUBSET Files, NEW ds \in SUBSET Dirs, Gather(fs, ds)
    PROVE  /\ pending' \in Batch
           /\ pending'.files = pending.files \cup fs /\ pending'.dirs = pending.dirs \cup ds
           /\ \A f \in Files : Missed(f) => Missed(f)' \/ f \in fs \/ f[1] \in ds
           /\ lost' \subseteq lost /\ silent' \subseteq silent /\ dropped' \subseteq dropped
<1> DEFINE seen == fs \cup UNION {In(d) : d \in ds}
<1>1. \A f \in Files : f \in seen => f \in fs \/ f[1] \in ds
  BY FileDir
<1>2. lost' = lost \ seen /\ silent' = silent \ seen /\ dropped' = dropped \ seen
  BY DEF Gather
<1>3. \A f \in Files : Missed(f) => Missed(f)' \/ f \in fs \/ f[1] \in ds
  <2> HIDE DEF seen
  <2> QED BY <1>1, <1>2 DEF Missed
<1>4. PICK od \in BOOLEAN, hd \in BOOLEAN :
         pending' = [files |-> pending.files \cup fs, dirs |-> pending.dirs \cup ds,
                     settled |-> FALSE, overdue |-> od, held |-> hd]
  BY DEF Gather, Batch
<1>5. /\ pending' \in Batch
      /\ pending'.files = pending.files \cup fs /\ pending'.dirs = pending.dirs \cup ds
  BY <1>4 DEF Batch
<1>6. lost' \subseteq lost /\ silent' \subseteq silent /\ dropped' \subseteq dropped
  BY <1>2
<1> QED BY <1>3, <1>5, <1>6

-----------------------------------------------------------------------------
LEMMA WatchInitInv == WatchInit => WatcherInv
<1> SUFFICES ASSUME WatchInit PROVE WatcherInv
  OBVIOUS
<1>1. content \in [Files -> Nat] /\ other \in [busy : BOOLEAN, read : [Files -> Nat]]
      /\ ~other.busy /\ budget \in [granted : Nat, exhausted : BOOLEAN] /\ budget.granted = 1
  BY DEF WatchInit
<1>2. WatcherTypeOK
  BY <1>1, AtLoopIs, NoFilesIs DEF WatchInit, WatcherTypeOK
<1>3. WatcherShape
  BY <1>1, AtLoopIs DEF WatchInit, WatcherShape
<1>4. \A f \in Files : FileAccounted(f)
  BY <1>1, AtLoopIs, NoFilesIs DEF WatchInit, FileAccounted, StaleAhead, BackAgain, GoneSince, View
<1>5. BudgetBounds
  BY <1>1, FS_EmptySet DEF WatchInit, BudgetBounds
<1> QED BY <1>2, <1>3, <1>4, <1>5 DEF WatcherInv

(* The tree changes: every change leaves an event, or is recorded as missed, or *)
(* happens where nobody watches.                                                *)
LEMMA TreeKeepsFiles ==
    ASSUME WatcherInv, UNCHANGED <<loop, pending, rowsOf, other>>, watched' \subseteq watched,
           content' \in [Files -> Nat],
           \A k, p : Has(k, p) => Has(k, p)',
           \A f \in Files : Missed(f) => Missed(f)',
           \A f \in Files : content'[f] # content[f] =>
               IF content'[f] = 0 THEN WillRemove(f)' ELSE WillRead(f)'
    PROVE  \A f \in Files : FileAccounted(f)'
<1> SUFFICES ASSUME NEW f \in Files PROVE FileAccounted(f)'
  OBVIOUS
<1>1. FileAccounted(f)
  BY DEF WatcherInv
<1>2. (WillRead(f) => WillRead(f)') /\ (WillRemove(f) => WillRemove(f)')
  BY DEF WillRead, WillRemove
<1>3. Listing(f)' = Listing(f) /\ View(f)' = View(f)
  BY DEF Listing, View
<1>4. (ReadAhead(f) => ReadAhead(f)') /\ (RemovalAhead(f) => RemovalAhead(f)')
  BY <1>2, <1>3 DEF ReadAhead, RemovalAhead, Carries
<1>5. CASE content'[f] = content[f]
  BY <1>1, <1>2, <1>3, <1>4, <1>5 DEF FileAccounted, StaleAhead, BackAgain, GoneSince, Carries
<1>6. CASE content'[f] # content[f] /\ content'[f] = 0
  <2>1. WillRemove(f)' /\ RemovalAhead(f)'
    BY <1>6 DEF RemovalAhead
  <2> QED BY <1>6, <2>1 DEF FileAccounted, StaleAhead, BackAgain, GoneSince
<1>7. CASE content'[f] # content[f] /\ content'[f] # 0
  <2>1. WillRead(f)' /\ ReadAhead(f)'
    BY <1>7 DEF ReadAhead
  <2> QED BY <1>7, <2>1 DEF FileAccounted, StaleAhead, BackAgain, GoneSince
<1> QED BY <1>5, <1>6, <1>7

LEMMA ChangeKeeps ==
    ASSUME WatcherInv, NEW f0 \in Files, NEW c \in 0 .. MaxContent, Change(f0, c)
    PROVE  WatcherInv'
<1>1. /\ WatcherTypeOK /\ WatcherShape /\ c \in Nat /\ f0[1] \in made
      /\ content' = [content EXCEPT ![f0] = c]
      /\ UNCHANGED <<made, watched, known, budget, pending, loop, rowsOf, other, dropped>>
  BY WatchAssumption DEF WatcherInv, Change, watchVars
<1>2. /\ content' \in [Files -> Nat] /\ content'[f0] = c
      /\ \A f \in Files : f # f0 => content'[f] = content[f]
  BY <1>1 DEF WatcherTypeOK
<1>3. /\ stream' \in Seq(Events) /\ lost \subseteq lost' /\ silent \subseteq silent'
      /\ lost' \subseteq Files /\ silent' \subseteq Files
      /\ \A k, p : Has(k, p) => Has(k, p)'
      /\ Has("file", f0)' \/ f0 \in lost' \/ (f0[1] \notin watched /\ (c = 0 => f0 \in silent'))
  <2>1. CASE f0[1] \in watched
    <3>1. Emit([kind |-> "file", path |-> f0], {f0}) /\ silent' = silent
      BY <2>1 DEF Change
    <3>2. /\ {f0} \in SUBSET Files /\ stream \in Seq(Events) /\ lost \subseteq Files /\ silent \subseteq Files
          /\ [kind |-> "file", path |-> f0] \in Events
      BY <1>1, IsEvent DEF WatcherTypeOK
    <3>3. /\ stream' \in Seq(Events) /\ lost \subseteq lost' /\ lost' \subseteq Files
          /\ \A k, p : Has(k, p) => Has(k, p)'
          /\ Has("file", f0)' \/ {f0} \subseteq lost'
      BY <3>1, <3>2, Emitted
    <3> QED BY <3>1, <3>2, <3>3
  <2>2. CASE f0[1] \notin watched
    <3>1. /\ silent' = (IF c # 0 /\ WalkAhead(f0[1]) THEN silent ELSE silent \cup {f0})
          /\ stream' = stream /\ lost' = lost
      BY <2>2 DEF Change
    <3>2. \A k, p : Has(k, p) => Has(k, p)'
      BY <3>1, SameHas
    <3> QED BY <1>1, <2>2, <3>1, <3>2 DEF WatcherTypeOK
  <2> QED BY <2>1, <2>2
<1>4. \A f \in Files : FileAccounted(f)'
  <2>1. \A f \in Files : Missed(f) => Missed(f)'
    BY <1>1, <1>3 DEF Missed
  <2>2. IF c = 0 THEN WillRemove(f0)' ELSE WillRead(f0)'
    BY <1>1, <1>3 DEF WillRemove, WillRead, Missed
  <2> QED BY <1>1, <1>2, <1>3, <2>1, <2>2, TreeKeepsFiles
<1>5. WatcherTypeOK'
  BY <1>1, <1>2, <1>3 DEF WatcherTypeOK
<1>6. WatcherShape'
  BY <1>1, <1>2 DEF WatcherShape, Carries
<1>7. BudgetBounds'
  BY <1>1 DEF WatcherInv, BudgetBounds
<1> QED BY <1>4, <1>5, <1>6, <1>7 DEF WatcherInv

LEMMA MkdirKeeps ==
    ASSUME WatcherInv, NEW d \in Dirs, Mkdir(d)
    PROVE  WatcherInv'
<1>1. /\ WatcherTypeOK /\ WatcherShape /\ made' = made \cup {d}
      /\ UNCHANGED <<content, watched, known, budget, pending, loop, rowsOf, other, silent, dropped>>
      /\ Emit([kind |-> "made", path |-> d], In(d))
  BY DEF WatcherInv, Mkdir, watchVars
<1>2. /\ stream' \in Seq(Events) /\ lost \subseteq lost' /\ lost' \subseteq Files
      /\ \A k, p : Has(k, p) => Has(k, p)'
  <2>1. In(d) \subseteq Files
    BY FileDir
  <2> QED BY <1>1, <2>1, Emitted, IsEvent DEF WatcherTypeOK
<1>3. \A f \in Files : Missed(f) => Missed(f)'
  BY <1>1, <1>2 DEF Missed
<1>4. \A f \in Files : FileAccounted(f)'
  <2>1. content' \in [Files -> Nat] /\ content' = content /\ watched' = watched
    BY <1>1 DEF WatcherTypeOK
  <2> QED BY <1>1, <1>2, <1>3, <2>1, TreeKeepsFiles
<1>5. WatcherTypeOK' /\ WatcherShape'
  BY <1>1, <1>2 DEF WatcherTypeOK, WatcherShape, Carries
<1>6. BudgetBounds'
  BY <1>1 DEF WatcherInv, BudgetBounds
<1> QED BY <1>4, <1>5, <1>6 DEF WatcherInv

LEMMA RmdirKeeps ==
    ASSUME WatcherInv, NEW d \in Dirs, Rmdir(d)
    PROVE  WatcherInv'
<1>1. /\ WatcherTypeOK /\ WatcherShape /\ made' = made \ {d} /\ watched' = watched \ {d}
      /\ content' = [f \in Files |-> IF f \in In(d) THEN 0 ELSE content[f]]
      /\ UNCHANGED <<known, budget, pending, loop, rowsOf, other, silent, dropped>>
      /\ Emit([kind |-> "gone", path |-> d], In(d))
  BY DEF WatcherInv, Rmdir
<1>2. /\ stream' \in Seq(Events) /\ lost \subseteq lost' /\ lost' \subseteq Files
      /\ \A k, p : Has(k, p) => Has(k, p)'
      /\ Has("gone", d)' \/ In(d) \subseteq lost'
  <2>1. In(d) \subseteq Files
    BY FileDir
  <2> QED BY <1>1, <2>1, Emitted, IsEvent DEF WatcherTypeOK
<1>3. /\ content' \in [Files -> Nat]
      /\ \A f \in Files : content'[f] = IF f[1] = d THEN 0 ELSE content[f]
  BY <1>1, FileDir DEF WatcherTypeOK
<1>4. \A f \in Files : FileAccounted(f)'
  <2>1. \A f \in Files : Missed(f) => Missed(f)'
    BY <1>1, <1>2 DEF Missed
  <2>2. ASSUME NEW f \in Files, f[1] = d PROVE WillRemove(f)'
    BY <1>1, <1>2, <2>2, FileDir DEF WillRemove, Missed
  <2> QED BY <1>1, <1>2, <1>3, <2>1, <2>2, TreeKeepsFiles
<1>5. WatcherTypeOK'
  BY <1>1, <1>2, <1>3 DEF WatcherTypeOK
<1>6. WatcherShape'
  BY <1>1, <1>3 DEF WatcherShape, Carries
<1>7. BudgetBounds'
  BY <1>1 DEF WatcherInv, BudgetBounds
<1> QED BY <1>4, <1>5, <1>6, <1>7 DEF WatcherInv

-----------------------------------------------------------------------------
(* A full pass. *)

LEMMA PassBeginsKeeps ==
    ASSUME WatcherInv, OtherPass
    PROVE  WatcherInv'
<1>1. /\ WatcherTypeOK /\ WatcherShape /\ loop.pc # "run"
      /\ other' = [busy |-> TRUE, read |-> content]
      /\ UNCHANGED <<made, content, stream, watched, known, budget, pending, loop, rowsOf, lost, silent, dropped>>
  BY DEF WatcherInv, OtherPass, diskVars, watchVars, lossVars
<1>2. other'.busy /\ other'.read = content /\ other' \in [busy : BOOLEAN, read : [Files -> Nat]]
  BY <1>1 DEF WatcherTypeOK
<1>3. ASSUME NEW f \in Files PROVE FileAccounted(f)'
  <2>1. FileAccounted(f)
    BY DEF WatcherInv
  <2>2. View(f)' = content'[f]
    BY <1>1, <1>2 DEF View
  <2>3. (WillRead(f)' <=> WillRead(f)) /\ (WillRemove(f)' <=> WillRemove(f)) /\ (Listing(f)' <=> Listing(f))
    BY <1>1, SameHas DEF WillRead, WillRemove, Missed, Listing
  <2> QED BY <1>1, <2>1, <2>2, <2>3 DEF FileAccounted, StaleAhead, BackAgain, GoneSince, Carries
<1>4. WatcherTypeOK' /\ WatcherShape' /\ BudgetBounds'
  BY <1>1, <1>2 DEF WatcherInv, WatcherTypeOK, WatcherShape, BudgetBounds, Carries
<1> QED BY <1>3, <1>4 DEF WatcherInv

LEMMA PassEndsKeeps ==
    ASSUME WatcherInv, OtherPassEnds
    PROVE  WatcherInv'
<1> DEFINE caught == {f \in Files : other.read[f] = content[f] /\ ~Batched(f)}
<1>1. /\ WatcherTypeOK /\ WatcherShape /\ other.busy
      /\ other' = [other EXCEPT !.busy = FALSE] /\ rowsOf' = other.read
      /\ lost' = lost \ caught /\ silent' = silent \ caught /\ dropped' = dropped \ caught
      /\ UNCHANGED <<made, content, stream, watched, known, budget, pending, loop>>
  BY DEF WatcherInv, OtherPassEnds, diskVars, watchVars
<1>2. /\ ~other'.busy /\ other' \in [busy : BOOLEAN, read : [Files -> Nat]]
      /\ rowsOf' \in [Files -> Nat]
  BY <1>1 DEF WatcherTypeOK
<1>3. ASSUME NEW f \in Files PROVE FileAccounted(f)'
  <2>1. FileAccounted(f)
    BY DEF WatcherInv
  <2>2. View(f)' = other.read[f] /\ View(f) = other.read[f] /\ content'[f] = content[f]
    BY <1>1, <1>2 DEF View
  <2>3. f \notin caught => (Missed(f)' <=> Missed(f))
    BY <1>1 DEF Missed
  <2>4. /\ f \notin caught => (WillRead(f)' <=> WillRead(f)) /\ (WillRemove(f)' <=> WillRemove(f))
        /\ Listing(f)' <=> Listing(f)
    BY <1>1, <2>3, SameHas DEF WillRead, WillRemove, Listing
  <2>5. CASE f \notin caught
    <3>1. (ReadAhead(f) => ReadAhead(f)') /\ (RemovalAhead(f) => RemovalAhead(f)')
      BY <1>1, <2>4, <2>5 DEF ReadAhead, RemovalAhead, Carries
    <3> QED BY <1>1, <2>1, <2>2, <2>4, <2>5, <3>1 DEF FileAccounted, StaleAhead, BackAgain, GoneSince, Carries
  <2>6. CASE f \in caught
    <3>1. other.read[f] = content[f] /\ ~Carries(pending, f)
          /\ (loop.pc \in {"resolve", "apply", "run"} => ~Carries(loop.batch, f))
      BY <2>6 DEF Batched
    <3>2. f[1] \notin pending.dirs /\ (loop.pc \in {"apply", "run"} => f \notin loop.changed)
      BY <1>1, <3>1 DEF Carries, WatcherShape
    <3> QED BY <1>1, <2>2, <3>1, <3>2 DEF FileAccounted, StaleAhead, BackAgain, GoneSince, Carries
  <2> QED BY <2>5, <2>6
<1>4. WatcherTypeOK'
  BY <1>1, <1>2 DEF WatcherTypeOK
<1>5. WatcherShape' /\ BudgetBounds'
  BY <1>1, <1>2 DEF WatcherInv, WatcherShape, BudgetBounds, Carries
<1> QED BY <1>3, <1>4, <1>5 DEF WatcherInv

-----------------------------------------------------------------------------
(* One event. *)

LEMMA RecordFileKeeps ==
    ASSUME WatcherInv, RecordFile
    PROVE  WatcherInv'
<1> DEFINE p == Head(stream).path
<1>1. /\ WatcherTypeOK /\ WatcherShape /\ Deliver("file") /\ Gather({p}, {})
      /\ UNCHANGED <<made, content, watched, known, budget, loop, rowsOf, other>>
  BY DEF WatcherInv, RecordFile, diskVars, watchVars
<1>2. /\ loop.pc = "loop" /\ stream' \in Seq(Events) /\ p \in Files
      /\ \A k, q : Has(k, q) => Has(k, q)' \/ (k = "file" /\ q = p)
  BY <1>1, Delivered, EventPaths DEF WatcherTypeOK
<1> HIDE DEF p
<1>3. /\ pending' \in Batch /\ pending'.files = pending.files \cup {p} /\ pending'.dirs = pending.dirs
      /\ \A f \in Files : Missed(f) => Missed(f)' \/ f = p
      /\ lost' \subseteq lost /\ silent' \subseteq silent /\ dropped' \subseteq dropped
  <2>1. {p} \in SUBSET Files /\ {} \in SUBSET Dirs /\ pending \in Batch
    BY <1>1, <1>2 DEF WatcherTypeOK
  <2> QED BY <1>1, <2>1, Gathered
<1>4. ASSUME NEW f \in Files PROVE FileAccounted(f)'
  <2>1. FileAccounted(f)
    BY DEF WatcherInv
  <2>2. View(f)' = View(f) /\ (Listing(f)' <=> Listing(f))
    BY <1>1 DEF View, Listing
  <2>3. CASE f = p
    BY <1>1, <1>2, <1>3, <2>3 DEF FileAccounted, StaleAhead, BackAgain, GoneSince, ReadAhead,
       RemovalAhead, Carries
  <2>4. CASE f # p
    <3>1. (WillRead(f) => WillRead(f)') /\ (WillRemove(f) => WillRemove(f)')
      BY <1>1, <1>2, <1>3, <2>4 DEF WillRead, WillRemove
    <3> QED BY <1>1, <1>2, <1>3, <2>1, <2>2, <2>4, <3>1 DEF FileAccounted, StaleAhead, BackAgain, GoneSince,
               ReadAhead, RemovalAhead, Carries
  <2> QED BY <2>3, <2>4
<1>5. WatcherTypeOK'
  BY <1>1, <1>2, <1>3 DEF WatcherTypeOK
<1>6. WatcherShape' /\ BudgetBounds'
  BY <1>1 DEF WatcherInv, WatcherShape, BudgetBounds, Carries
<1> QED BY <1>4, <1>5, <1>6 DEF WatcherInv

LEMMA RecordGoneKeeps ==
    ASSUME WatcherInv, RecordGone
    PROVE  WatcherInv'
<1> DEFINE d == Head(stream).path
<1>1. /\ WatcherTypeOK /\ WatcherShape /\ BudgetBounds /\ Deliver("gone")
      /\ UNCHANGED <<made, content, budget, loop, rowsOf, other>>
  BY DEF WatcherInv, RecordGone, diskVars
<1>2. /\ loop.pc = "loop" /\ stream' \in Seq(Events) /\ d \in Dirs
      /\ \A k, q : Has(k, q) => Has(k, q)' \/ (k = "gone" /\ q = d)
  BY <1>1, Delivered, EventPaths DEF WatcherTypeOK
<1>3. IF d \in known
      THEN known' = known \ {d} /\ watched' = watched \ {d} /\ Gather({}, {d})
      ELSE silent' = silent \cup In(d) /\ UNCHANGED <<known, watched, pending, lost, dropped>>
  BY DEF RecordGone
<1> HIDE DEF d
<1>4. CASE d \in known
  <2>1. /\ pending' \in Batch /\ pending'.files = pending.files /\ pending'.dirs = pending.dirs \cup {d}
        /\ \A f \in Files : Missed(f) => Missed(f)' \/ f[1] = d
        /\ lost' \subseteq lost /\ silent' \subseteq silent /\ dropped' \subseteq dropped
    <3>1. {d} \in SUBSET Dirs /\ {} \in SUBSET Files /\ pending \in Batch
      BY <1>1, <1>2 DEF WatcherTypeOK
    <3>2. Gather({}, {d})
      BY <1>3, <1>4
    <3>3. /\ pending' \in Batch
          /\ pending'.files = pending.files \cup {} /\ pending'.dirs = pending.dirs \cup {d}
          /\ \A f \in Files : Missed(f) => Missed(f)' \/ f \in {} \/ f[1] \in {d}
          /\ lost' \subseteq lost /\ silent' \subseteq silent /\ dropped' \subseteq dropped
      BY <3>1, <3>2, Gathered
    <3> QED BY <3>3
  <2>2. ASSUME NEW f \in Files PROVE FileAccounted(f)'
    <3>1. FileAccounted(f)
      BY DEF WatcherInv
    <3>2. View(f)' = View(f) /\ (Listing(f)' <=> Listing(f))
      BY <1>1 DEF View, Listing
    <3>3. CASE f[1] = d
      <4>1. WillRead(f)'
        BY <1>3, <1>4, <3>3 DEF WillRead
      <4>2. Carries(pending, f)'
        BY <2>1, <3>3 DEF Carries
      <4> QED BY <1>1, <1>2, <4>1, <4>2 DEF FileAccounted, StaleAhead, BackAgain, GoneSince, ReadAhead,
                 RemovalAhead
    <3>4. CASE f[1] # d
      <4>1. (WillRead(f) => WillRead(f)') /\ (WillRemove(f) => WillRemove(f)')
        BY <1>2, <1>3, <1>4, <2>1, <3>4 DEF WillRead, WillRemove
      <4> QED BY <1>1, <1>2, <2>1, <3>1, <3>2, <3>4, <4>1 DEF FileAccounted, StaleAhead, BackAgain,
                 GoneSince, ReadAhead, RemovalAhead, Carries
    <3> QED BY <3>3, <3>4
  <2>3. WatcherTypeOK'
    BY <1>1, <1>2, <1>3, <1>4, <2>1 DEF WatcherTypeOK
  <2>4. WatcherShape'
    BY <1>1, <1>3, <1>4 DEF WatcherShape, Carries
  <2>5. BudgetBounds'
    <3>1. IsFiniteSet(known) /\ Cardinality(known) \in Nat
      BY <1>1, WatchAssumption, FS_Subset, FS_CardinalityType DEF WatcherTypeOK
    <3>2. IsFiniteSet(known') /\ Cardinality(known') = Cardinality(known) - 1
      BY <1>3, <1>4, <3>1, FS_RemoveElement
    <3>3. budget.granted \in Nat
      BY <1>1 DEF WatcherTypeOK
    <3> QED BY <1>1, <1>3, <1>4, <3>1, <3>2, <3>3 DEF BudgetBounds
  <2> QED BY <2>2, <2>3, <2>4, <2>5 DEF WatcherInv
<1>5. CASE d \notin known
  <2>1. silent' = silent \cup In(d) /\ UNCHANGED <<known, watched, pending, lost, dropped>>
    BY <1>3, <1>5
  <2>2. \A f \in Files : (Missed(f) => Missed(f)') /\ (f[1] = d => Missed(f)')
    BY <2>1, FileDir DEF Missed
  <2>3. ASSUME NEW f \in Files PROVE FileAccounted(f)'
    <3>1. FileAccounted(f)
      BY DEF WatcherInv
    <3>2. View(f)' = View(f) /\ (Listing(f)' <=> Listing(f))
      BY <1>1 DEF View, Listing
    <3>3. (WillRead(f) => WillRead(f)') /\ (WillRemove(f) => WillRemove(f)')
      BY <1>2, <2>1, <2>2 DEF WillRead, WillRemove
    <3> QED BY <1>1, <2>1, <3>1, <3>2, <3>3 DEF FileAccounted, StaleAhead, BackAgain, GoneSince, ReadAhead,
               RemovalAhead, Carries
  <2>4. WatcherTypeOK'
    BY <1>1, <1>2, <2>1, FileDir DEF WatcherTypeOK
  <2>5. WatcherShape' /\ BudgetBounds'
    BY <1>1, <2>1 DEF WatcherShape, BudgetBounds, Carries
  <2> QED BY <2>3, <2>4, <2>5 DEF WatcherInv
<1> QED BY <1>4, <1>5

(* The loop moves on, nothing else does but the watches. *)
LEMMA LoopOnlyKeepsFile ==
    ASSUME WatcherInv, NEW f \in Files, UNCHANGED <<content, pending, rowsOf, other>>,
           WillRead(f) => WillRead(f)' \/ Listing(f)', WillRemove(f) => WillRemove(f)',
           Listing(f) => Listing(f)',
           loop.pc \in {"loop", "watch", "list"}, loop'.pc \in {"loop", "watch", "list"}
    PROVE  FileAccounted(f)'
<1>1. FileAccounted(f)
  BY DEF WatcherInv
<1>2. View(f)' = View(f)
  BY DEF View
<1>3. (ReadAhead(f) => ReadAhead(f)') /\ (RemovalAhead(f) => RemovalAhead(f)')
  BY DEF ReadAhead, RemovalAhead, Carries
<1> QED BY <1>1, <1>2, <1>3 DEF FileAccounted, StaleAhead, BackAgain, GoneSince

LEMMA RecordMadeKeeps ==
    ASSUME WatcherInv, RecordMade
    PROVE  WatcherInv'
<1> DEFINE d == Head(stream).path
<1>1. /\ WatcherTypeOK /\ WatcherShape /\ BudgetBounds /\ Deliver("made")
      /\ loop' = (IF d \in made THEN [loop EXCEPT !.pc = "watch", !.dir = d] ELSE loop)
      /\ UNCHANGED <<made, content, watched, known, budget, pending, rowsOf, other, lost, silent, dropped>>
  BY DEF WatcherInv, RecordMade, diskVars, watchVars, lossVars
<1>2. /\ loop.pc = "loop" /\ stream' \in Seq(Events) /\ d \in Dirs
      /\ \A k, q : Has(k, q) => Has(k, q)' \/ (k = "made" /\ q = d)
  BY <1>1, Delivered, EventPaths DEF WatcherTypeOK
<1> HIDE DEF d
<1>3. loop' \in LoopState /\ loop'.pc \in {"loop", "watch"} /\ (loop'.pc = "watch" => loop'.dir \in Dirs)
  BY <1>1, <1>2 DEF WatcherTypeOK, LoopState
<1>4. ASSUME NEW f \in Files PROVE FileAccounted(f)'
  <2>1. (WillRead(f) => WillRead(f)') /\ (WillRemove(f) => WillRemove(f)') /\ ~Listing(f)
    BY <1>1, <1>2 DEF WillRead, WillRemove, Missed, Listing
  <2> QED BY <1>1, <1>2, <1>3, <2>1, LoopOnlyKeepsFile
<1>5. WatcherTypeOK'
  BY <1>1, <1>2, <1>3 DEF WatcherTypeOK
<1>6. WatcherShape' /\ BudgetBounds'
  BY <1>1, <1>3 DEF WatcherShape, BudgetBounds
<1> QED BY <1>4, <1>5, <1>6 DEF WatcherInv

LEMMA WatchDirKeeps ==
    ASSUME WatcherInv, WatchDir
    PROVE  WatcherInv'
<1> DEFINE d == loop.dir
<1>1. /\ WatcherTypeOK /\ WatcherShape /\ BudgetBounds /\ loop.pc = "watch" /\ d \in Dirs
      /\ UNCHANGED <<made, content, stream, pending, rowsOf, other, lost, silent, dropped>>
      /\ loop \in LoopState /\ budget \in [granted : Nat, exhausted : BOOLEAN]
  BY DEF WatcherInv, WatcherTypeOK, WatchDir, diskVars, lossVars
<1>2. /\ loop' \in LoopState /\ loop'.pc \in {"loop", "list"}
      /\ loop'.pc = "list" => loop'.dir = d
  BY <1>1, AtLoopIs, LoopMoves DEF WatchDir
<1>3. /\ watched \subseteq watched' /\ watched' \subseteq watched \cup {d} /\ watched' \subseteq made
      /\ watched' # watched => loop'.pc = "list"
  BY <1>1, <1>2, LoopMoves DEF WatchDir, WatcherShape
<1>4. /\ budget' \in [granted : Nat, exhausted : BOOLEAN]
      /\ \/ known' = known /\ watched' = watched /\ budget'.granted = budget.granted
         \/ /\ known' = known \cup {d} /\ watched' = watched \cup {d} /\ budget.granted < HardMax
            /\ budget'.granted = budget.granted + 1
  <2>1. take = "granted" => budget.granted < HardMax /\ ~budget.exhausted
    BY <1>1, WatchAssumption DEF take
  <2>2. /\ Granted \in [granted : Nat, exhausted : BOOLEAN] /\ Granted.granted = budget.granted + 1
        /\ release(Granted) \in [granted : Nat, exhausted : BOOLEAN]
        /\ release(Granted).granted = budget.granted
    <3>1. Granted \in [granted : Nat, exhausted : BOOLEAN] /\ Granted.granted = budget.granted + 1
      BY <1>1 DEF Granted
    <3> QED BY <1>1, <3>1 DEF release
  <2>3. /\ [budget EXCEPT !.exhausted = TRUE] \in [granted : Nat, exhausted : BOOLEAN]
        /\ [budget EXCEPT !.exhausted = TRUE].granted = budget.granted
    BY <1>1
  <2> QED BY <1>1, <2>1, <2>2, <2>3 DEF WatchDir
<1>5. ASSUME NEW f \in Files PROVE FileAccounted(f)'
  <2>1. ~Listing(f) /\ (WillRemove(f) => WillRemove(f)')
    BY <1>1, SameHas DEF Listing, WillRemove, Missed
  <2>2. WillRead(f) => WillRead(f)' \/ Listing(f)'
    BY <1>1, <1>2, <1>3, SameHas DEF Listing, WillRead, Missed
  <2> QED BY <1>1, <1>2, <2>1, <2>2, LoopOnlyKeepsFile
<1>6. WatcherTypeOK'
  BY <1>1, <1>2, <1>3, <1>4 DEF WatcherTypeOK
<1>7. WatcherShape'
  BY <1>1, <1>2, <1>3 DEF WatcherShape
<1>8. BudgetBounds'
  <2>1. IsFiniteSet(known) /\ Cardinality(known) \in Nat /\ HardMax \in Nat /\ budget.granted \in Nat
    BY <1>1, WatchAssumption, FS_Subset, FS_CardinalityType DEF WatcherTypeOK
  <2>2. Cardinality(known \cup {d}) = Cardinality(known) \/ Cardinality(known \cup {d}) = Cardinality(known) + 1
    BY <2>1, FS_AddElement
  <2> QED BY <1>1, <1>4, <2>1, <2>2 DEF BudgetBounds
<1> QED BY <1>5, <1>6, <1>7, <1>8 DEF WatcherInv

LEMMA ListDirKeeps ==
    ASSUME WatcherInv, ListDir
    PROVE  WatcherInv'
<1> DEFINE found == {f \in In(loop.dir) : content[f] # 0}
<1>1. /\ WatcherTypeOK /\ WatcherShape /\ BudgetBounds /\ loop.pc = "list" /\ loop' = AtLoop
      /\ UNCHANGED <<made, content, stream, watched, known, budget, rowsOf, other>>
      /\ IF found = {} THEN UNCHANGED <<pending, lost, silent, dropped>> ELSE Gather(found, {})
  BY DEF WatcherInv, ListDir, diskVars, watchVars, lossVars
<1>2. found \in SUBSET Files /\ \A f \in Files : f \in found <=> f[1] = loop.dir /\ content[f] # 0
  BY FileDir
<1> HIDE DEF found
<1>3. /\ pending' \in Batch /\ pending'.files = pending.files \cup found /\ pending'.dirs = pending.dirs
      /\ \A f \in Files : Missed(f) => Missed(f)' \/ f \in found
      /\ lost' \subseteq lost /\ silent' \subseteq silent /\ dropped' \subseteq dropped
  <2>1. CASE found = {}
    BY <1>1, <2>1 DEF WatcherTypeOK, Missed
  <2>2. CASE found # {}
    <3>1. pending \in Batch /\ {} \in SUBSET Dirs /\ Gather(found, {})
      BY <1>1, <2>2 DEF WatcherTypeOK
    <3> QED BY <1>2, <3>1, Gathered
  <2> QED BY <2>1, <2>2
<1>4. ASSUME NEW f \in Files PROVE FileAccounted(f)'
  <2>1. FileAccounted(f)
    BY DEF WatcherInv
  <2>2. View(f)' = View(f) /\ content'[f] = content[f]
    BY <1>1 DEF View
  <2>3. CASE f \in found
    BY <1>1, <1>2, <1>3, <2>2, <2>3, AtLoopIs DEF FileAccounted, StaleAhead, BackAgain, GoneSince, ReadAhead
  <2>4. CASE f \notin found
    <3>1. /\ (WillRead(f) => WillRead(f)') /\ (WillRemove(f) => WillRemove(f)')
          /\ content[f] # 0 => ~Listing(f)
      BY <1>1, <1>2, <1>3, <2>4, SameHas DEF WillRead, WillRemove, Listing
    <3> QED BY <1>1, <1>3, <2>1, <2>2, <2>4, <3>1, AtLoopIs DEF FileAccounted, StaleAhead, BackAgain, GoneSince,
               ReadAhead, RemovalAhead, Carries
  <2> QED BY <2>3, <2>4
<1>5. WatcherTypeOK'
  BY <1>1, <1>3, AtLoopIs DEF WatcherTypeOK
<1>6. WatcherShape' /\ BudgetBounds'
  BY <1>1, AtLoopIs DEF WatcherShape, BudgetBounds
<1> QED BY <1>4, <1>5, <1>6 DEF WatcherInv

-----------------------------------------------------------------------------
(* A batch. *)

LEMMA ClockKeeps ==
    ASSUME WatcherInv, Passing(Settle) \/ Passing(Overdue) \/ Passing(HoldEnds)
    PROVE  WatcherInv'
<1>1. /\ WatcherTypeOK /\ WatcherShape /\ BudgetBounds
      /\ UNCHANGED <<made, content, stream, watched, known, budget, loop, rowsOf, other, lost, silent, dropped>>
  BY DEF WatcherInv, Passing, diskVars, watchVars, lossVars
<1>2. pending' \in Batch /\ pending'.files = pending.files /\ pending'.dirs = pending.dirs
  <2>1. pending \in Batch
    BY <1>1 DEF WatcherTypeOK
  <2>2. \E x \in BOOLEAN : \/ pending' = [pending EXCEPT !.settled = x]
                           \/ pending' = [pending EXCEPT !.overdue = x]
                           \/ pending' = [pending EXCEPT !.held = x]
    BY DEF Passing, Settle, Overdue, HoldEnds
  <2> QED BY <2>1, <2>2 DEF Batch
<1>3. ASSUME NEW f \in Files PROVE FileAccounted(f)'
  <2>1. FileAccounted(f)
    BY DEF WatcherInv
  <2>2. /\ View(f)' = View(f) /\ (Listing(f)' <=> Listing(f)) /\ (WillRead(f)' <=> WillRead(f))
        /\ WillRemove(f)' <=> WillRemove(f)
    BY <1>1, SameHas DEF View, Listing, WillRead, WillRemove, Missed
  <2> QED BY <1>1, <1>2, <2>1, <2>2 DEF FileAccounted, StaleAhead, BackAgain, GoneSince, ReadAhead,
             RemovalAhead, Carries
<1>4. WatcherTypeOK' /\ WatcherShape' /\ BudgetBounds'
  BY <1>1, <1>2 DEF WatcherTypeOK, WatcherShape, BudgetBounds, Carries
<1> QED BY <1>3, <1>4 DEF WatcherInv

LEMMA FlushKeeps ==
    ASSUME WatcherInv, flush
    PROVE  WatcherInv'
<1>1. /\ WatcherTypeOK /\ WatcherShape /\ BudgetBounds /\ loop.pc = "loop" /\ pending' = NoFiles
      /\ loop' = [loop EXCEPT !.pc = "resolve", !.batch = pending]
      /\ UNCHANGED <<made, content, stream, watched, known, budget, rowsOf, other, lost, silent, dropped>>
  BY DEF WatcherInv, flush, diskVars, watchVars, lossVars
<1>2. loop' \in LoopState /\ loop'.pc = "resolve" /\ loop'.batch = pending
  BY <1>1 DEF WatcherTypeOK, LoopState
<1>3. ASSUME NEW f \in Files PROVE FileAccounted(f)'
  <2>1. FileAccounted(f)
    BY DEF WatcherInv
  <2>2. /\ View(f)' = View(f) /\ ~Listing(f) /\ (WillRead(f)' <=> WillRead(f))
        /\ WillRemove(f)' <=> WillRemove(f)
    BY <1>1, SameHas DEF View, Listing, WillRead, WillRemove, Missed
  <2> QED BY <1>1, <1>2, <2>1, <2>2, NoFilesIs DEF FileAccounted, StaleAhead, BackAgain, GoneSince, ReadAhead,
             RemovalAhead, Carries
<1>4. WatcherTypeOK' /\ WatcherShape' /\ BudgetBounds'
  BY <1>1, <1>2, NoFilesIs DEF WatcherTypeOK, WatcherShape, BudgetBounds
<1> QED BY <1>3, <1>4 DEF WatcherInv

(* The change set names every changed file of the batch, and of the vanished     *)
(* directories what was listed.                                                  *)
LEMMA ChangeSetIs ==
    ASSUME content \in [Files -> Nat], NEW b \in Batch, NEW under \in SUBSET Files,
           \A f \in under : f[1] \in b.dirs
    PROVE  LET cs == ChangeSet(b, under)
           IN  /\ cs.gone \subseteq Files /\ cs.changed \subseteq b.files /\ b.files \subseteq Files
               /\ \A f \in Files : f \in cs.changed <=> f \in b.files /\ content[f] # 0
               /\ \A f \in cs.gone : Carries(b, f)
               /\ b.files \subseteq cs.gone \cup cs.changed /\ cs.gone \cap cs.changed = {}
<1> DEFINE gone == (under \ b.files) \cup {f \in b.files : content[f] = 0}
           changed == {f \in b.files : content[f] # 0}
<1>1. ChangeSet(b, under).gone = gone /\ ChangeSet(b, under).changed = changed
  BY DEF ChangeSet
<1>2. b.files \subseteq Files
  BY DEF Batch
<1>3. /\ gone \subseteq Files /\ changed \subseteq b.files
      /\ \A f \in Files : f \in changed <=> f \in b.files /\ content[f] # 0
      /\ \A f \in gone : Carries(b, f)
      /\ b.files \subseteq gone \cup changed /\ gone \cap changed = {}
  BY <1>2 DEF Carries
<1> HIDE DEF gone, changed
<1> QED BY <1>1, <1>2, <1>3

LEMMA ChangeSetKeeps ==
    ASSUME WatcherInv, changeSet
    PROVE  WatcherInv'
<1> DEFINE b == loop.batch
           all == {f \in Files : f[1] \in b.dirs /\ rowsOf[f] # 0}
<1>1. /\ WatcherTypeOK /\ WatcherShape /\ BudgetBounds /\ loop.pc = "resolve" /\ loop \in LoopState
      /\ b \in Batch /\ content \in [Files -> Nat]
      /\ UNCHANGED <<made, content, stream, watched, known, budget, pending, rowsOf, other, silent>>
  BY DEF WatcherInv, changeSet, diskVars, watchVars, WatcherTypeOK, LoopState
<1>2. PICK under \in SUBSET all :
         LET cs == ChangeSet(b, under) IN
         /\ loop' = IF cs.gone \cup cs.changed = {} THEN AtLoop
                    ELSE [loop EXCEPT !.pc = "apply", !.gone = cs.gone, !.changed = cs.changed]
         /\ \/ /\ lost' = lost
               /\ dropped' = IF cs.gone \cup cs.changed = {}
                             THEN dropped \cup {f \in Files : Carries(b, f)} ELSE dropped
            \/ dropped' = dropped /\ lost' = lost \cup {f \in Files : f[1] \in b.dirs}
  <2>1. all \in SUBSET all /\ {} \in SUBSET all
    OBVIOUS
  <2> QED BY <2>1 DEF changeSet
<1> DEFINE cs == ChangeSet(b, under)
           gone == cs.gone
           changed == cs.changed
<1>3. /\ gone \subseteq Files /\ changed \subseteq b.files /\ b.files \subseteq Files
      /\ \A f \in Files : f \in changed <=> f \in b.files /\ content[f] # 0
      /\ \A f \in gone : Carries(b, f)
      /\ b.files \subseteq gone \cup changed /\ gone \cap changed = {}
  BY <1>1, ChangeSetIs
<1>4. /\ lost \subseteq lost' /\ lost' \subseteq Files /\ dropped \subseteq dropped' /\ dropped' \subseteq Files
  BY <1>1, <1>2 DEF WatcherTypeOK
<1>5. gone \cup changed = {} => \A f \in Files : Carries(b, f) => f \in lost' \cup dropped'
  BY <1>2, <1>3 DEF Carries
<1>6. IF gone \cup changed = {} THEN loop' = AtLoop
      ELSE loop' = [loop EXCEPT !.pc = "apply", !.gone = gone, !.changed = changed]
  BY <1>2
<1> HIDE DEF cs, gone, changed
<1>7. ASSUME NEW f \in Files
      PROVE  /\ FileAccounted(f) /\ View(f)' = View(f) /\ ~Listing(f) /\ (WillRead(f) => WillRead(f)')
             /\ WillRemove(f) => WillRemove(f)'
  BY <1>1, <1>4, SameHas DEF WatcherInv, View, Listing, WillRead, WillRemove, Missed
<1>8. CASE gone \cup changed = {}
  <2>1. loop' = AtLoop /\ loop'.pc = "loop" /\ loop' \in LoopState
    BY <1>6, <1>8, AtLoopIs
  <2>2. ASSUME NEW f \in Files PROVE FileAccounted(f)'
    <3>1. Carries(b, f) => WillRead(f)' /\ WillRemove(f)'
      BY <1>5, <1>8 DEF WillRead, WillRemove, Missed
    <3> QED BY <1>1, <1>7, <2>1, <3>1 DEF FileAccounted, StaleAhead, BackAgain, GoneSince, ReadAhead,
               RemovalAhead, Carries
  <2>3. WatcherTypeOK' /\ WatcherShape' /\ BudgetBounds'
    BY <1>1, <1>4, <2>1 DEF WatcherTypeOK, WatcherShape, BudgetBounds
  <2> QED BY <2>2, <2>3 DEF WatcherInv
<1>9. CASE gone \cup changed # {}
  <2>1. /\ loop' \in LoopState /\ loop'.pc = "apply" /\ loop'.batch = b /\ loop'.gone = gone
        /\ loop'.changed = changed
    BY <1>1, <1>3, <1>6, <1>9 DEF LoopState
  <2>2. ASSUME NEW f \in Files PROVE FileAccounted(f)'
    BY <1>1, <1>3, <1>7, <2>1 DEF FileAccounted, StaleAhead, BackAgain, GoneSince, ReadAhead,
       RemovalAhead, Carries
  <2>3. WatcherTypeOK' /\ BudgetBounds'
    BY <1>1, <1>4, <2>1 DEF WatcherTypeOK, BudgetBounds
  <2>4. WatcherShape'
    BY <1>1, <1>3, <2>1 DEF WatcherShape, Carries
  <2> QED BY <2>2, <2>3, <2>4 DEF WatcherInv
<1> QED BY <1>8, <1>9

LEMMA ApplyBusyKeeps ==
    ASSUME WatcherInv, ApplyBusy
    PROVE  WatcherInv'
<1> DEFINE b == loop.batch
<1>1. /\ WatcherTypeOK /\ WatcherShape /\ BudgetBounds /\ loop.pc = "apply" /\ loop' = AtLoop /\ requeue(b)
      /\ b \in Batch /\ pending \in Batch
      /\ UNCHANGED <<made, content, stream, watched, known, budget, rowsOf, other, lost, silent, dropped>>
  BY DEF WatcherInv, ApplyBusy, diskVars, watchVars, lossVars, WatcherTypeOK, LoopState
<1>2. /\ pending' \in Batch /\ pending'.files = pending.files \cup b.files
      /\ pending'.dirs = pending.dirs \cup b.dirs
  BY <1>1 DEF requeue, Batch
<1>3. loop.changed \subseteq b.files
  BY <1>1 DEF WatcherShape
<1> HIDE DEF b
<1>4. ASSUME NEW f \in Files PROVE FileAccounted(f)'
  <2>1. /\ FileAccounted(f) /\ View(f)' = View(f) /\ ~Listing(f) /\ (WillRead(f)' <=> WillRead(f))
        /\ WillRemove(f)' <=> WillRemove(f)
    BY <1>1, SameHas DEF WatcherInv, View, Listing, WillRead, WillRemove, Missed
  <2> QED BY <1>1, <1>2, <1>3, <2>1, AtLoopIs DEF b, FileAccounted, StaleAhead, BackAgain, GoneSince, ReadAhead,
             RemovalAhead, Carries
<1>5. WatcherTypeOK' /\ WatcherShape' /\ BudgetBounds'
  BY <1>1, <1>2, AtLoopIs DEF WatcherTypeOK, WatcherShape, BudgetBounds
<1> QED BY <1>4, <1>5 DEF WatcherInv

LEMMA ApplyClaimsKeeps ==
    ASSUME WatcherInv, ApplyClaims
    PROVE  WatcherInv'
<1> DEFINE unnamed == {f \in Files : Carries(loop.batch, f)} \ (loop.gone \cup loop.changed)
<1>1. /\ WatcherTypeOK /\ WatcherShape /\ BudgetBounds /\ loop.pc = "apply" /\ ~other.busy
      /\ loop' = [loop EXCEPT !.pc = "run"] /\ dropped' = dropped \cup unnamed
      /\ UNCHANGED <<made, content, stream, watched, known, budget, pending, rowsOf, other, lost, silent>>
  BY DEF WatcherInv, ApplyClaims, diskVars, watchVars
<1>2. /\ loop' \in LoopState /\ loop'.pc = "run" /\ loop'.dir = loop.dir /\ loop'.batch = loop.batch
      /\ loop'.gone = loop.gone /\ loop'.changed = loop.changed
  <2>1. loop \in LoopState
    BY <1>1 DEF WatcherTypeOK
  <2> QED BY <1>1, <2>1, LoopMoves
<1>3. \A f \in Files : Carries(loop.batch, f) => f \in loop.gone \cup loop.changed \cup dropped'
  BY <1>1
<1>4. dropped \subseteq dropped' /\ dropped' \subseteq Files
  BY <1>1 DEF WatcherTypeOK
<1> HIDE DEF unnamed
<1>5. ASSUME NEW f \in Files PROVE FileAccounted(f)'
  <2>1. /\ FileAccounted(f) /\ View(f)' = View(f) /\ ~Listing(f) /\ (WillRead(f) => WillRead(f)')
        /\ WillRemove(f) => WillRemove(f)'
    BY <1>1, <1>4, SameHas DEF WatcherInv, View, Listing, WillRead, WillRemove, Missed
  <2>2. f \in dropped' => WillRemove(f)'
    BY DEF WillRemove, Missed
  <2>3. content[f] = 0 /\ f \in loop.changed => WillRemove(f)'
    BY <1>1, <2>1 DEF FileAccounted, GoneSince
  <2> QED BY <1>1, <1>2, <1>3, <2>1, <2>2, <2>3 DEF FileAccounted, StaleAhead, BackAgain, GoneSince, ReadAhead,
             RemovalAhead, Carries
<1>6. WatcherTypeOK' /\ BudgetBounds'
  BY <1>1, <1>2, <1>4 DEF WatcherTypeOK, BudgetBounds
<1>7. WatcherShape'
  BY <1>1, <1>2 DEF WatcherShape, Carries
<1> QED BY <1>5, <1>6, <1>7 DEF WatcherInv

LEMMA ApplyLandsKeeps ==
    ASSUME WatcherInv, ApplyLands
    PROVE  WatcherInv'
<1>1. /\ WatcherTypeOK /\ WatcherShape /\ BudgetBounds /\ loop.pc = "run" /\ ~other.busy /\ loop' = AtLoop
      /\ rowsOf' = [f \in Files |-> CASE f \in loop.gone -> 0
                                      [] f \in loop.changed /\ content[f] # 0 -> content[f]
                                      [] OTHER -> rowsOf[f]]
      /\ UNCHANGED <<made, content, stream, watched, known, budget, pending, other, lost, silent, dropped>>
  BY DEF WatcherInv, ApplyLands, diskVars, watchVars, lossVars, WatcherTypeOK, WatcherShape
<1>2. loop.gone \cap loop.changed = {} /\ \A f \in loop.gone : Carries(loop.batch, f)
  BY <1>1 DEF WatcherShape
<1>3. \A f \in Files :
         /\ f \in loop.gone => rowsOf'[f] = 0
         /\ f \in loop.changed /\ content[f] # 0 => rowsOf'[f] = content[f]
         /\ f \notin loop.gone /\ ~(f \in loop.changed /\ content[f] # 0) => rowsOf'[f] = rowsOf[f]
  <2> SUFFICES ASSUME NEW f \in Files
               PROVE  /\ f \in loop.gone => rowsOf'[f] = 0
                      /\ f \in loop.changed /\ content[f] # 0 => rowsOf'[f] = content[f]
                      /\ f \notin loop.gone /\ ~(f \in loop.changed /\ content[f] # 0) => rowsOf'[f] = rowsOf[f]
    OBVIOUS
  <2>1. rowsOf'[f] = CASE f \in loop.gone -> 0
                       [] f \in loop.changed /\ content[f] # 0 -> content[f]
                       [] OTHER -> rowsOf[f]
    BY <1>1
  <2> QED BY <1>2, <2>1
<1>4. rowsOf' \in [Files -> Nat]
  <2>1. \A f \in Files : rowsOf'[f] \in Nat
    BY <1>1, <1>3 DEF WatcherTypeOK
  <2>2. rowsOf' = [f \in Files |-> rowsOf'[f]]
    BY <1>1
  <2> QED BY <2>1, <2>2
<1>5. ASSUME NEW f \in Files PROVE FileAccounted(f)'
  <2>1. /\ FileAccounted(f) /\ View(f)' = rowsOf'[f] /\ View(f) = rowsOf[f] /\ ~Listing(f)
        /\ (WillRead(f)' <=> WillRead(f)) /\ (WillRemove(f)' <=> WillRemove(f))
    BY <1>1, SameHas DEF WatcherInv, View, Listing, WillRead, WillRemove, Missed
  <2>2. CASE content[f] = 0
    <3>1. f \in loop.changed => WillRemove(f)
      BY <1>1, <2>1, <2>2 DEF FileAccounted, GoneSince
    <3> QED BY <1>1, <1>3, <2>1, <2>2, <3>1, AtLoopIs DEF FileAccounted, StaleAhead, BackAgain, GoneSince,
               RemovalAhead, Carries
  <2>3. CASE content[f] # 0
    <3>1. f \in loop.gone => WillRead(f)
      BY <1>1, <1>2, <2>1, <2>3 DEF FileAccounted, BackAgain
    <3>2. View(f)' # content[f] => ReadAhead(f)'
      BY <1>1, <1>3, <2>1, <2>3, <3>1, AtLoopIs DEF FileAccounted, StaleAhead, ReadAhead
    <3> QED BY <1>1, <2>1, <2>3, <3>2, AtLoopIs DEF FileAccounted, StaleAhead, BackAgain, GoneSince
  <2> QED BY <2>2, <2>3
<1>6. WatcherTypeOK' /\ WatcherShape' /\ BudgetBounds'
  BY <1>1, <1>4, AtLoopIs DEF WatcherTypeOK, WatcherShape, BudgetBounds
<1> QED BY <1>5, <1>6 DEF WatcherInv

LEMMA ApplyFailsKeeps ==
    ASSUME WatcherInv, ApplyFails
    PROVE  WatcherInv'
<1>1. /\ WatcherTypeOK /\ WatcherShape /\ BudgetBounds /\ loop.pc = "run" /\ loop' = AtLoop
      /\ lost' = lost \cup loop.gone \cup loop.changed
      /\ UNCHANGED <<made, content, stream, watched, known, budget, pending, rowsOf, other, silent, dropped>>
  BY DEF WatcherInv, ApplyFails, diskVars, watchVars
<1>2. lost \subseteq lost' /\ lost' \subseteq Files
  BY <1>1 DEF WatcherTypeOK, LoopState
<1>3. ASSUME NEW f \in Files PROVE FileAccounted(f)'
  <2>1. /\ FileAccounted(f) /\ View(f)' = View(f) /\ ~Listing(f) /\ (WillRead(f) => WillRead(f)')
        /\ (WillRemove(f) => WillRemove(f)')
    BY <1>1, <1>2, SameHas DEF WatcherInv, View, Listing, WillRead, WillRemove, Missed
  <2>2. f \in loop.gone \cup loop.changed => WillRead(f)' /\ WillRemove(f)'
    BY <1>1 DEF WillRead, WillRemove, Missed
  <2> QED BY <1>1, <2>1, <2>2, AtLoopIs DEF FileAccounted, StaleAhead, BackAgain, GoneSince, ReadAhead,
             RemovalAhead, Carries
<1>4. WatcherTypeOK' /\ WatcherShape' /\ BudgetBounds'
  BY <1>1, <1>2, AtLoopIs DEF WatcherTypeOK, WatcherShape, BudgetBounds
<1> QED BY <1>3, <1>4 DEF WatcherInv

LEMMA WatcherStep ==
    ASSUME WatcherInv, [WatchNext]_watcherVars
    PROVE  WatcherInv'
<1>1. CASE UNCHANGED watcherVars
  <2>1. UNCHANGED <<made, content, stream, watched, known, budget, pending, loop, rowsOf, other,
                    lost, silent, dropped>>
    BY <1>1 DEF watcherVars, diskVars, watchVars, lossVars
  <2>2. ASSUME NEW f \in Files PROVE FileAccounted(f)'
    <3>1. FileAccounted(f) /\ \A k, p : Has(k, p)' <=> Has(k, p)
      BY <2>1, SameHas DEF WatcherInv
    <3> QED BY <2>1, <3>1 DEF FileAccounted, StaleAhead, BackAgain, GoneSince, View, ReadAhead,
               RemovalAhead, WillRead, WillRemove, Listing, Missed, Carries
  <2>3. WatcherTypeOK' /\ WatcherShape' /\ BudgetBounds'
    BY <2>1 DEF WatcherInv, WatcherTypeOK, WatcherShape, BudgetBounds, Carries
  <2> QED BY <2>2, <2>3 DEF WatcherInv
<1> QED BY <1>1, ChangeKeeps, MkdirKeeps, RmdirKeeps, PassBeginsKeeps, PassEndsKeeps, RecordFileKeeps,
           RecordGoneKeeps, RecordMadeKeeps, WatchDirKeeps, ListDirKeeps, FlushKeeps, ChangeSetKeeps,
           ApplyBusyKeeps, ApplyClaimsKeeps, ApplyLandsKeeps, ApplyFailsKeeps, ClockKeeps
           DEF WatchNext, TreeChanges, LoopNext

(***************************************************************************)
(* For every tree and every interleaving of the tree's changes, the event  *)
(* loop, full passes and the faults the watcher meets: a file the index    *)
(* holds differently from the disk has its change on the way, or the       *)
(* change was lost in one of the ways the watcher gives up; and the watch  *)
(* budget bounds the directories that are followed.                        *)
(***************************************************************************)
THEOREM WatcherIsSafe == WatchSpec => []WatcherSafe
<1>1. ASSUME WatcherInv PROVE WatcherSafe
  <2>1. ASSUME NEW f \in Files, Stale(f), ~other.busy
        PROVE  InFlight(f) \/ f \in lost \cup dropped \/ Unseen(f)
    <3>1. /\ FileAccounted(f) /\ View(f) # content[f] /\ WatcherShape
      BY <1>1, <2>1 DEF WatcherInv, Stale, View
    <3>2. ASSUME NEW k, NEW p, Has(k, p), p \in {f, f[1]} PROVE InFlight(f)
      <4>1. PICK i \in DOMAIN stream : stream[i] = [kind |-> k, path |-> p]
        BY <3>2 DEF Has
      <4>2. stream[i].path = p
        BY <4>1
      <4> QED BY <3>2, <4>2 DEF InFlight
    <3>3. Missed(f) => f \in lost \cup dropped \/ Unseen(f)
      BY DEF Missed, Unseen
    <3>4. WillRemove(f) => InFlight(f) \/ f \in lost \cup dropped \/ Unseen(f)
      BY <3>2, <3>3 DEF WillRemove
    <3>5. content[f] # 0 /\ WillRead(f) => InFlight(f) \/ f \in lost \cup dropped \/ Unseen(f)
      <4>1. WalkAhead(f[1]) => InFlight(f)
        <5>1. WalkAhead(f[1]) => Has("made", f[1]) \/ (loop.pc = "watch" /\ loop.dir = f[1])
          BY DEF WalkAhead, Has
        <5> QED BY <3>2, <5>1 DEF InFlight
      <4>2. content[f] # 0 /\ f[1] \notin watched /\ ~WalkAhead(f[1]) => Unseen(f)
        BY <3>1 DEF Unseen, WatcherShape
      <4> QED BY <3>2, <3>3, <4>1, <4>2 DEF WillRead
    <3>6. Listing(f) \/ Batched(f) => InFlight(f)
      BY DEF Listing, InFlight
    <3>7. CASE content[f] = 0
      <4>1. RemovalAhead(f)
        BY <3>1, <3>7 DEF FileAccounted, StaleAhead
      <4> QED BY <3>1, <3>4, <3>6, <4>1 DEF RemovalAhead, Batched, WatcherShape
    <3>8. CASE content[f] # 0
      <4>1. ReadAhead(f)
        BY <3>1, <3>8 DEF FileAccounted, StaleAhead
      <4> QED BY <3>1, <3>5, <3>6, <3>8, <4>1 DEF ReadAhead, Batched, Carries, WatcherShape
    <3> QED BY <3>7, <3>8
  <2> QED BY <1>1, <2>1 DEF WatcherInv, WatcherSafe, ChangesAccounted
<1> QED BY <1>1, WatchInitInv, WatcherStep, PTL DEF WatchSpec
=============================================================================
