-------------------------------- MODULE Calls --------------------------------
(***************************************************************************)
(* What a request-response client promises, whatever happens to the        *)
(* connection: a request ends once, with the server's answer to that very  *)
(* request or with an error, and every request ends.                       *)
(***************************************************************************)
CONSTANT Ids   \* request identifiers

VARIABLES
    call,      \* per id: "none", "asked", "answered" or "failed"
    replied    \* the ids the server has answered

callsVars == <<call, replied>>

CallsInit == call = [i \in Ids |-> "none"] /\ replied = {}

Ask(i) == call[i] = "none" /\ call' = [call EXCEPT ![i] = "asked"] /\ UNCHANGED replied

(* The server answers a request it was asked, whether or not anyone still waits. *)
Reply(i) == call[i] # "none" /\ replied' = replied \cup {i} /\ UNCHANGED call

Answered(i) ==
    /\ call[i] = "asked" /\ i \in replied
    /\ call' = [call EXCEPT ![i] = "answered"]
    /\ UNCHANGED replied

Failed(i) == call[i] = "asked" /\ call' = [call EXCEPT ![i] = "failed"] /\ UNCHANGED replied

CallsNext == \E i \in Ids : Ask(i) \/ Reply(i) \/ Answered(i) \/ Failed(i)

CallsSpec ==
    /\ CallsInit /\ [][CallsNext]_callsVars
    /\ \A i \in Ids : WF_callsVars(Answered(i) \/ Failed(i))
=============================================================================
