---------------------------- MODULE FileOutcomes ----------------------------
(***************************************************************************)
(* What an indexer promises the pass that calls it (internal/index         *)
(* Indexer.Index and IndexResult): every file of the request is settled    *)
(* once, as indexed, failed or skipped; a file settled as indexed is in    *)
(* the store with its new content and is not touched again; the call ends, *)
(* and it ends without an error only when every file is settled.           *)
(***************************************************************************)
CONSTANT Files

VARIABLES
    settled,    \* per file: "open", "indexed", "failed" or "skipped"
    stored,     \* per file: "old", "none" or "new"
    ended       \* "not called", "no", "complete" or "cancelled"

outcomeVars == <<settled, stored, ended>>

OutcomesInit ==
    /\ settled = [f \in Files |-> "open"]
    /\ stored = [f \in Files |-> "old"]
    /\ ended = "not called"

Call == ended = "not called" /\ ended' = "no" /\ UNCHANGED <<settled, stored>>

Write(f) ==
    /\ ended = "no" /\ settled[f] = "open"
    /\ \E s \in {"none", "new"} : stored' = [stored EXCEPT ![f] = s]
    /\ UNCHANGED <<settled, ended>>

(* Files settled together: a request that failed as a whole.                     *)
Settle(S, how) ==
    /\ ended = "no" /\ S # {}
    /\ \A f \in S : settled[f] = "open" /\ (how = "indexed" => stored[f] = "new")
    /\ settled' = [f \in Files |-> IF f \in S THEN how ELSE settled[f]]
    /\ UNCHANGED <<stored, ended>>

(* The last write and the report of one file.                                    *)
WriteAndSettle(f) ==
    /\ ended = "no" /\ settled[f] = "open"
    /\ stored' = [stored EXCEPT ![f] = "new"]
    /\ settled' = [settled EXCEPT ![f] = "indexed"]
    /\ UNCHANGED ended

End ==
    /\ ended = "no"
    /\ ended' \in {"cancelled"} \cup IF \A f \in Files : settled[f] # "open" THEN {"complete"} ELSE {}
    /\ UNCHANGED <<settled, stored>>

OutcomesNext ==
    \/ \E f \in Files : Write(f) \/ WriteAndSettle(f)
    \/ \E S \in SUBSET Files, how \in {"indexed", "failed", "skipped"} : Settle(S, how)
    \/ Call \/ End

OutcomesSpec == OutcomesInit /\ [][OutcomesNext]_outcomeVars
                  /\ (ended = "no" ~> ended \in {"complete", "cancelled"})
=============================================================================
