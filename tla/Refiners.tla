------------------------------ MODULE Refiners ------------------------------
(* The two passes over language servers after the parser's: CallRefiner over    *)
(* the call edges, SymbolRefiner over the units.  They share no state, and each *)
(* moves while the other stays.                                                 *)
EXTENDS CallRefiner, SymbolRefiner

RefinersSpec ==
    /\ RefinerInit /\ SymbolInit
    /\ [][\/ RefinerNext /\ UNCHANGED symbolVars
          \/ SymbolNext /\ UNCHANGED refinerVars]_<<refinerVars, symbolVars>>

(* Both passes over language servers: an answer decides only what it is        *)
(* evidence for (EvidenceWins of CallRefiner), and a file that later passes    *)
(* skip holds the units its parser and its server gave for that content        *)
(* (SymbolsMerged of SymbolRefiner).                                           *)
RefinersSound == EvidenceWins /\ SymbolsMerged
==============================================================================
