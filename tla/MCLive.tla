------------------------------- MODULE MCLive --------------------------------
(* The machines whose promises include progress, checked side by side: the     *)
(* filesystem watcher, the LSP client and the vector pipeline share no state,  *)
(* so a behaviour moves one of them, chosen at the start, and the state space  *)
(* is the sum of theirs.                                                       *)
EXTENDS Watcher, LspClient, VectorPipeline

VARIABLE moving

liveVars == <<moving, watcherVars, lspVars, pipeVars>>

Init == moving \in {"watcher", "lsp", "pipeline"} /\ WatchInit /\ LspInit /\ PipeInit

WatcherMoves == moving = "watcher" /\ WatchNext /\ UNCHANGED <<moving, lspVars, pipeVars>>
LspMoves == moving = "lsp" /\ LspNext /\ UNCHANGED <<moving, watcherVars, pipeVars>>
PipelineMoves == moving = "pipeline" /\ PipeNext /\ UNCHANGED <<moving, watcherVars, lspVars>>

Next == WatcherMoves \/ LspMoves \/ PipelineMoves

(* A machine nobody calls has nothing to do: at rest no action that fairness   *)
(* names is enabled, so the three assumptions hold side by side.               *)
Fairness == WatchFairness /\ LspFairness /\ PipeFairness

LiveSpec == Init /\ [][Next]_liveVars /\ Fairness
=============================================================================
