--------------------------- MODULE MCIndexService ---------------------------
(* IndexService on small instances. *)
EXTENDS IndexService

(* Two batches that continue a cursor at commit 1, one after the other. *)
ChainedBatches == {[first |-> 2, last |-> 2], [first |-> 3, last |-> 3]}

(* The first two batches of a repository that has no cursor yet. *)
FirstBatches == {[first |-> 1, last |-> 1], [first |-> 2, last |-> 2]}

(* A batch and the longer one that a client resends over it. *)
OverlappingBatches == {[first |-> 2, last |-> 2], [first |-> 2, last |-> 3]}

=============================================================================
