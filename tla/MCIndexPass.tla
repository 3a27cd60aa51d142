---------------------------- MODULE MCIndexPass ----------------------------
(* The index pass on a small working tree. *)
EXTENDS IndexPass
=============================================================================
