---------------------------- MODULE MCMergeTrain ----------------------------
(* Small merge trains for TLC. *)
EXTENDS MergeTrain

OneOverlap == {{1, 2}}
=============================================================================
