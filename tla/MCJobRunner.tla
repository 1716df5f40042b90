---------------------------- MODULE MCJobRunner ----------------------------
(***************************************************************************)
(* JobRunner for TLC: two tasks, with or without another runner's write.   *)
(***************************************************************************)
EXTENDS JobRunner
=============================================================================
