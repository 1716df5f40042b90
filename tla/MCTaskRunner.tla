---------------------------- MODULE MCTaskRunner ----------------------------
(***************************************************************************)
(* TaskRunner for TLC.  The tasks share nothing, so one is enough.         *)
(***************************************************************************)
EXTENDS TaskRunner
=============================================================================
