------------------------------ MODULE MCStartup ------------------------------
(***************************************************************************)
(* Startup for TLC: a complete configuration, one without a socket path, a *)
(* manager, and those that main turns down at one point or another.        *)
(***************************************************************************)
EXTENDS Startup

Worker2 == [junk |-> FALSE, role |-> "worker", id |-> 2, env |-> TRUE,
            token |-> TRUE, unix |-> TRUE]

MCConfigs ==
  {Worker2, [Worker2 EXCEPT !.id = 1], [Worker2 EXCEPT !.id = 0],
   [Worker2 EXCEPT !.unix = FALSE], [Worker2 EXCEPT !.role = "manager"],
   [Worker2 EXCEPT !.junk = TRUE],
   [Worker2 EXCEPT !.env = FALSE], [Worker2 EXCEPT !.token = FALSE]}
==============================================================================
