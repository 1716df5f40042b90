---------------------------- MODULE MCThreadPool ----------------------------
(***************************************************************************)
(* ThreadPool for TLC: connections are numbers, and they come in on the    *)
(* endpoints in turn.                                                      *)
(***************************************************************************)
EXTENDS ThreadPool

CONSTANT NConns

MCConns == 1..NConns
MCEp == [c \in MCConns |-> 1 + (c % NListeners)]
=============================================================================
