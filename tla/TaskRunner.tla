----------------------------- MODULE TaskRunner -----------------------------
(***************************************************************************)
(* The calls of the task runner API (src/src/blueprint/task.c) on the      *)
(* threads and children of module Task.  Every task has one owner, which   *)
(* runs it, waits for it, stops, restarts and destroys its runner.         *)
(***************************************************************************)
EXTENDS Task

VARIABLE call   \* the call the owner of each task is in

vars == <<taskVars, call>>

(* "none": there is no runner.  "run": between the creation of the thread   *)
(* and the return of task_run.  "idle": a runner and no call.               *)
Calls == {"none", "run", "idle", "wait", "stop", "restart", "destroy"}

TypeOK == TaskTypeOK /\ call \in [Tasks -> Calls]

Init == TaskInit /\ call = [t \in Tasks |-> "none"]

SetCall(t, c) == call' = [call EXCEPT ![t] = c]

Run(t) ==
  /\ call[t] = "none"
  /\ SetCall(t, "run")
  /\ TaskRun(t)

RunEnd(t) ==
  /\ call[t] = "run"
  /\ SetCall(t, "idle")
  /\ TaskRunEnd(t)

(* The pthread_cancel of stop, restart and destroy; wait only joins.        *)
Call(t, c) ==
  /\ call[t] = "idle"
  /\ SetCall(t, c)
  /\ \/ c = "wait" /\ UNCHANGED cancel
     \/ c # "wait" /\ CancelThread(t)
  /\ UNCHANGED <<status, thr, proc, info>>

(***************************************************************************)
(* The pthread_join of the call returns.  restart then creates a thread    *)
(* for the same runner, whose info it does not clear; if it cannot, it     *)
(* returns all the same.                                                   *)
(***************************************************************************)
Return(t) ==
  /\ call[t] \in {"wait", "stop", "restart", "destroy"}
  /\ Joinable(t)
  /\ SetCall(t, IF call[t] = "destroy" THEN "none" ELSE "idle")
  /\ \/ call[t] = "restart" /\ CreateThread(t)
     \/ JoinThread(t)
  /\ UNCHANGED <<status, proc, info>>

Owner(t) ==
  \/ Run(t) \/ RunEnd(t) \/ Return(t)
  \/ \E c \in {"wait", "stop", "restart", "destroy"} : Call(t, c)

Threads(t) == (TaskThread(t) \/ ProcExit(t)) /\ UNCHANGED call

Next == \E t \in Tasks : Owner(t) \/ Threads(t)

(***************************************************************************)
(* The scheduler runs every thread, and an interrupted child ends.         *)
(***************************************************************************)
Spec ==
  /\ Init /\ [][Next]_vars
  /\ \A t \in Tasks :
       /\ WF_vars(TaskThread(t) /\ UNCHANGED call)
       /\ WF_vars(RunEnd(t) \/ Return(t))
       /\ WF_vars(proc[t] = "interrupted" /\ ProcExit(t) /\ UNCHANGED call)

-----------------------------------------------------------------------------
(***************************************************************************)
(* A runner thread that ended has reaped its child and recorded how it     *)
(* ended, an exit code or a signal, wherever the cancellation hit it: the  *)
(* "stopped before it ran" that the tests allow for cannot happen, since   *)
(* waitpid is the only cancellation point.                                 *)
(***************************************************************************)
OutcomeRecorded ==
  \A t \in Tasks :
    thr[t] \in {"exited", "joined"} => proc[t] = "none" /\ info[t] # NoInfo

(***************************************************************************)
(* A completed task is one whose child exited with 0; the cleanup handler  *)
(* and the thread's own waitpid never both judge one child.                *)
(***************************************************************************)
CompletedExited0 ==
  \A t \in Tasks : status[t] = "completed" =>
    info[t].exit_code = "0" \/ thr[t] \in {"spawn", "spawned"}

(***************************************************************************)
(* A stop, restart or destroy always returns, even if the call comes       *)
(* before the child is spawned or after it exited.                         *)
(***************************************************************************)
StopReturns ==
  \A t \in Tasks :
    (call[t] \in {"stop", "restart", "destroy"}) ~> (call[t] \in {"idle", "none"})
=============================================================================
