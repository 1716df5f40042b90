-------------------------- MODULE TaskRunnerProofs --------------------------
(***************************************************************************)
(* Proofs about TaskRunner, for any number of tasks.                       *)
(***************************************************************************)
EXTENDS TaskRunner, TaskProofs

(* There is a thread to stop exactly as long as there is a runner: destroy  *)
(* joins before it frees.                                                   *)
NoRunnerNoThread ==
  \A t \in Tasks : call[t] = "none" => thr[t] \in NoThread

IInv ==
  /\ TaskInv
  /\ call \in [Tasks -> Calls]
  /\ NoRunnerNoThread

-----------------------------------------------------------------------------
(***************************************************************************)
(* No task has a runner at first.                                          *)
(***************************************************************************)
LEMMA InvariantInit == Init => IInv
<1>. SUFFICES ASSUME Init PROVE IInv
  OBVIOUS
<1>1. TaskInv
  BY TaskInvInit DEF Init
<1>. QED
  BY <1>1 DEF Init, IInv, TaskInit, Calls, NoRunnerNoThread, NoThread

(***************************************************************************)
(* Every call of the API, and every step of the threads and children under *)
(* it, keeps the invariant.                                                *)
(***************************************************************************)
LEMMA InvariantStep == IInv /\ [Next]_vars => IInv'
<1>. SUFFICES ASSUME IInv, [Next]_vars PROVE IInv'
  OBVIOUS
<1>. USE DEF IInv, TaskInv, SetCall, NoRunnerNoThread
<1>t. TaskTypeOK
  BY DEF ThreadInv
<1>1. CASE UNCHANGED vars
  BY <1>1, TaskInvStutter DEF vars, taskVars
<1>2. ASSUME NEW t \in Tasks, Run(t) PROVE IInv'
  <2>1. TaskInv'
    BY <1>2, TaskInvRun DEF Run
  <2>. QED
    BY <1>2, <2>1, <1>t DEF Run, TaskRun, CreateThread, Calls, TaskTypeOK
<1>3. ASSUME NEW t \in Tasks, RunEnd(t) PROVE IInv'
  <2>1. TaskInv'
    BY <1>3, TaskInvRunEnd DEF RunEnd
  <2>. QED
    BY <1>3, <2>1 DEF RunEnd, TaskRunEnd, Calls
<1>4. ASSUME NEW t \in Tasks,
             NEW c \in {"wait", "stop", "restart", "destroy"}, Call(t, c)
      PROVE  IInv'
  <2>1. CASE UNCHANGED cancel
    <3>1. TaskInv'
      BY <1>4, <2>1, TaskInvStutter DEF Call, taskVars
    <3>. QED
      BY <1>4, <3>1 DEF Call, Calls
  <2>2. CASE CancelThread(t)
    <3>1. TaskInv'
      BY <1>4, <2>2, TaskInvCancel DEF Call
    <3>. QED
      BY <1>4, <3>1 DEF Call, Calls
  <2>. QED
    BY <1>4, <2>1, <2>2 DEF Call
<1>5. ASSUME NEW t \in Tasks, Return(t) PROVE IInv'
  <2>1. CASE call[t] = "restart" /\ CreateThread(t)
    <3>1. TaskInv'
      BY <1>5, <2>1, TaskInvRestart DEF Return
    <3>. QED
      BY <1>5, <2>1, <3>1, <1>t DEF Return, CreateThread, Calls, TaskTypeOK
  <2>2. CASE JoinThread(t)
    <3>1. TaskInv'
      BY <1>5, <2>2, TaskInvJoin DEF Return
    <3>. QED
      BY <1>5, <2>2, <3>1, <1>t
        DEF Return, JoinThread, Calls, TaskTypeOK, NoThread
  <2>. QED
    BY <1>5, <2>1, <2>2 DEF Return
<1>6. ASSUME NEW t \in Tasks, Threads(t) PROVE IInv'
  <2>1. TaskInv'
    BY <1>6, TaskInvThread DEF Threads
  <2>2. \A u \in Tasks : thr[u] \in NoThread => thr'[u] \in NoThread
    BY <1>6, <1>t DEF Threads, TaskThread, Spawn, MarkRunning, Reap,
         ActOnCancel, ProcExit, NoThread, TaskTypeOK
  <2>. QED
    BY <1>6, <2>1, <2>2 DEF Threads
<1>. QED
  BY <1>1, <1>2, <1>3, <1>4, <1>5, <1>6 DEF Next, Owner

(***************************************************************************)
(* The inductive invariant holds in every behaviour of the task runner     *)
(* API: a child exists only under a thread that will reap it, and the info *)
(* and the status agree with what that thread saw.                         *)
(***************************************************************************)
THEOREM Invariant == Spec => []IInv
BY InvariantInit, InvariantStep, PTL DEF Spec

(***************************************************************************)
(* The variables of the task runner API keep their types.                  *)
(***************************************************************************)
THEOREM TypeCorrect == Spec => []TypeOK
<1>1. IInv => TypeOK
  BY DEF IInv, TaskInv, ThreadInv, TypeOK
<1>. QED
  BY <1>1, Invariant, PTL

(***************************************************************************)
(* If posix_spawn starts the child, a runner thread that ended, by itself  *)
(* or through its cleanup handler, has reaped it and recorded how it       *)
(* ended (task_runner_thread, task_runner_handler).                        *)
(***************************************************************************)
THEOREM Outcome == Spec => [](~SpawnMayFail => OutcomeRecorded)
<1>1. IInv => (~SpawnMayFail => OutcomeRecorded)
  BY DEF IInv, TaskInv, ThreadInv, InfoLeft, ChildOfThread, OutcomeRecorded
<1>. QED
  BY <1>1, Invariant, PTL

(***************************************************************************)
(* A task that says completed has the exit code 0 in its runner's info, or *)
(* a new thread that has not marked it yet; update_status sets both, also  *)
(* when posix_spawn failed and it judges a status nobody has written.      *)
(***************************************************************************)
THEOREM Completed == Spec => []CompletedExited0
<1>1. IInv => CompletedExited0
  BY DEF IInv, TaskInv, StatusInv, CompletedHas0, CompletedExited0
<1>. QED
  BY <1>1, Invariant, PTL
=============================================================================
