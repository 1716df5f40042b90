----------------------------- MODULE TaskProofs -----------------------------
(***************************************************************************)
(* What the thread of a task runner and its child keep true whoever owns   *)
(* the runner (src/src/blueprint/task.c).  The proofs about TaskRunner and *)
(* JobRunner rest on these lemmas.                                         *)
(***************************************************************************)
EXTENDS Task, TLAPS

(* A thread has a child only between posix_spawn and its own or its         *)
(* cleanup handler's waitpid.                                               *)
ChildOfThread ==
  \A t \in Tasks : thr[t] \in {"none", "spawn", "exited", "joined"} =>
                     proc[t] = "none"

(* The thread has marked the task before it waits.                          *)
RunningWhileWaiting ==
  \A t \in Tasks : thr[t] \in {"waitpid", "handler"} => status[t] = "running"

(* A posix_spawn that worked leaves a child until somebody reaps it.        *)
ChildAwaited ==
  ~SpawnMayFail =>
    \A t \in Tasks : thr[t] \in {"spawned", "waitpid", "handler"} =>
                       proc[t] # "none"

(* What a thread that waited for a child has left in the runner's info.     *)
InfoLeft ==
  ~SpawnMayFail =>
    \A t \in Tasks : thr[t] \in {"exited", "joined"} => info[t] # NoInfo

(* A task that says completed has an exit code 0, unless a new thread has   *)
(* not got round to marking it.                                             *)
CompletedHas0 ==
  \A t \in Tasks : status[t] = "completed" =>
    info[t].exit_code = "0" \/ thr[t] \in {"spawn", "spawned"}

(***************************************************************************)
(* What holds of a thread, its child and its runner's info whatever others *)
(* write to the status of the task, and what holds of that status as long  *)
(* as nobody else does.                                                    *)
(***************************************************************************)
ThreadInv ==
  /\ TaskTypeOK
  /\ ChildOfThread
  /\ ChildAwaited
  /\ InfoLeft

StatusInv ==
  /\ RunningWhileWaiting
  /\ CompletedHas0

TaskInv == ThreadInv /\ StatusInv

-----------------------------------------------------------------------------
(***************************************************************************)
(* Every outcome update_status knows leaves a mark in the runner's info,   *)
(* and only an exit with code 0 makes a task completed.                    *)
(***************************************************************************)
LEMMA Outcomes ==
  ASSUME NEW e \in Exits \cup {"neither"}, NEW old \in TaskInfo,
         NEW s \in TaskStatus
  PROVE  /\ InfoAfter(e, old) \in TaskInfo
         /\ StatusAfter(e, s) \in TaskStatus
         /\ e # "neither" => InfoAfter(e, old) # NoInfo
         /\ s # "completed" /\ StatusAfter(e, s) = "completed" =>
              InfoAfter(e, old).exit_code = "0"
BY DEF Exits, TaskInfo, TaskStatus, NoInfo, InfoAfter, StatusAfter

(***************************************************************************)
(* A freshly created job has no thread, no child and nothing recorded.     *)
(***************************************************************************)
LEMMA TaskInvInit == TaskInit => TaskInv
BY DEF TaskInit, TaskInv, ThreadInv, StatusInv, TaskTypeOK, ChildOfThread,
       RunningWhileWaiting, ChildAwaited, InfoLeft, CompletedHas0, NoInfo, TaskInfo, TaskStatus,
       ThreadState, ProcState, Exits

(***************************************************************************)
(* The invariant speaks of nothing but the tasks' variables.               *)
(***************************************************************************)
LEMMA TaskInvStutter ==
  ASSUME ThreadInv, UNCHANGED taskVars
  PROVE  ThreadInv' /\ (StatusInv => StatusInv')
BY DEF ThreadInv, StatusInv, TaskTypeOK, ChildOfThread, RunningWhileWaiting,
       ChildAwaited, InfoLeft, CompletedHas0, taskVars

(***************************************************************************)
(* posix_spawn, the mark, waitpid with update_status, the cleanup handler  *)
(* and the end of the child all keep the invariant.                        *)
(***************************************************************************)
LEMMA TaskInvThread ==
  ASSUME ThreadInv, NEW t \in Tasks, TaskThread(t) \/ ProcExit(t)
  PROVE  ThreadInv' /\ (StatusInv => StatusInv')
<1>. USE DEF ThreadInv, StatusInv, TaskTypeOK
<1>1. CASE Spawn(t)
  BY <1>1 DEF Spawn, ChildOfThread, RunningWhileWaiting, ChildAwaited,
       InfoLeft, CompletedHas0, ThreadState, ProcState
<1>2. CASE MarkRunning(t)
  BY <1>2 DEF MarkRunning, ChildOfThread, RunningWhileWaiting, ChildAwaited,
       InfoLeft, CompletedHas0, ThreadState, TaskStatus
<1>3. CASE Reap(t)
  <2>1. PICK e \in WaitResult(t) :
          /\ status' = [status EXCEPT ![t] = StatusAfter(e, @)]
          /\ info' = [info EXCEPT ![t] = InfoAfter(e, @)]
    BY <1>3 DEF Reap
  <2>2. e \in Exits \cup {"neither"} /\ (e = "neither" => proc[t] = "none")
    BY <2>1 DEF WaitResult, Exits
  <2>3. /\ InfoAfter(e, info[t]) \in TaskInfo
        /\ StatusAfter(e, status[t]) \in TaskStatus
        /\ e # "neither" => InfoAfter(e, info[t]) # NoInfo
        /\ status[t] # "completed" /\ StatusAfter(e, status[t]) = "completed" =>
             InfoAfter(e, info[t]).exit_code = "0"
    BY <2>2, <1>3, Outcomes DEF Reap
  <2>4. /\ thr' = [thr EXCEPT ![t] = "exited"]
        /\ proc' = [proc EXCEPT ![t] = "none"]
        /\ cancel' = cancel
        /\ thr[t] \in {"waitpid", "handler"}
    BY <1>3 DEF Reap
  <2>5. TaskTypeOK'
    BY <2>1, <2>3, <2>4 DEF ThreadState, ProcState
  <2>6. (ChildOfThread /\ ChildAwaited)'
    BY <2>1, <2>4 DEF ChildOfThread, ChildAwaited
  <2>7. InfoLeft'
    BY <2>1, <2>2, <2>3, <2>4 DEF InfoLeft, ChildAwaited
  <2>8. ASSUME StatusInv PROVE StatusInv'
    <3>1. status[t] = "running"
      BY <2>4, <2>8 DEF RunningWhileWaiting
    <3>. QED
      BY <2>1, <2>3, <2>4, <2>8, <3>1 DEF RunningWhileWaiting, CompletedHas0
  <2>. QED
    BY <2>5, <2>6, <2>7, <2>8
<1>4. CASE ActOnCancel(t)
  BY <1>4 DEF ActOnCancel, ChildOfThread, RunningWhileWaiting, ChildAwaited,
       InfoLeft, CompletedHas0, ThreadState, ProcState
<1>5. CASE ProcExit(t)
  BY <1>5 DEF ProcExit, ChildOfThread, RunningWhileWaiting, ChildAwaited,
       InfoLeft, CompletedHas0, ThreadState, ProcState, Exits
<1>. QED
  BY <1>1, <1>2, <1>3, <1>4, <1>5 DEF TaskThread

(***************************************************************************)
(* task_run may be called for a task whose last thread, if any, is joined. *)
(***************************************************************************)
LEMMA TaskInvRun ==
  ASSUME ThreadInv, NEW t \in Tasks, thr[t] \in NoThread, TaskRun(t)
  PROVE  ThreadInv' /\ (StatusInv => StatusInv')
BY DEF ThreadInv, StatusInv, TaskTypeOK, TaskRun, CreateThread, ChildOfThread, NoThread,
       RunningWhileWaiting, ChildAwaited, InfoLeft, CompletedHas0, NoInfo,
       TaskInfo, ThreadState

(***************************************************************************)
(* The end of task_run marks the task whatever its thread has done by      *)
(* then, even reported the outcome.                                        *)
(***************************************************************************)
LEMMA TaskInvRunEnd ==
  ASSUME ThreadInv, NEW t \in Tasks, TaskRunEnd(t)
  PROVE  ThreadInv' /\ (StatusInv => StatusInv')
BY DEF ThreadInv, StatusInv, TaskTypeOK, TaskRunEnd, ChildOfThread, RunningWhileWaiting,
       ChildAwaited, InfoLeft, CompletedHas0, TaskStatus

(***************************************************************************)
(* A pending cancellation is no matter of the invariant: only the place    *)
(* where it acts is.                                                       *)
(***************************************************************************)
LEMMA TaskInvCancel ==
  ASSUME ThreadInv, NEW t \in Tasks, CancelThread(t),
         UNCHANGED <<status, thr, proc, info>>
  PROVE  ThreadInv' /\ (StatusInv => StatusInv')
BY DEF ThreadInv, StatusInv, TaskTypeOK, CancelThread, ChildOfThread, RunningWhileWaiting,
       ChildAwaited, InfoLeft, CompletedHas0

(***************************************************************************)
(* pthread_join of a thread that has exited or was joined before.          *)
(***************************************************************************)
LEMMA TaskInvJoin ==
  ASSUME ThreadInv, NEW t \in Tasks, Joinable(t), JoinThread(t),
         UNCHANGED <<status, proc, info>>
  PROVE  ThreadInv' /\ (StatusInv => StatusInv')
BY DEF ThreadInv, StatusInv, TaskTypeOK, Joinable, JoinThread, ChildOfThread,
       RunningWhileWaiting, ChildAwaited, InfoLeft, CompletedHas0, ThreadState

(***************************************************************************)
(* task_runner_restart creates a thread for a runner whose old one it has  *)
(* joined; the info stays.                                                 *)
(***************************************************************************)
LEMMA TaskInvRestart ==
  ASSUME ThreadInv, NEW t \in Tasks, Joinable(t), CreateThread(t),
         UNCHANGED <<status, proc, info>>
  PROVE  ThreadInv' /\ (StatusInv => StatusInv')
BY DEF ThreadInv, StatusInv, TaskTypeOK, Joinable, CreateThread, ChildOfThread,
       RunningWhileWaiting, ChildAwaited, InfoLeft, CompletedHas0, ThreadState
=============================================================================
