-------------------------------- MODULE Task --------------------------------
(***************************************************************************)
(* A task and the thread and child process that execute it                 *)
(* (src/src/blueprint/task.c).                                             *)
(*                                                                         *)
(* A task runner is a thread, task_runner_thread, that spawns one child    *)
(* process, marks the task running, blocks in waitpid and turns the exit   *)
(* status into a task status.  Cancelling the thread is how a task is      *)
(* stopped: waitpid is its only cancellation point, and the cleanup        *)
(* handler pushed around it interrupts the child, reaps it and records the *)
(* outcome.                                                                *)
(*                                                                         *)
(* The module has no specification of its own.  TaskRunner closes it with  *)
(* the calls of the runner API, JobRunner with the job thread.             *)
(***************************************************************************)
EXTENDS Naturals

CONSTANTS NTasks,        \* the number of tasks
          SpawnMayFail   \* may posix_spawn fail to start the child?

ASSUME TaskAssumption == NTasks \in Nat \ {0} /\ SpawnMayFail \in BOOLEAN

VARIABLES status,   \* Task.status
          thr,      \* where the task's runner thread is
          cancel,   \* a cancellation request is pending on that thread
          proc,     \* the child process
          info      \* TaskRunner.info of the task's latest runner

taskVars == <<status, thr, cancel, proc, info>>

Tasks == 1..NTasks

TaskStatus == {"not_ready", "ready", "running", "completed", "incomplete"}

(***************************************************************************)
(* How a child ends: exit code 0, another exit code, killed by SIGINT,     *)
(* killed by another signal.  A child in one of these states is a zombie   *)
(* until it is reaped.                                                     *)
(***************************************************************************)
Exits == {"exit0", "exitN", "sigint", "sigother"}

ProcState == {"none", "alive", "interrupted"} \cup Exits

(***************************************************************************)
(* A thread handle is "none" before the first pthread_create and "joined"  *)
(* once pthread_join returned; it is then stale.  "spawn" is the thread    *)
(* before posix_spawn, "spawned" after it, "waitpid" in the blocking wait, *)
(* "handler" in the cleanup handler's wait, "exited" after pthread_exit.   *)
(***************************************************************************)
ThreadState ==
  {"none", "spawn", "spawned", "waitpid", "handler", "exited", "joined"}

NoThread == {"none", "joined"}

(***************************************************************************)
(* EXIT_SENTINAL and SIGSENT are "sent", "nothing recorded yet".           *)
(***************************************************************************)
TaskInfo == [exit_code : {"sent", "0", "n"}, signo : {"sent", "int", "other"}]

NoInfo == [exit_code |-> "sent", signo |-> "sent"]

TaskTypeOK ==
  /\ status \in [Tasks -> TaskStatus]
  /\ thr \in [Tasks -> ThreadState]
  /\ cancel \in [Tasks -> BOOLEAN]
  /\ proc \in [Tasks -> ProcState]
  /\ info \in [Tasks -> TaskInfo]

TaskInit ==
  /\ status = [t \in Tasks |-> "ready"]
  /\ thr = [t \in Tasks |-> "none"]
  /\ cancel = [t \in Tasks |-> FALSE]
  /\ proc = [t \in Tasks |-> "none"]
  /\ info = [t \in Tasks |-> NoInfo]

-----------------------------------------------------------------------------
(* update_status: what an exit status makes of the task and of the runner's *)
(* info.  An exit status that is neither an exit nor a signal, "neither",   *)
(* changes nothing.                                                         *)

(* Fault: any exit code counts as success.                                  *)
FaultStatusAfter(e, old) ==
  CASE e \in {"exit0", "exitN"} -> "completed"
    [] e = "sigint"             -> "incomplete"
    [] e = "sigother"           -> "ready"
    [] OTHER                    -> old

StatusAfter(e, old) ==
  CASE e = "exit0"    -> "completed"
    [] e = "exitN"    -> "not_ready"
    [] e = "sigint"   -> "incomplete"
    [] e = "sigother" -> "ready"
    [] OTHER          -> old

InfoAfter(e, old) ==
  CASE e = "exit0"    -> [old EXCEPT !.exit_code = "0"]
    [] e = "exitN"    -> [old EXCEPT !.exit_code = "n"]
    [] e = "sigint"   -> [old EXCEPT !.signo = "int"]
    [] e = "sigother" -> [old EXCEPT !.signo = "other"]
    [] OTHER          -> old

-----------------------------------------------------------------------------
(* The runner thread.                                                       *)

(***************************************************************************)
(* posix_spawn.  On failure it returns a positive error number, which the  *)
(* test "== -1" does not see: the thread goes on without a child, with an  *)
(* uninitialised process id.                                               *)
(***************************************************************************)
Spawn(t) ==
  /\ thr[t] = "spawn"
  /\ thr' = [thr EXCEPT ![t] = "spawned"]
  /\ \/ proc' = [proc EXCEPT ![t] = "alive"]
     \/ SpawnMayFail /\ UNCHANGED proc
  /\ UNCHANGED <<status, cancel, info>>

MarkRunning(t) ==
  /\ thr[t] = "spawned"
  /\ thr' = [thr EXCEPT ![t] = "waitpid"]
  /\ status' = [status EXCEPT ![t] = "running"]
  /\ UNCHANGED <<cancel, proc, info>>

(***************************************************************************)
(* What waitpid leaves in its local status: the exit of the child, or,     *)
(* when there is no child to wait for, whatever was on the stack.          *)
(***************************************************************************)
WaitResult(t) ==
  IF proc[t] = "none" THEN Exits \cup {"neither"} ELSE {proc[t]} \cap Exits

(***************************************************************************)
(* waitpid returns, in the thread or in its cleanup handler; update_status *)
(* and pthread_exit follow without a cancellation point.                   *)
(***************************************************************************)
Reap(t) ==
  /\ thr[t] \in {"waitpid", "handler"}
  /\ \E e \in WaitResult(t) :
       /\ status' = [status EXCEPT ![t] = StatusAfter(e, @)]
       /\ info' = [info EXCEPT ![t] = InfoAfter(e, @)]
  /\ proc' = [proc EXCEPT ![t] = "none"]
  /\ thr' = [thr EXCEPT ![t] = "exited"]
  /\ UNCHANGED cancel

(* Fault: the cleanup handler does not interrupt the child.                 *)
FaultNoKill(t) ==
  /\ thr[t] = "waitpid"
  /\ cancel[t]
  /\ thr' = [thr EXCEPT ![t] = "handler"]
  /\ UNCHANGED <<status, cancel, proc, info>>

(* Fault: the cleanup handler does not wait for the child.                  *)
FaultNoReap(t) ==
  /\ thr[t] = "waitpid"
  /\ cancel[t]
  /\ thr' = [thr EXCEPT ![t] = "exited"]
  /\ proc' = [proc EXCEPT ![t] = IF @ = "alive" THEN "interrupted" ELSE @]
  /\ UNCHANGED <<status, cancel, info>>

(***************************************************************************)
(* A pending cancellation acts in waitpid: task_runner_handler sends       *)
(* SIGINT to the child and waits for it.                                   *)
(***************************************************************************)
ActOnCancel(t) ==
  /\ thr[t] = "waitpid"
  /\ cancel[t]
  /\ thr' = [thr EXCEPT ![t] = "handler"]
  /\ proc' = [proc EXCEPT ![t] = IF @ = "alive" THEN "interrupted" ELSE @]
  /\ UNCHANGED <<status, cancel, info>>

TaskThread(t) == Spawn(t) \/ MarkRunning(t) \/ Reap(t) \/ ActOnCancel(t)

(***************************************************************************)
(* The child, a Python script: it may end in any way at any time.          *)
(***************************************************************************)
ProcExit(t) ==
  /\ proc[t] \in {"alive", "interrupted"}
  /\ \E e \in Exits : proc' = [proc EXCEPT ![t] = e]
  /\ UNCHANGED <<status, thr, cancel, info>>

-----------------------------------------------------------------------------
(* What the owner of the runner does to it.                                 *)

(* pthread_create of the runner thread.                                     *)
CreateThread(t) ==
  /\ thr' = [thr EXCEPT ![t] = "spawn"]
  /\ cancel' = [cancel EXCEPT ![t] = FALSE]

(* task_run up to pthread_create: a new runner with its info cleared.       *)
TaskRun(t) ==
  /\ CreateThread(t)
  /\ info' = [info EXCEPT ![t] = NoInfo]
  /\ UNCHANGED <<status, proc>>

(* The end of task_run: the task is marked running by its creator as well.  *)
TaskRunEnd(t) ==
  /\ status' = [status EXCEPT ![t] = "running"]
  /\ UNCHANGED <<thr, cancel, proc, info>>

(* pthread_cancel; on a stale handle it finds no thread.                    *)
CancelThread(t) ==
  cancel' = [cancel EXCEPT ![t] = @ \/ thr[t] \notin NoThread]

(* pthread_join returns once the thread has exited, or at once when the     *)
(* handle is stale.  A request pending on the thread is gone with it.       *)
Joinable(t) == thr[t] \in {"exited", "joined"}

JoinThread(t) ==
  /\ thr' = [thr EXCEPT ![t] = "joined"]
  /\ cancel' = [cancel EXCEPT ![t] = FALSE]

=============================================================================
