----------------------------- MODULE JobRunner -----------------------------
(***************************************************************************)
(* A job and its runner (src/src/blueprint/job.c).                         *)
(*                                                                         *)
(* A job is a list of tasks.  Its runner is a thread that walks the list,  *)
(* starts the tasks that are ready or incomplete, one after another        *)
(* (sequential) or all together (parallel), joins their threads, and, in   *)
(* repeat mode, resets the tasks and starts over.  The module follows one  *)
(* runner, its threads and their children.  Four parties act on the job:   *)
(*   - the job thread, which can be cancelled only where it joins a task   *)
(*     thread, its cleanup handlers then stopping the tasks;               *)
(*   - one controller, the owner of the runner, which runs, waits for,     *)
(*     stops, restarts and destroys it (job.h requires a single owner);    *)
(*   - a reader, an API thread inside job_get_status, which takes no lock  *)
(*     and writes Job.status;                                              *)
(*   - other runners of the same job: engine_run makes a new one before it *)
(*     destroys the old one, and a start or restart of an assigned worker  *)
(*     does so for the same job.  Each has threads, children and info of   *)
(*     its own; they share the statuses of the tasks, which another runner *)
(*     may rewrite in any way, and of the job, which it writes as a reader.*)
(* The tasks' threads and children are those of module Task.               *)
(***************************************************************************)
EXTENDS Task, Sequences

CONSTANTS MaxCount,        \* where the counters of the info saturate (0: not kept)
          WithReader,      \* is there a concurrent reader of the status?
          MaxWrites        \* how often other runners of the job may write

ASSUME JobAssumption ==
  MaxCount \in Nat /\ WithReader \in BOOLEAN /\ MaxWrites \in Nat

VARIABLES exec,        \* Job.opts.exec_mode
          runMode,     \* Job.opts.run_mode
          jobStatus,   \* Job.status
          jpc,         \* where the job thread is
          jcancel,     \* a cancellation request is pending on the job thread
          repeat,      \* the thread's local "repeat"
          completion,  \* the thread's local "completion"
          curr,        \* the position in the task list
          runners,     \* the task runners to join, by task
          k,           \* the position in runners
          jinfo,       \* JobRunner.info
          ctl,         \* the call the controller is in
          rd,          \* the reader: its position and what it counted
          others       \* how often other runners of the job have written

jobThreadVars ==
  <<jpc, jcancel, repeat, completion, curr, runners, k, jinfo>>
jobVars == <<exec, runMode, jobStatus, jobThreadVars, ctl, rd, others>>
vars == <<taskVars, jobVars>>

(* All that is ever asked of Job.status is whether it is JOB_COMPLETED.     *)
JobStatus == {"completed", "other"}

(***************************************************************************)
(* "none": no runner.  "scan", "set": in the loop over the tasks, before   *)
(* and inside task_run.  "wait", "joining": before and inside the          *)
(* pthread_join of task_runner_wait.  "pop": the cleanup handlers of the   *)
(* normal path.  "handler", "handlerJoin": the same ones on cancellation.  *)
(* "report", "success", "reset": the bookkeeping after the loop.           *)
(***************************************************************************)
JobPC == {"none", "top", "scan", "set", "wait", "joining", "pop", "handler",
          "handlerJoin", "report", "success", "reset", "exited", "joined"}

JobThreadGone == {"none", "exited", "joined"}

Calls == {"idle", "wait", "stop", "restart", "destroy"}

Idle == [at |-> 0, seen |-> "completed"]

TypeOK ==
  /\ TaskTypeOK
  /\ exec \in {"sequential", "parallel"}
  /\ runMode \in {"once", "repeat"}
  /\ jobStatus \in JobStatus
  /\ jpc \in JobPC
  /\ jcancel \in BOOLEAN
  /\ repeat \in BOOLEAN
  /\ completion \in BOOLEAN
  /\ curr \in 1..(NTasks + 1)
  /\ runners \in Seq(Tasks)
  /\ k \in Nat \ {0}
  /\ jinfo \in [attempts : 0..MaxCount, completions : 0..MaxCount,
                successes : 0..MaxCount]
  /\ ctl \in Calls
  /\ rd \in [at : 0..(NTasks + 1), seen : TaskStatus]
  /\ others \in 0..MaxWrites

NoCounts == [attempts |-> 0, completions |-> 0, successes |-> 0]

Init ==
  /\ TaskInit
  /\ exec \in {"sequential", "parallel"}
  /\ runMode \in {"once", "repeat"}
  /\ jobStatus = "other"
  /\ jpc = "none"
  /\ jcancel = FALSE
  /\ repeat = FALSE
  /\ completion = FALSE
  /\ curr = 1
  /\ runners = <<>>
  /\ k = 1
  /\ jinfo = NoCounts
  /\ ctl = "idle"
  /\ rd = Idle
  /\ others = 0

-----------------------------------------------------------------------------
(* The status of a job: the highest status of its tasks in the order of     *)
(* update_status.                                                           *)

(* Fault: a task that is not ready does not count.                          *)
FaultRank(s) ==
  CASE s = "running"    -> 4
    [] s = "incomplete" -> 2
    [] s = "ready"      -> 1
    [] OTHER            -> 0

Rank(s) ==
  CASE s = "running"    -> 4
    [] s = "not_ready"  -> 3
    [] s = "incomplete" -> 2
    [] s = "ready"      -> 1
    [] OTHER            -> 0

Higher(a, b) == IF Rank(a) < Rank(b) THEN b ELSE a

Published(s) == IF s = "completed" THEN s ELSE "other"

DerivedStatus ==
  CHOOSE s \in {status[t] : t \in Tasks} :
    \A t \in Tasks : Rank(status[t]) <= Rank(s)

(* A counter of the runner's info.                                          *)
Incr(n) == IF n < MaxCount THEN n + 1 ELSE n

-----------------------------------------------------------------------------
(* The job thread: job_thread_sequential and job_thread_parallel.           *)

jobUnchanged == UNCHANGED <<exec, runMode, ctl, rd, others>>

Top ==
  /\ jpc = "top"
  /\ jpc' = "scan"
  /\ jinfo' = [jinfo EXCEPT !.attempts = Incr(@)]
  /\ completion' = TRUE
  /\ curr' = 1
  /\ runners' = <<>>
  /\ UNCHANGED <<taskVars, jobStatus, jcancel, repeat, k>>
  /\ jobUnchanged

(* Where the loop over the tasks leads when it ends or is left by break.    *)
LeaveLoop ==
  /\ jpc' = IF exec = "parallel" THEN "wait" ELSE "report"
  /\ k' = 1

GiveUp ==
  /\ completion' = FALSE
  /\ repeat' = FALSE
  /\ LeaveLoop
  /\ UNCHANGED <<taskVars, curr>>

(* Fault: a completed task is run again.                                    *)
FaultRunnable(t) == status[t] \in {"ready", "incomplete", "completed"}

(* Fault: a task that was interrupted is passed over.                       *)
FaultPassOver(t) == status[t] = "ready"

Runnable(t) == status[t] \in {"ready", "incomplete"}

Inconsistent(t) == status[t] \in {"not_ready", "running"}

(* pthread_exit: the thread's locals are gone.                              *)
ThreadExit ==
  /\ jpc' = "exited"
  /\ repeat' = FALSE
  /\ completion' = FALSE
  /\ curr' = 1
  /\ runners' = <<>>
  /\ k' = 1

(* The end of an attempt: on with a repeated job, or out.                   *)
NextAttempt(next) ==
  \/ /\ repeat
     /\ jpc' = next
     /\ curr' = 1
     /\ UNCHANGED <<repeat, completion, runners, k>>
  \/ ~repeat /\ ThreadExit

(***************************************************************************)
(* One turn of the loop up to the pthread_create inside task_run: a        *)
(* runnable task gets a thread, or task_run fails; one that is not ready   *)
(* or running ends the attempt; any other is passed over.                  *)
(***************************************************************************)
Scan ==
  /\ jpc = "scan"
  /\ \/ /\ curr > NTasks
        /\ LeaveLoop
        /\ UNCHANGED <<taskVars, repeat, completion, curr>>
     \/ /\ curr <= NTasks
        /\ Runnable(curr)
        /\ TaskRun(curr)
        /\ jpc' = "set"
        /\ UNCHANGED <<repeat, completion, curr, k>>
     \/ /\ curr <= NTasks
        /\ Runnable(curr)
        /\ GiveUp
     \/ /\ curr <= NTasks
        /\ ~Runnable(curr) /\ ~Inconsistent(curr)
        /\ curr' = curr + 1
        /\ UNCHANGED <<taskVars, jpc, repeat, completion, k>>
     \/ /\ curr <= NTasks
        /\ Inconsistent(curr)
        /\ GiveUp
  /\ UNCHANGED <<jobStatus, jcancel, runners, jinfo>>
  /\ jobUnchanged

(* Fault: a sequential job does not wait for the task it started.           *)
FaultSet ==
  /\ jpc = "set"
  /\ TaskRunEnd(curr)
  /\ runners' = Append(runners, curr)
  /\ curr' = curr + 1
  /\ jpc' = "scan"
  /\ UNCHANGED <<jobStatus, jcancel, repeat, completion, k, jinfo>>
  /\ jobUnchanged

(***************************************************************************)
(* task_run returns: the runner joins the array, or, in a sequential job,  *)
(* is waited for at once.                                                  *)
(***************************************************************************)
Set ==
  /\ jpc = "set"
  /\ TaskRunEnd(curr)
  /\ \/ /\ exec = "parallel"
        /\ runners' = Append(runners, curr)
        /\ curr' = curr + 1
        /\ jpc' = "scan"
        /\ UNCHANGED k
     \/ /\ exec = "sequential"
        /\ runners' = <<curr>>
        /\ k' = 1
        /\ jpc' = "wait"
        /\ UNCHANGED curr
  /\ UNCHANGED <<jobStatus, jcancel, repeat, completion, jinfo>>
  /\ jobUnchanged

(***************************************************************************)
(* pthread_join is a cancellation point: a request that is pending when it *)
(* is called is acted upon; one that arrives while it blocks is acted      *)
(* upon, or the join returns first.                                        *)
(***************************************************************************)
(* Fault: no cleanup handler is pushed around the wait.                     *)
FaultStartHandler == jpc' = "exited" /\ k' = 1

StartHandler == jpc' = "handler" /\ k' = 1

Wait ==
  /\ jpc = "wait"
  /\ \/ k > Len(runners) /\ jpc' = "pop" /\ UNCHANGED k
     \/ k <= Len(runners) /\ ~jcancel /\ jpc' = "joining" /\ UNCHANGED k
     \/ k <= Len(runners) /\ jcancel /\ StartHandler
  /\ UNCHANGED <<taskVars, jobStatus, jcancel, repeat, completion, curr,
                 runners, jinfo>>
  /\ jobUnchanged

Joining ==
  /\ jpc = "joining"
  /\ \/ /\ Joinable(runners[k])
        /\ JoinThread(runners[k])
        /\ jpc' = "wait"
        /\ k' = k + 1
        /\ UNCHANGED <<status, proc, info>>
     \/ /\ jcancel
        /\ StartHandler
        /\ UNCHANGED taskVars
  /\ UNCHANGED <<jobStatus, jcancel, repeat, completion, curr, runners, jinfo>>
  /\ jobUnchanged

(* Fault: a sequential job stays at the task it has waited for.             *)
FaultPop ==
  /\ jpc = "pop"
  /\ jpc' = IF exec = "parallel" THEN "report" ELSE "scan"
  /\ runners' = <<>> /\ k' = 1
  /\ UNCHANGED <<repeat, completion, curr>>
  /\ UNCHANGED <<taskVars, jobStatus, jcancel, jinfo>>
  /\ jobUnchanged

(***************************************************************************)
(* pthread_cleanup_pop(1) destroys the runners that were joined: it        *)
(* cancels and joins stale handles, which touches no thread.  Whether such *)
(* a join acts on a pending cancellation is up to the C library; the       *)
(* handler is already popped then.                                         *)
(***************************************************************************)
Pop ==
  /\ jpc = "pop"
  /\ \/ /\ exec = "parallel"
        /\ jpc' = "report"
        /\ runners' = <<>> /\ k' = 1
        /\ UNCHANGED <<repeat, completion, curr>>
     \/ /\ exec = "sequential"
        /\ jpc' = "scan"
        /\ curr' = curr + 1
        /\ runners' = <<>> /\ k' = 1
        /\ UNCHANGED <<repeat, completion>>
     \/ /\ jcancel
        /\ runners # <<>>
        /\ ThreadExit
  /\ UNCHANGED <<taskVars, jobStatus, jcancel, jinfo>>
  /\ jobUnchanged

(* Fault: the handler cancels the task threads and does not join them.      *)
FaultHandler ==
  /\ jpc = "handler"
  /\ \/ /\ k <= Len(runners)
        /\ CancelThread(runners[k])
        /\ k' = k + 1
        /\ UNCHANGED <<jpc, repeat, completion, curr, runners>>
     \/ /\ k > Len(runners)
        /\ ThreadExit
        /\ UNCHANGED cancel
  /\ UNCHANGED <<status, thr, proc, info, jobStatus, jcancel, jinfo>>
  /\ jobUnchanged

(* The handlers of a cancelled thread: task_runner_destroy for each runner. *)
Handler ==
  /\ jpc = "handler"
  /\ \/ /\ k <= Len(runners)
        /\ CancelThread(runners[k])
        /\ jpc' = "handlerJoin"
        /\ UNCHANGED <<repeat, completion, curr, runners, k>>
     \/ /\ k > Len(runners)
        /\ ThreadExit
        /\ UNCHANGED cancel
  /\ UNCHANGED <<status, thr, proc, info, jobStatus, jcancel, jinfo>>
  /\ jobUnchanged

HandlerJoin ==
  /\ jpc = "handlerJoin"
  /\ Joinable(runners[k])
  /\ JoinThread(runners[k])
  /\ k' = k + 1
  /\ jpc' = "handler"
  /\ UNCHANGED <<status, proc, info, jobStatus, jcancel, repeat, completion,
                 curr, runners, jinfo>>
  /\ jobUnchanged

(***************************************************************************)
(* An attempt that went through the whole list is a completion; job_get_   *)
(* status then writes Job.status.  The runner's task threads are all       *)
(* joined here, so its scan sees one state of the tasks; what a scan makes *)
(* of another runner's writes on the way, the reader may put in Job.status *)
(* before Success reads it.                                                *)
(***************************************************************************)
Report ==
  /\ jpc = "report"
  /\ \/ /\ completion
        /\ jinfo' = [jinfo EXCEPT !.completions = Incr(@)]
        /\ jobStatus' = Published(DerivedStatus)
        /\ jpc' = "success"
        /\ UNCHANGED <<repeat, completion, curr, runners, k>>
     \/ /\ ~completion
        /\ NextAttempt("top")
        /\ UNCHANGED <<jinfo, jobStatus>>
  /\ UNCHANGED <<taskVars, jcancel>>
  /\ jobUnchanged

(* job_get_status returns what Job.status holds by now.                     *)
Success ==
  /\ jpc = "success"
  /\ jinfo' = IF jobStatus = "completed"
              THEN [jinfo EXCEPT !.successes = Incr(@)] ELSE jinfo
  /\ NextAttempt("reset")
  /\ UNCHANGED <<taskVars, jobStatus, jcancel>>
  /\ jobUnchanged

(* Fault: the walk over the list goes one task too far.                     *)
FaultReset ==
  /\ jpc = "reset"
  /\ \/ /\ curr <= NTasks + 1
        /\ status' = [status EXCEPT ![curr] = "ready"]
        /\ curr' = curr + 1
        /\ UNCHANGED jpc
     \/ /\ curr > NTasks + 1
        /\ jpc' = "top"
        /\ UNCHANGED <<status, curr>>
  /\ UNCHANGED <<thr, cancel, proc, info, jobStatus, jcancel, repeat,
                 completion, runners, k, jinfo>>
  /\ jobUnchanged

(* reset_status, one task at a time.                                        *)
Reset ==
  /\ jpc = "reset"
  /\ \/ /\ curr <= NTasks
        /\ status' = [status EXCEPT ![curr] = "ready"]
        /\ curr' = curr + 1
        /\ UNCHANGED jpc
     \/ /\ curr > NTasks
        /\ jpc' = "top"
        /\ UNCHANGED <<status, curr>>
  /\ UNCHANGED <<thr, cancel, proc, info, jobStatus, jcancel, repeat,
                 completion, runners, k, jinfo>>
  /\ jobUnchanged

JobThread ==
  \/ Top \/ Scan \/ Set \/ Wait \/ Joining \/ Pop \/ Handler \/ HandlerJoin
  \/ Report \/ Success \/ Reset

-----------------------------------------------------------------------------
(* The controller.                                                          *)

(* job_thread_create: a fresh job thread.                                   *)
JobThreadCreate ==
  /\ jpc' = "top"
  /\ jcancel' = FALSE
  /\ repeat' = (runMode = "repeat")

(* job_run by this owner, who has no runner or has destroyed it.            *)
JobRun ==
  /\ ctl = "idle"
  /\ jpc = "none"
  /\ JobThreadCreate
  /\ jinfo' = NoCounts
  /\ UNCHANGED <<taskVars, exec, runMode, jobStatus, completion, curr, runners,
                 k, ctl, rd, others>>

(* job_runner_wait, and the pthread_cancel of the other calls.              *)
Call(c) ==
  /\ ctl = "idle"
  /\ jpc # "none"
  /\ ctl' = c
  /\ jcancel' = IF c = "wait" THEN jcancel
                ELSE jcancel \/ jpc \notin JobThreadGone
  /\ UNCHANGED <<taskVars, exec, runMode, jobStatus, jpc, repeat, completion,
                 curr, runners, k, jinfo, rd, others>>

(***************************************************************************)
(* The pthread_join of the call returns, at once when the handle is stale. *)
(* restart then creates a thread, and ignores it when that fails; destroy  *)
(* frees the runner.                                                       *)
(***************************************************************************)
Return ==
  /\ ctl # "idle"
  /\ jpc \in {"exited", "joined"}
  /\ ctl' = "idle"
  /\ \/ ctl = "restart" /\ JobThreadCreate
     \/ /\ ctl # "destroy"
        /\ jpc' = "joined"
        /\ jcancel' = FALSE
        /\ UNCHANGED repeat
     \/ /\ ctl = "destroy"
        /\ jpc' = "none"
        /\ jcancel' = FALSE
        /\ UNCHANGED repeat
  /\ UNCHANGED <<taskVars, exec, runMode, jobStatus, completion, curr,
                 runners, k, jinfo, rd, others>>

Controller == JobRun \/ (\E c \in Calls \ {"idle"} : Call(c)) \/ Return

-----------------------------------------------------------------------------
(* The reader: job_get_status of an API thread, a task at a time.           *)

ReadStart ==
  /\ WithReader
  /\ rd = Idle
  /\ rd' = [at |-> 1, seen |-> "completed"]
  /\ UNCHANGED jobStatus

ReadTask ==
  /\ rd.at \in Tasks
  /\ rd' = [at |-> rd.at + 1, seen |-> Higher(rd.seen, status[rd.at])]
  /\ UNCHANGED jobStatus

ReadEnd ==
  /\ rd.at = NTasks + 1
  /\ jobStatus' = Published(rd.seen)
  /\ rd' = Idle

Reader ==
  /\ ReadStart \/ ReadTask \/ ReadEnd
  /\ UNCHANGED <<taskVars, exec, runMode, jobThreadVars, ctl, others>>

-----------------------------------------------------------------------------
(***************************************************************************)
(* Another runner of the same job, made by an engine_run before or after   *)
(* this one: its task_run, its task threads and its reset_status write     *)
(* Task.status without a lock.  Its job_get_status is that of the reader.  *)
(***************************************************************************)
OtherRunner ==
  /\ others < MaxWrites
  /\ others' = others + 1
  /\ \E t \in Tasks, s \in TaskStatus : status' = [status EXCEPT ![t] = s]
  /\ UNCHANGED <<thr, cancel, proc, info, exec, runMode, jobStatus,
                 jobThreadVars, ctl, rd>>

TaskStep(t) == (TaskThread(t) \/ ProcExit(t)) /\ UNCHANGED jobVars

Next ==
  \/ JobThread
  \/ Controller
  \/ Reader
  \/ OtherRunner
  \/ \E t \in Tasks : TaskStep(t)

Spec == Init /\ [][Next]_vars

(***************************************************************************)
(* The scheduler runs every thread.  A child that was interrupted ends; a  *)
(* child nobody interrupted may run for ever.                              *)
(***************************************************************************)
Interrupted(t) == proc[t] = "interrupted" /\ ProcExit(t) /\ UNCHANGED jobVars

Fairness ==
  /\ WF_vars(JobThread)
  /\ WF_vars(Return)
  /\ \A t \in Tasks :
       /\ WF_vars(TaskThread(t) /\ UNCHANGED jobVars)
       /\ WF_vars(Interrupted(t))

(* Every child ends by itself: an assumption on the scripts.                *)
ChildrenEnd ==
  \A t \in Tasks : WF_vars(ProcExit(t) /\ UNCHANGED jobVars)

FairSpec == Spec /\ Fairness
-----------------------------------------------------------------------------
(* Properties.                                                              *)

Live(t) == thr[t] \notin NoThread

(***************************************************************************)
(* Whenever the job thread has ended, normally or by cancellation at any   *)
(* point, no task thread it created and no child of one is left: the       *)
(* cleanup handlers of job.c stop and reap everything its task_run calls   *)
(* started, whatever other runners of the job wrote to the tasks.          *)
(***************************************************************************)
NoOrphans ==
  jpc \in JobThreadGone =>
    \A t \in Tasks : ~Live(t) /\ proc[t] = "none"

(***************************************************************************)
(* The runner of a sequential job has at most one task thread and one      *)
(* child at a time (job_thread_sequential waits for a task before it       *)
(* starts the next), under any interleaving of its cancellations and       *)
(* restarts with the writes of other runners of the job.  It is one child  *)
(* per runner: while engine_run has two of them there may be two.          *)
(***************************************************************************)
OneAtATime ==
  exec = "sequential" =>
    \A t, u \in Tasks :
      (Live(t) \/ proc[t] # "none") /\ (Live(u) \/ proc[u] # "none") => t = u

(***************************************************************************)
(* A runner never starts a task whose earlier thread it has not joined or  *)
(* whose earlier child it has not reaped, even when another runner of the  *)
(* job has meanwhile marked the task ready.  Nothing keeps two runners     *)
(* from each starting the task once: task_run claims nothing.              *)
(***************************************************************************)
NoDoubleRun ==
  [][\A t \in Tasks :
       thr'[t] = "spawn" /\ thr[t] # "spawn" => ~Live(t) /\ proc[t] = "none"]_vars

(***************************************************************************)
(* A job that runs once, as long as no other runner has written to it,     *)
(* runs exactly what is left, over any stops, restarts and runs: a task    *)
(* whose child exited with code 0 is not run again, and the walk over the  *)
(* list passes over no other task, so that one that was interrupted or     *)
(* killed is run again or ends the attempt.                                *)
(***************************************************************************)
RunsWhatIsLeft ==
  [][runMode = "once" /\ others = 0 =>
       \A t \in Tasks :
         /\ info[t].exit_code = "0" => info'[t].exit_code = "0"
         /\ jpc = "scan" /\ jpc' = "scan" /\ curr = t /\ curr' = t + 1 =>
              info[t].exit_code = "0"]_vars

(***************************************************************************)
(* The status of a job that runs once is published as completed only when  *)
(* every task's child exited with code 0, although job_get_status reads    *)
(* the tasks one by one, without a lock, while they run; as long as no     *)
(* other runner has written to the job.                                    *)
(***************************************************************************)
CompletedIsTrue ==
  jobStatus = "completed" /\ runMode = "once" /\ others = 0 =>
    \A t \in Tasks : info[t].exit_code = "0"

(***************************************************************************)
(* A call that stops the job (job_runner_stop, _restart, _destroy) always  *)
(* returns, wherever the job thread was when it was cancelled, although a  *)
(* child that is not interrupted may run for ever and other runners may    *)
(* have changed the tasks under it.                                        *)
(***************************************************************************)
StopReturns ==
  (ctl \in {"stop", "restart", "destroy"}) ~> (ctl = "idle")

(***************************************************************************)
(* job_runner_wait on a job that runs once returns if every child ends.    *)
(***************************************************************************)
WaitReturns ==
  ChildrenEnd => ((ctl = "wait" /\ runMode = "once") ~> (ctl = "idle"))

Execution ==
  INSTANCE JobExecution WITH
    state <- CASE jpc \in {"none", "joined"} -> "free"
               [] jpc = "exited"             -> "exited"
               [] OTHER                      -> "live",
    cancel <- jcancel, record <- <<status, info>>,
    children <- {t \in Tasks : proc[t] # "none"}, others <- others

(***************************************************************************)
(* Seen from its owner a runner is one thread: between the end of that     *)
(* thread and the next job_run or job_runner_restart it changes no task's  *)
(* status, records no result late and leaves no child, wherever among its  *)
(* task threads and their cleanup handlers the cancellation hit.  What     *)
(* other runners of the job write is theirs.                               *)
(***************************************************************************)
ImplementsExecution == Execution!Spec

(***************************************************************************)
(* Once the runner's owner has waited for or stopped the job, no task is   *)
(* reported as running.                                                    *)
(***************************************************************************)
Settled == jpc = "joined" => \A t \in Tasks : status[t] # "running"

=============================================================================
