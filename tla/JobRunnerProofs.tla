--------------------------- MODULE JobRunnerProofs ---------------------------
(***************************************************************************)
(* Proofs about JobRunner, for any number of tasks, with or without a      *)
(* reader and other runners of the same job, whether posix_spawn may fail  *)
(* or not.                                                                 *)
(***************************************************************************)
EXTENDS JobRunner, TaskProofs

(* Where the job thread waits for the runners of its array.                 *)
Waiting == {"wait", "joining", "pop", "handler", "handlerJoin"}

(***************************************************************************)
(* Where the walk over the tasks and the array of runners are.  A task is  *)
(* in the array only once the walk has passed it, and a sequential job     *)
(* has no array before it waits.                                           *)
(***************************************************************************)
WalkInv ==
  /\ jpc \notin Waiting => k = 1
  /\ jpc \notin Waiting \cup {"scan", "set"} => runners = <<>>
  /\ jpc \in {"scan", "set"} => \A i \in 1..Len(runners) : runners[i] < curr
  /\ jpc = "set" => curr <= NTasks
  /\ jpc \in {"joining", "handlerJoin"} => k <= Len(runners)
  /\ jpc = "pop" => k > Len(runners)

SequentialInv ==
  exec = "sequential" =>
    /\ Len(runners) <= 1
    /\ jpc \in {"scan", "set"} => runners = <<>>
    /\ jpc \in {"wait", "joining", "pop"} => curr <= NTasks

(* A task that has a thread is the one task_run is starting, or in the      *)
(* array and not yet joined.                                                *)
LiveInv ==
  \A t \in Tasks : Live(t) =>
    \/ jpc = "set" /\ t = curr
    \/ \E i \in k..Len(runners) : runners[i] = t

RepeatInv ==
  /\ repeat => runMode = "repeat"
  /\ jpc = "reset" => runMode = "repeat"

(***************************************************************************)
(* What the threads record: nothing before the child is reaped, and an     *)
(* exit code 0 is never followed by a status that lets the task run again. *)
(***************************************************************************)
RecordInv ==
  \A t \in Tasks :
    /\ thr[t] \in {"spawn", "spawned", "waitpid", "handler"} => info[t] = NoInfo
    /\ thr[t] \in {"spawn", "spawned"} => status[t] # "completed"
    /\ runMode = "once" /\ info[t].exit_code = "0" =>
         status[t] \in {"completed", "running"}

(* A reader that has met completed tasks only has met tasks that are.       *)
ReadInv ==
  runMode = "once" /\ rd.seen = "completed" =>
    \A t \in Tasks : t < rd.at => info[t].exit_code = "0"

(***************************************************************************)
(* The walk, the array, the threads and the children do not depend on the  *)
(* statuses; what the statuses say does, and holds as long as no other     *)
(* runner of the job has written to them.                                  *)
(***************************************************************************)
TasksInv ==
  /\ ThreadInv
  /\ others = 0 => StatusInv /\ RecordInv

PublishedInv ==
  /\ others = 0 => ReadInv
  /\ CompletedIsTrue

IInv ==
  /\ TypeOK
  /\ TasksInv
  /\ WalkInv
  /\ SequentialInv
  /\ LiveInv
  /\ RepeatInv
  /\ PublishedInv

-----------------------------------------------------------------------------
(* Lemmas about the operators of the model.                                 *)

(***************************************************************************)
(* The order of update_status: nothing but a completed task is at the      *)
(* bottom, so the higher of two statuses is completed only if both are.    *)
(***************************************************************************)
LEMMA Ranks ==
  /\ \A s \in TaskStatus : Rank(s) \in 0..4 /\ (Rank(s) = 0 <=> s = "completed")
  /\ \A a, b \in TaskStatus :
       /\ Higher(a, b) \in TaskStatus
       /\ Higher(a, b) = "completed" <=> a = "completed" /\ b = "completed"
BY DEF TaskStatus, Rank, Higher

(***************************************************************************)
(* The status of a job is that of one of its tasks, and it is completed    *)
(* only if every one is.                                                   *)
(***************************************************************************)
LEMMA Derived ==
  ASSUME TaskTypeOK
  PROVE  /\ DerivedStatus \in TaskStatus
         /\ DerivedStatus = "completed" => \A t \in Tasks : status[t] = "completed"
<1>. DEFINE S == {status[t] : t \in Tasks}
            P(s) == \A t \in Tasks : Rank(status[t]) <= Rank(s)
<1>1. S \subseteq TaskStatus /\ S # {}
  BY TaskAssumption DEF TaskTypeOK, Tasks
<1>2. \E s \in S : P(s)
  <2>1. \A t \in Tasks : status[t] \in S
    OBVIOUS
  <2>2. \A t \in Tasks : status[t] \in TaskStatus
    BY DEF TaskTypeOK
  <2>. HIDE DEF S
  <2>3. CASE "running" \in S
    BY <2>2, <2>3 DEF TaskStatus, Rank
  <2>4. CASE "running" \notin S /\ "not_ready" \in S
    BY <2>1, <2>2, <2>4 DEF TaskStatus, Rank
  <2>5. CASE "running" \notin S /\ "not_ready" \notin S /\ "incomplete" \in S
    BY <2>1, <2>2, <2>5 DEF TaskStatus, Rank
  <2>6. CASE /\ "running" \notin S /\ "not_ready" \notin S
             /\ "incomplete" \notin S /\ "ready" \in S
    BY <2>1, <2>2, <2>6 DEF TaskStatus, Rank
  <2>7. CASE /\ "running" \notin S /\ "not_ready" \notin S
             /\ "incomplete" \notin S /\ "ready" \notin S
    <3>1. S = {"completed"}
      BY <1>1, <2>7 DEF TaskStatus
    <3>2. \A t \in Tasks : status[t] = "completed"
      BY <2>1, <3>1
    <3>. QED
      BY <3>1, <3>2, Ranks DEF TaskStatus
  <2>. QED
    BY <2>3, <2>4, <2>5, <2>6, <2>7
<1>3. DerivedStatus \in S /\ P(DerivedStatus)
  BY <1>2 DEF DerivedStatus
<1>4. ASSUME DerivedStatus = "completed", NEW t \in Tasks
      PROVE  status[t] = "completed"
  <2>1. Rank(status[t]) <= 0 /\ status[t] \in TaskStatus
    BY <1>3, <1>4 DEF Rank, TaskTypeOK
  <2>. QED
    BY <2>1, Ranks
<1>. QED
  BY <1>1, <1>3, <1>4

(***************************************************************************)
(* A counter saturates.                                                    *)
(***************************************************************************)
LEMMA Counts == \A n \in 0..MaxCount : Incr(n) \in 0..MaxCount
BY JobAssumption DEF Incr

(***************************************************************************)
(* reset_status on a task that has no thread.                              *)
(***************************************************************************)
LEMMA TaskInvReset ==
  ASSUME ThreadInv, NEW t \in Tasks, thr[t] \in NoThread,
         status' = [status EXCEPT ![t] = "ready"],
         UNCHANGED <<thr, cancel, proc, info>>
  PROVE  ThreadInv' /\ (StatusInv => StatusInv')
BY DEF ThreadInv, StatusInv, TaskTypeOK, ChildOfThread, NoThread, RunningWhileWaiting,
       ChildAwaited, InfoLeft, CompletedHas0, TaskStatus

(***************************************************************************)
(* No task has a thread when the array of runners is empty or has been     *)
(* joined to its end, except inside task_run.                              *)
(***************************************************************************)
LEMMA AllJoined ==
  ASSUME IInv, jpc # "set", k > Len(runners)
  PROVE  \A t \in Tasks : thr[t] \in NoThread
BY DEF IInv, TypeOK, LiveInv, Live

(***************************************************************************)
(* The task the walk has come to has no thread: none from this attempt,    *)
(* and none from an earlier one.                                           *)
(***************************************************************************)
LEMMA NextIsIdle ==
  ASSUME IInv, jpc = "scan", curr <= NTasks
  PROVE  curr \in Tasks /\ thr[curr] \in NoThread
<1>1. curr \in Tasks
  BY TaskAssumption DEF IInv, TypeOK, Tasks
<1>2. \A i \in 1..Len(runners) : runners[i] < curr
  BY DEF IInv, WalkInv
<1>3. k = 1
  BY DEF IInv, WalkInv, Waiting
<1>4. curr \in Nat /\ ~(curr < curr)
  BY <1>1 DEF Tasks
<1>. QED
  BY <1>1, <1>2, <1>3, <1>4 DEF IInv, LiveInv, Live

(***************************************************************************)
(* The runner the job thread joins or cancels is in its array.             *)
(***************************************************************************)
LEMMA RunnerIsTask ==
  ASSUME IInv, k <= Len(runners)
  PROVE  k \in 1..Len(runners) /\ runners[k] \in Tasks
BY DEF IInv, TypeOK

-----------------------------------------------------------------------------
(* Types.                                                                   *)

LocalTypeOK ==
  /\ jpc \in JobPC
  /\ repeat \in BOOLEAN
  /\ completion \in BOOLEAN
  /\ curr \in 1..(NTasks + 1)
  /\ runners \in Seq(Tasks)
  /\ k \in Nat \ {0}

JobTypeOK ==
  /\ LocalTypeOK
  /\ exec \in {"sequential", "parallel"}
  /\ runMode \in {"once", "repeat"}
  /\ jobStatus \in JobStatus
  /\ jcancel \in BOOLEAN
  /\ jinfo \in [attempts : 0..MaxCount, completions : 0..MaxCount,
                successes : 0..MaxCount]
  /\ ctl \in Calls
  /\ rd \in [at : 0..(NTasks + 1), seen : TaskStatus]
  /\ others \in 0..MaxWrites

(***************************************************************************)
(* The job thread keeps the types of the job's variables.                  *)
(***************************************************************************)
LEMMA TypeJobThread ==
  ASSUME IInv, JobThread
  PROVE  JobTypeOK'
<1>. USE DEF jobUnchanged
<1>1. LocalTypeOK /\ JobTypeOK
  BY DEF IInv, TypeOK, JobTypeOK, LocalTypeOK
<1>2. NTasks \in Nat \ {0}
  BY TaskAssumption
<1>3. ASSUME LocalTypeOK', UNCHANGED <<exec, runMode, jcancel, ctl, rd, others>>,
             jobStatus' \in JobStatus,
             jinfo' \in [attempts : 0..MaxCount, completions : 0..MaxCount,
                         successes : 0..MaxCount]
      PROVE  JobTypeOK'
  BY <1>1, <1>3 DEF JobTypeOK
<1>4. ASSUME LocalTypeOK', jobUnchanged, UNCHANGED <<jcancel, jobStatus, jinfo>>
      PROVE  JobTypeOK'
  BY <1>1, <1>4 DEF JobTypeOK
<1>5. <<>> \in Seq(Tasks)
  OBVIOUS
<1>6. ASSUME ThreadExit PROVE LocalTypeOK'
  <2>1. runners' \in Seq(Tasks)
    BY <1>5, <1>6, Zenon DEF ThreadExit
  <2>2. jpc' \in JobPC /\ repeat' \in BOOLEAN /\ completion' \in BOOLEAN
    BY <1>6, Zenon DEF ThreadExit, JobPC
  <2>3. curr' = 1 /\ k' = 1
    BY <1>6, Zenon DEF ThreadExit
  <2>4. curr' \in 1..(NTasks + 1) /\ k' \in Nat \ {0}
    BY <1>2, <2>3
  <2>. QED
    BY <2>1, <2>2, <2>4 DEF LocalTypeOK
<1>7. ASSUME NEW p \in JobPC, NextAttempt(p) PROVE LocalTypeOK'
  BY <1>1, <1>2, <1>6, <1>7 DEF NextAttempt, LocalTypeOK
<1>8. CASE Top
  <2>. DEFINE n == Incr(jinfo.attempts)
  <2>1. n \in 0..MaxCount
    BY <1>1, Counts DEF JobTypeOK
  <2>2. jinfo' = [jinfo EXCEPT !.attempts = n]
    BY <1>8 DEF Top
  <2>3. LocalTypeOK'
    BY <1>1, <1>2, <1>5, <1>8 DEF Top, LocalTypeOK, JobPC
  <2>. HIDE DEF n
  <2>. QED
    BY <1>1, <1>8, <2>1, <2>2, <2>3 DEF Top, JobTypeOK
<1>9. CASE Scan
  <2>1. UNCHANGED <<exec, runMode, ctl, rd, others, jobStatus, jcancel,
                    runners, jinfo>>
    BY <1>9 DEF Scan
  <2>2. LeaveLoop => jpc' \in JobPC /\ k' \in Nat \ {0}
    BY DEF LeaveLoop, JobPC
  <2>3. jpc' \in JobPC /\ k' \in Nat \ {0}
    BY <1>1, <1>9, <2>2 DEF Scan, GiveUp, LocalTypeOK, JobPC
  <2>4. repeat' \in BOOLEAN /\ completion' \in BOOLEAN
    BY <1>1, <1>9 DEF Scan, GiveUp, LocalTypeOK
  <2>5. curr' \in 1..(NTasks + 1)
    BY <1>1, <1>2, <1>9 DEF Scan, GiveUp, LocalTypeOK
  <2>. QED
    BY <1>1, <1>4, <2>1, <2>3, <2>4, <2>5 DEF LocalTypeOK
<1>10. CASE Set
  <2>1. curr <= NTasks /\ curr \in Tasks
    BY <1>1, <1>2, <1>10 DEF Set, IInv, WalkInv, LocalTypeOK, Tasks
  <2>2. runners' \in Seq(Tasks)
    <3>1. <<curr>> \in Seq(Tasks)
      BY <2>1
    <3>2. Append(runners, curr) \in Seq(Tasks)
      BY <1>1, <2>1 DEF LocalTypeOK
    <3>. QED
      BY <1>10, <3>1, <3>2, Zenon DEF Set
  <2>3. curr' \in 1..(NTasks + 1)
    BY <1>1, <1>2, <1>10, <2>1 DEF Set, LocalTypeOK
  <2>4. LocalTypeOK'
    BY <1>1, <1>10, <2>2, <2>3 DEF Set, LocalTypeOK, JobPC
  <2>. QED
    BY <1>4, <1>10, <2>4 DEF Set
<1>11. CASE Wait
  BY <1>1, <1>4, <1>11 DEF Wait, StartHandler, LocalTypeOK, JobPC
<1>12. CASE Joining
  BY <1>1, <1>4, <1>12 DEF Joining, StartHandler, LocalTypeOK, JobPC
<1>13. CASE Pop
  <2>1. CASE ThreadExit
    BY <1>4, <1>6, <1>13, <2>1 DEF Pop
  <2>2. CASE ~ThreadExit
    <3>1. exec = "sequential" => curr <= NTasks
      BY <1>13 DEF Pop, IInv, SequentialInv
    <3>2. curr' \in 1..(NTasks + 1)
      BY <1>1, <1>2, <1>13, <2>2, <3>1 DEF Pop, LocalTypeOK
    <3>3. runners' \in Seq(Tasks)
      BY <1>5, <1>13, <2>2, Zenon DEF Pop
    <3>4. LocalTypeOK'
      BY <1>1, <1>13, <2>2, <3>2, <3>3 DEF Pop, LocalTypeOK, JobPC
    <3>. QED
      BY <1>4, <1>13, <3>4 DEF Pop
  <2>. QED
    BY <2>1, <2>2
<1>14. CASE Handler
  <2>1. CASE ThreadExit
    BY <1>4, <1>6, <1>14, <2>1 DEF Handler
  <2>2. CASE ~ThreadExit
    <3>1. LocalTypeOK'
      BY <1>1, <1>14, <2>2 DEF Handler, LocalTypeOK, JobPC
    <3>. QED
      BY <1>4, <1>14, <3>1 DEF Handler
  <2>. QED
    BY <2>1, <2>2
<1>15. CASE HandlerJoin
  BY <1>1, <1>4, <1>15 DEF HandlerJoin, LocalTypeOK, JobPC
<1>16. CASE Report
  <2>1. CASE completion
    <3>. DEFINE n == Incr(jinfo.completions)
    <3>1. n \in 0..MaxCount
      BY <1>1, Counts DEF JobTypeOK
    <3>2. jinfo' = [jinfo EXCEPT !.completions = n]
      BY <1>16, <2>1 DEF Report
    <3>3. jobStatus' \in JobStatus
      BY <1>16, <2>1 DEF Report, JobStatus, Published
    <3>4. LocalTypeOK'
      BY <1>1, <1>16, <2>1 DEF Report, LocalTypeOK, JobPC
    <3>. HIDE DEF n
    <3>. QED
      BY <1>1, <1>16, <3>1, <3>2, <3>3, <3>4 DEF Report, JobTypeOK
  <2>2. CASE ~completion
    <3>1. NextAttempt("top") /\ UNCHANGED <<jinfo, jobStatus, jcancel>>
      BY <1>16, <2>2 DEF Report
    <3>2. LocalTypeOK'
      BY <1>7, <3>1 DEF JobPC
    <3>. QED
      BY <1>4, <1>16, <3>1, <3>2 DEF Report
  <2>. QED
    BY <2>1, <2>2
<1>17. CASE Success
  <2>. DEFINE n == Incr(jinfo.successes)
  <2>1. n \in 0..MaxCount
    BY <1>1, Counts DEF JobTypeOK
  <2>2. jinfo' = jinfo \/ jinfo' = [jinfo EXCEPT !.successes = n]
    BY <1>17 DEF Success
  <2>. HIDE DEF n
  <2>3. jinfo' \in [attempts : 0..MaxCount, completions : 0..MaxCount,
                    successes : 0..MaxCount]
    BY <1>1, <2>1, <2>2 DEF JobTypeOK
  <2>4. LocalTypeOK'
    BY <1>7, <1>17 DEF Success, JobPC
  <2>. QED
    BY <1>1, <1>3, <1>17, <2>3, <2>4 DEF Success, JobTypeOK
<1>18. CASE Reset
  BY <1>1, <1>2, <1>4, <1>18 DEF Reset, LocalTypeOK, JobPC
<1>. QED
  BY <1>8, <1>9, <1>10, <1>11, <1>12, <1>13, <1>14, <1>15, <1>16, <1>17, <1>18
    DEF JobThread

(***************************************************************************)
(* So do the controller, the reader and other runners; the tasks' threads  *)
(* leave them alone.                                                       *)
(***************************************************************************)
LEMMA TypeOthers ==
  ASSUME IInv, Controller \/ Reader \/ OtherRunner \/ UNCHANGED jobVars
  PROVE  JobTypeOK'
<1>1. LocalTypeOK /\ JobTypeOK
  BY DEF IInv, TypeOK, JobTypeOK, LocalTypeOK
<1>2. CASE JobRun
  <2>1. NoCounts \in [attempts : 0..MaxCount, completions : 0..MaxCount,
                      successes : 0..MaxCount]
    BY JobAssumption DEF NoCounts
  <2>2. repeat' \in BOOLEAN
    BY <1>2 DEF JobRun, JobThreadCreate
  <2>3. LocalTypeOK'
    BY <1>1, <1>2, <2>2 DEF JobRun, JobThreadCreate, LocalTypeOK, JobPC
  <2>. QED
    BY <1>1, <1>2, <2>1, <2>3 DEF JobRun, JobThreadCreate, JobTypeOK
<1>3. ASSUME NEW c \in Calls \ {"idle"}, Call(c) PROVE JobTypeOK'
  <2>1. jcancel' \in BOOLEAN
    BY <1>1, <1>3 DEF Call, JobTypeOK
  <2>2. LocalTypeOK'
    BY <1>1, <1>3 DEF Call, LocalTypeOK
  <2>. QED
    BY <1>1, <1>3, <2>1, <2>2 DEF Call, JobTypeOK
<1>4. CASE Return
  <2>1. repeat' \in BOOLEAN
    BY <1>1, <1>4 DEF Return, JobThreadCreate, LocalTypeOK
  <2>2. jpc' \in JobPC /\ jcancel' \in BOOLEAN /\ ctl' \in Calls
    BY <1>4 DEF Return, JobThreadCreate, JobPC, Calls
  <2>3. LocalTypeOK'
    BY <1>1, <1>4, <2>1, <2>2 DEF Return, LocalTypeOK
  <2>. QED
    BY <1>1, <1>4, <2>2, <2>3 DEF Return, JobTypeOK
<1>5. CASE Reader
  <2>1. UNCHANGED <<exec, runMode, jpc, jcancel, repeat, completion, curr,
                    runners, k, jinfo, ctl, others>>
    BY <1>5 DEF Reader, jobThreadVars
  <2>2. /\ rd' \in [at : 0..(NTasks + 1), seen : TaskStatus]
        /\ jobStatus' \in JobStatus
    <3>1. CASE ReadStart
      BY <1>1, <3>1, TaskAssumption DEF ReadStart, JobTypeOK, TaskStatus
    <3>2. CASE ReadTask
      <4>1. status[rd.at] \in TaskStatus
        BY <3>2 DEF ReadTask, IInv, TypeOK, TaskTypeOK
      <4>2. Higher(rd.seen, status[rd.at]) \in TaskStatus
        BY <1>1, <4>1, Ranks DEF JobTypeOK
      <4>. QED
        BY <1>1, <3>2, <4>2, TaskAssumption DEF ReadTask, JobTypeOK, Tasks
    <3>3. CASE ReadEnd
      BY <1>1, <3>3, TaskAssumption
        DEF ReadEnd, Idle, JobTypeOK, JobStatus, TaskStatus, Published
    <3>. QED
      BY <1>5, <3>1, <3>2, <3>3 DEF Reader
  <2>. QED
    BY <1>1, <2>1, <2>2 DEF JobTypeOK, LocalTypeOK
<1>6. CASE UNCHANGED jobVars
  BY <1>1, <1>6 DEF jobVars, jobThreadVars, JobTypeOK, LocalTypeOK
<1>7. CASE OtherRunner
  <2>1. others' \in 0..MaxWrites
    BY <1>1, <1>7, JobAssumption DEF OtherRunner, JobTypeOK
  <2>. QED
    BY <1>1, <1>7, <2>1 DEF OtherRunner, jobThreadVars, JobTypeOK, LocalTypeOK
<1>. QED
  BY <1>2, <1>3, <1>4, <1>5, <1>6, <1>7 DEF Controller

-----------------------------------------------------------------------------
(* What happens to the tasks.                                               *)

(* A job that runs once keeps every exit code 0 it has recorded.            *)
Kept ==
  runMode = "once" /\ others = 0 =>
    \A t \in Tasks : info[t].exit_code = "0" => info'[t].exit_code = "0"

(***************************************************************************)
(* A step of this runner: the invariant of the threads holds again, that   *)
(* of the statuses if it did; what is recorded is left to show where no    *)
(* other runner has written.                                               *)
(***************************************************************************)
LEMMA TasksSplit ==
  ASSUME IInv, UNCHANGED others,
         ThreadInv' /\ (StatusInv => StatusInv'),
         others = 0 => RecordInv' /\ Kept
  PROVE  TasksInv' /\ Kept
BY DEF IInv, TasksInv, Kept

(***************************************************************************)
(* A step that leaves the tasks alone.                                     *)
(***************************************************************************)
LEMMA TasksAlone ==
  ASSUME IInv, UNCHANGED taskVars, UNCHANGED <<runMode, others>>
  PROVE  TasksInv' /\ Kept
<1>1. ThreadInv' /\ (StatusInv => StatusInv')
  BY TaskInvStutter DEF IInv, TasksInv
<1>2. others = 0 => RecordInv' /\ Kept
  BY DEF IInv, TasksInv, RecordInv, Kept, taskVars
<1>. QED
  BY <1>1, <1>2, TasksSplit

(***************************************************************************)
(* The thread of a task and its child: the thread finds its runner's info  *)
(* empty, and what it records when it reaps the child agrees with the      *)
(* status it sets.                                                         *)
(***************************************************************************)
LEMMA TasksThread ==
  ASSUME IInv, NEW t \in Tasks, TaskThread(t) \/ ProcExit(t),
         UNCHANGED <<runMode, others>>
  PROVE  TasksInv' /\ Kept
<1>1. ThreadInv' /\ (StatusInv => StatusInv')
  BY TaskInvThread DEF IInv, TasksInv
<1>. SUFFICES ASSUME others = 0 PROVE RecordInv' /\ Kept
  BY <1>1, TasksSplit
<1>2. TaskTypeOK /\ RecordInv
  BY DEF IInv, TasksInv, TypeOK
<1>3. CASE Spawn(t)
  BY <1>2, <1>3 DEF Spawn, RecordInv, Kept, TaskTypeOK
<1>4. CASE MarkRunning(t)
  BY <1>2, <1>4 DEF MarkRunning, RecordInv, Kept, TaskTypeOK, NoInfo
<1>5. CASE Reap(t)
  <2>1. PICK e \in WaitResult(t) :
          /\ status' = [status EXCEPT ![t] = StatusAfter(e, @)]
          /\ info' = [info EXCEPT ![t] = InfoAfter(e, @)]
    BY <1>5 DEF Reap
  <2>2. e \in Exits \cup {"neither"}
    BY <2>1 DEF WaitResult, Exits
  <2>3. info[t] = NoInfo /\ thr' = [thr EXCEPT ![t] = "exited"]
    BY <1>2, <1>5 DEF Reap, RecordInv
  <2>4. InfoAfter(e, NoInfo).exit_code = "0" =>
          StatusAfter(e, status[t]) = "completed"
    BY <2>2 DEF InfoAfter, StatusAfter, NoInfo, Exits
  <2>5. RecordInv'
    BY <1>2, <2>1, <2>3, <2>4 DEF RecordInv, TaskTypeOK
  <2>6. Kept
    BY <1>2, <2>1, <2>3 DEF Kept, TaskTypeOK, NoInfo
  <2>. QED
    BY <2>5, <2>6
<1>6. CASE ActOnCancel(t)
  BY <1>2, <1>6 DEF ActOnCancel, RecordInv, Kept, TaskTypeOK
<1>7. CASE ProcExit(t)
  BY <1>2, <1>7 DEF ProcExit, RecordInv, Kept
<1>. QED
  BY <1>3, <1>4, <1>5, <1>6, <1>7 DEF TaskThread

(***************************************************************************)
(* What the job thread does to the tasks: it starts one that is ready or   *)
(* incomplete and has no thread, joins threads that have exited, and       *)
(* resets the tasks of a repeated job only when no thread is left.         *)
(***************************************************************************)
LEMMA TasksJobThread ==
  ASSUME IInv, JobThread
  PROVE  TasksInv' /\ Kept
<1>1. ThreadInv /\ TaskTypeOK /\ (others = 0 => RecordInv)
  BY DEF IInv, TasksInv, TypeOK
<1>2. UNCHANGED <<runMode, others>>
  BY DEF JobThread, Top, Scan, Set, Wait, Joining, Pop, Handler, HandlerJoin,
     Report, Success, Reset, jobUnchanged
<1>3. CASE UNCHANGED taskVars
  BY <1>2, <1>3, TasksAlone
<1>4. ASSUME NEW t \in Tasks, JoinThread(t), Joinable(t),
             UNCHANGED <<status, proc, info>>
      PROVE  TasksInv' /\ Kept
  <2>1. ThreadInv' /\ (StatusInv => StatusInv')
    BY <1>1, <1>4, TaskInvJoin
  <2>2. others = 0 => RecordInv' /\ Kept
    BY <1>1, <1>2, <1>4 DEF JoinThread, RecordInv, Kept, TaskTypeOK
  <2>. QED
    BY <1>2, <2>1, <2>2, TasksSplit
<1>5. CASE Top \/ Wait \/ Pop \/ Report \/ Success
  BY <1>3, <1>5 DEF Top, Wait, Pop, Report, Success
<1>6. CASE Scan
  <2>1. CASE curr <= NTasks /\ Runnable(curr) /\ TaskRun(curr)
    <3>1. curr \in Tasks /\ thr[curr] \in NoThread
      BY <1>6, <2>1, NextIsIdle DEF Scan
    <3>2. ThreadInv' /\ (StatusInv => StatusInv')
      BY <1>1, <2>1, <3>1, TaskInvRun
    <3>3. status[curr] \in {"ready", "incomplete"}
      BY <2>1 DEF Runnable
    <3>4. /\ thr' = [thr EXCEPT ![curr] = "spawn"]
          /\ info' = [info EXCEPT ![curr] = NoInfo]
          /\ status' = status
      BY <2>1 DEF TaskRun, CreateThread
    <3>5. others = 0 => RecordInv'
      BY <1>1, <1>2, <3>1, <3>3, <3>4 DEF RecordInv, TaskTypeOK, NoInfo
    <3>6. others = 0 => Kept
      BY <1>1, <3>1, <3>3, <3>4 DEF RecordInv, Kept, TaskTypeOK
    <3>. QED
      BY <1>2, <3>2, <3>5, <3>6, TasksSplit
  <2>2. CASE ~(curr <= NTasks /\ Runnable(curr) /\ TaskRun(curr))
    <3>1. UNCHANGED taskVars
      BY <1>6, <2>2 DEF Scan, GiveUp
    <3>. QED
      BY <1>3, <3>1
  <2>. QED
    BY <2>1, <2>2
<1>7. CASE Set
  <2>1. curr \in Tasks
    BY <1>7, TaskAssumption DEF Set, IInv, TypeOK, WalkInv, Tasks
  <2>2. ThreadInv' /\ (StatusInv => StatusInv')
    BY <1>1, <1>7, <2>1, TaskInvRunEnd DEF Set
  <2>3. others = 0 => RecordInv' /\ Kept
    BY <1>1, <1>2, <1>7, <2>1 DEF Set, TaskRunEnd, RecordInv, Kept, TaskTypeOK
  <2>. QED
    BY <1>2, <2>2, <2>3, TasksSplit
<1>8. CASE Joining
  <2>1. k <= Len(runners)
    BY <1>8 DEF Joining, IInv, WalkInv
  <2>. QED
    BY <1>3, <1>4, <1>8, <2>1, RunnerIsTask DEF Joining
<1>9. CASE HandlerJoin
  <2>1. k <= Len(runners)
    BY <1>9 DEF HandlerJoin, IInv, WalkInv
  <2>. QED
    BY <1>4, <1>9, <2>1, RunnerIsTask DEF HandlerJoin
<1>10. CASE Handler
  <2>1. CASE k <= Len(runners) /\ CancelThread(runners[k])
    <3>1. ThreadInv' /\ (StatusInv => StatusInv')
      BY <1>1, <1>10, <2>1, RunnerIsTask, TaskInvCancel DEF Handler
    <3>2. others = 0 => RecordInv' /\ Kept
      BY <1>1, <1>2, <1>10 DEF Handler, RecordInv, Kept
    <3>. QED
      BY <1>2, <3>1, <3>2, TasksSplit
  <2>2. CASE UNCHANGED cancel
    BY <1>3, <1>10, <2>2 DEF Handler, taskVars
  <2>. QED
    BY <1>10, <2>1, <2>2 DEF Handler
<1>11. CASE Reset
  <2>1. runMode = "repeat"
    BY <1>11 DEF Reset, IInv, RepeatInv
  <2>2. CASE curr <= NTasks
    <3>1. curr \in Tasks
      BY <2>2, TaskAssumption DEF IInv, TypeOK, Tasks
    <3>2. k = 1 /\ runners = <<>>
      BY <1>11 DEF Reset, IInv, WalkInv, Waiting
    <3>3. \A t \in Tasks : thr[t] \in NoThread
      BY <1>11, <3>2, AllJoined DEF Reset
    <3>4. status' = [status EXCEPT ![curr] = "ready"]
      BY <1>11, <2>2, <3>1, TaskAssumption DEF Reset, Tasks
    <3>5. ThreadInv' /\ (StatusInv => StatusInv')
      BY <1>1, <1>11, <3>1, <3>3, <3>4, TaskInvReset DEF Reset
    <3>6. others = 0 => RecordInv' /\ Kept
      BY <1>1, <1>2, <1>11, <2>1, <3>1, <3>4 DEF Reset, RecordInv, Kept, TaskTypeOK
    <3>. QED
      BY <1>2, <3>5, <3>6, TasksSplit
  <2>3. CASE UNCHANGED status
    BY <1>3, <1>11, <2>3 DEF Reset, taskVars
  <2>. QED
    BY <1>11, <2>2, <2>3 DEF Reset
<1>. QED
  BY <1>5, <1>6, <1>7, <1>8, <1>9, <1>10, <1>11 DEF JobThread

(***************************************************************************)
(* What another runner writes to a status touches no thread, no child and  *)
(* no info of this one.                                                    *)
(***************************************************************************)
LEMMA TasksOther ==
  ASSUME IInv, OtherRunner
  PROVE  TasksInv' /\ Kept
<1>1. PICK t \in Tasks, s \in TaskStatus : status' = [status EXCEPT ![t] = s]
  BY DEF OtherRunner
<1>2. others' # 0 /\ UNCHANGED <<thr, cancel, proc, info>>
  BY DEF OtherRunner, IInv, TypeOK
<1>3. ThreadInv'
  BY <1>1, <1>2 DEF IInv, TasksInv, ThreadInv, TaskTypeOK, ChildOfThread,
     ChildAwaited, InfoLeft
<1>. QED
  BY <1>2, <1>3 DEF TasksInv, Kept

-----------------------------------------------------------------------------
(* The walk over the tasks and the array of runners.                        *)

(***************************************************************************)
(* When no task has a thread and the array is empty, the job thread may    *)
(* leave, or go on at the top of an attempt or after its loop.             *)
(***************************************************************************)
LEMMA WalkEmpty ==
  ASSUME k' = 1, runners' = <<>>, jpc' \notin {"scan", "set"} \cup Waiting,
         \A t \in Tasks : thr'[t] \in NoThread
  PROVE  WalkInv' /\ SequentialInv' /\ LiveInv'
<1>1. Len(runners') = 0
  OBVIOUS
<1>2. WalkInv'
  BY DEF WalkInv, Waiting
<1>3. SequentialInv'
  BY <1>1 DEF SequentialInv, Waiting
<1>. QED
  BY <1>2, <1>3 DEF LiveInv, Live

(***************************************************************************)
(* The end of an attempt: on with a repeated job, or out.                  *)
(***************************************************************************)
LEMMA WalkNextAttempt ==
  ASSUME IInv, jpc \in {"report", "success"}, UNCHANGED taskVars,
         UNCHANGED runMode, NextAttempt("top") \/ NextAttempt("reset")
  PROVE  WalkInv' /\ SequentialInv' /\ LiveInv' /\ RepeatInv'
<1>1. k = 1 /\ runners = <<>>
  BY DEF IInv, WalkInv, Waiting
<1>2. \A t \in Tasks : thr'[t] \in NoThread
  BY <1>1, AllJoined DEF taskVars
<1>3. k' = 1 /\ runners' = <<>>
  BY <1>1, Zenon DEF NextAttempt, ThreadExit
<1>4. jpc' \in {"top", "reset", "exited"}
  BY DEF NextAttempt, ThreadExit
<1>5. RepeatInv'
  BY DEF NextAttempt, ThreadExit, IInv, RepeatInv
<1>. QED
  BY <1>2, <1>3, <1>4, <1>5, WalkEmpty DEF Waiting

(***************************************************************************)
(* Every step of the job thread: a task it starts enters the array, leaves *)
(* it only joined, and the thread ends only when all are joined.           *)
(***************************************************************************)
LEMMA WalkJobThread ==
  ASSUME IInv, JobThread
  PROVE  WalkInv' /\ SequentialInv' /\ LiveInv' /\ RepeatInv'
<1>1. /\ TypeOK /\ WalkInv /\ SequentialInv /\ LiveInv /\ RepeatInv
      /\ TaskTypeOK
  BY DEF IInv, TypeOK
<1>2. UNCHANGED <<exec, runMode, ctl, rd>>
  BY DEF JobThread, Top, Scan, Set, Wait, Joining, Pop, Handler, HandlerJoin,
     Report, Success, Reset, jobUnchanged
<1>3. curr \in Nat /\ k \in Nat /\ runners \in Seq(Tasks) /\ Len(runners) \in Nat
  BY <1>1 DEF TypeOK
<1>a. \A i \in 1..Len(runners) : runners[i] \in Nat
  <2>1. \A i \in 1..Len(runners) : runners[i] \in Tasks
    BY <1>3
  <2>2. Tasks \subseteq Nat
    BY TaskAssumption DEF Tasks
  <2>. QED
    BY <2>1, <2>2
<1>4. CASE Top
  <2>1. k = 1 /\ runners = <<>> /\ k' = 1 /\ runners' = <<>> /\ jpc' = "scan"
    BY <1>1, <1>4 DEF Top, WalkInv, Waiting
  <2>2. \A t \in Tasks : thr'[t] \in NoThread
    BY <1>4, <2>1, AllJoined DEF Top, taskVars
  <2>3. WalkInv'
    BY <2>1 DEF WalkInv, Waiting
  <2>4. SequentialInv'
    BY <2>1 DEF SequentialInv
  <2>5. RepeatInv'
    BY <1>1, <1>2, <1>4 DEF Top, RepeatInv
  <2>. QED
    BY <2>2, <2>3, <2>4, <2>5 DEF LiveInv, Live
<1>5. CASE Scan
  <2>1. runners' = runners /\ k = 1 /\ jpc = "scan"
    BY <1>1, <1>5 DEF Scan, WalkInv, Waiting
  <2>2. CASE LeaveLoop /\ UNCHANGED <<taskVars, curr>>
    <3>1. k' = 1 /\ jpc' = IF exec = "parallel" THEN "wait" ELSE "report"
      BY <2>2 DEF LeaveLoop
    <3>2. exec # "parallel" => runners = <<>>
      BY <1>1, <2>1 DEF SequentialInv, TypeOK
    <3>3. WalkInv'
      BY <2>1, <3>1, <3>2 DEF WalkInv, Waiting
    <3>4. SequentialInv'
      BY <1>1, <1>2, <2>1, <3>1 DEF SequentialInv
    <3>5. LiveInv'
      BY <1>1, <2>1, <2>2, <3>1 DEF LiveInv, Live, taskVars
    <3>6. RepeatInv'
      BY <1>1, <1>2, <1>5, <3>1 DEF Scan, GiveUp, RepeatInv
    <3>. QED
      BY <3>3, <3>4, <3>5, <3>6
  <2>3. CASE /\ curr <= NTasks /\ TaskRun(curr) /\ jpc' = "set"
             /\ UNCHANGED <<repeat, completion, curr, k>>
    <3>1. WalkInv'
      BY <1>1, <2>1, <2>3 DEF WalkInv, Waiting
    <3>2. SequentialInv'
      BY <1>1, <1>2, <2>1, <2>3 DEF SequentialInv
    <3>3. \A t \in Tasks : t # curr => thr'[t] = thr[t]
      BY <1>1, <2>3 DEF TaskRun, CreateThread, TaskTypeOK
    <3>4. LiveInv'
      BY <1>1, <2>1, <2>3, <3>3 DEF LiveInv, Live
    <3>5. RepeatInv'
      BY <1>1, <1>2, <2>3 DEF RepeatInv
    <3>. QED
      BY <3>1, <3>2, <3>4, <3>5
  <2>4. CASE /\ curr <= NTasks /\ curr' = curr + 1
             /\ UNCHANGED <<taskVars, jpc, repeat, completion, k>>
    <3>1. \A i \in 1..Len(runners) : runners[i] < curr + 1
      BY <1>1, <1>3, <1>a, <2>1 DEF WalkInv
    <3>2. WalkInv'
      BY <1>1, <2>1, <2>4, <3>1 DEF WalkInv, Waiting
    <3>3. SequentialInv'
      BY <1>1, <1>2, <2>1, <2>4 DEF SequentialInv
    <3>4. LiveInv'
      BY <1>1, <2>1, <2>4 DEF LiveInv, Live, taskVars
    <3>5. RepeatInv'
      BY <1>1, <1>2, <2>4 DEF RepeatInv
    <3>. QED
      BY <3>2, <3>3, <3>4, <3>5
  <2>. QED
    BY <1>5, <2>2, <2>3, <2>4 DEF Scan, GiveUp
<1>6. CASE Set
  <2>1. k = 1 /\ jpc = "set" /\ UNCHANGED <<thr, repeat>> /\ curr \in Tasks
    BY <1>1, <1>6, TaskAssumption
      DEF Set, TaskRunEnd, WalkInv, Waiting, TypeOK, Tasks
  <2>2. RepeatInv'
    BY <1>1, <1>2, <1>6, <2>1 DEF Set, RepeatInv
  <2>3. CASE exec = "parallel"
    <3>1. /\ runners' = Append(runners, curr) /\ curr' = curr + 1
          /\ jpc' = "scan" /\ k' = 1
      BY <1>6, <2>1, <2>3 DEF Set
    <3>2. /\ Len(runners') = Len(runners) + 1
          /\ runners'[Len(runners) + 1] = curr
          /\ \A i \in 1..Len(runners) : runners'[i] = runners[i]
      BY <1>3, <2>1, <3>1
    <3>3. \A i \in 1..Len(runners') : runners'[i] < curr'
      <4>1. \A i \in 1..Len(runners) : runners[i] \in Nat /\ runners[i] < curr
        BY <1>1, <1>a, <2>1 DEF WalkInv
      <4>2. ASSUME NEW i \in 1..Len(runners') PROVE runners'[i] < curr + 1
        <5>1. CASE i = Len(runners) + 1
          BY <1>3, <3>2, <5>1
        <5>2. CASE i # Len(runners) + 1
          BY <1>3, <3>2, <4>1, <4>2, <5>2
        <5>. QED
          BY <5>1, <5>2
      <4>. QED
        BY <3>1, <4>2
    <3>4. WalkInv'
      BY <3>1, <3>3 DEF WalkInv, Waiting
    <3>5. SequentialInv'
      BY <1>2, <2>3 DEF SequentialInv
    <3>6. LiveInv'
      <4>1. ASSUME NEW t \in Tasks, Live(t)'
            PROVE  \E i \in 1..Len(runners') : runners'[i] = t
        <5>1. t = curr \/ \E i \in 1..Len(runners) : runners[i] = t
          BY <1>1, <2>1, <4>1 DEF LiveInv, Live
        <5>. QED
          BY <1>3, <3>2, <5>1
      <4>. QED
        BY <3>1, <4>1 DEF LiveInv
    <3>. QED
      BY <2>2, <3>4, <3>5, <3>6
  <2>4. CASE exec = "sequential"
    <3>1. runners' = <<curr>> /\ curr' = curr /\ jpc' = "wait" /\ k' = 1
      BY <1>6, <2>1, <2>4 DEF Set
    <3>2. Len(runners') = 1 /\ runners'[1] = curr
      BY <3>1
    <3>3. WalkInv'
      BY <3>1 DEF WalkInv, Waiting
    <3>4. SequentialInv'
      BY <2>1, <3>1, <3>2 DEF SequentialInv, Tasks
    <3>5. LiveInv'
      <4>1. ASSUME NEW t \in Tasks, Live(t)' PROVE t = curr
        <5>1. runners = <<>>
          BY <1>1, <2>1, <2>4 DEF SequentialInv
        <5>. QED
          BY <1>1, <2>1, <4>1, <5>1 DEF LiveInv, Live
      <4>. QED
        BY <3>1, <3>2, <4>1 DEF LiveInv
    <3>. QED
      BY <2>2, <3>3, <3>4, <3>5
  <2>. QED
    BY <1>1, <2>3, <2>4 DEF TypeOK
<1>7. CASE Wait
  <2>1. /\ jpc' \in {"pop", "joining", "handler"} /\ jpc = "wait"
        /\ UNCHANGED <<taskVars, repeat, curr, runners>>
        /\ k' = k \/ k' = 1
        /\ jpc' # "handler" => k' = k
        /\ jpc' = "pop" => k' > Len(runners)
        /\ jpc' = "joining" => k' <= Len(runners)
    BY <1>7 DEF Wait, StartHandler
  <2>2. WalkInv'
    BY <2>1 DEF WalkInv, Waiting
  <2>3. SequentialInv'
    BY <1>1, <1>2, <2>1 DEF SequentialInv
  <2>4. LiveInv'
    BY <1>1, <1>3, <2>1 DEF LiveInv, Live, taskVars, TypeOK
  <2>5. RepeatInv'
    BY <1>1, <1>2, <2>1 DEF RepeatInv
  <2>. QED
    BY <2>2, <2>3, <2>4, <2>5
<1>8. ASSUME k <= Len(runners), JoinThread(runners[k]), k' = k + 1,
             UNCHANGED runners, jpc' \in {"wait", "handler"}, jpc # "set"
      PROVE  LiveInv'
  <2>1. k \in 1..Len(runners) /\ runners[k] \in Tasks
    BY <1>8, RunnerIsTask
  <2>2. /\ thr'[runners[k]] = "joined"
        /\ \A t \in Tasks : t # runners[k] => thr'[t] = thr[t]
    BY <1>1, <1>8, <2>1 DEF JoinThread, TaskTypeOK
  <2>3. ASSUME NEW t \in Tasks, Live(t)'
        PROVE  \E i \in (k + 1)..Len(runners) : runners[i] = t
    <3>1. t # runners[k] /\ Live(t)
      BY <2>2, <2>3 DEF Live, NoThread
    <3>2. PICK i \in k..Len(runners) : runners[i] = t
      BY <1>1, <1>8, <3>1 DEF LiveInv
    <3>. QED
      BY <1>3, <3>1, <3>2
  <2>. QED
    BY <1>8, <2>3 DEF LiveInv
<1>9. CASE Joining
  <2>1. k <= Len(runners) /\ jpc = "joining"
    BY <1>1, <1>9 DEF Joining, WalkInv
  <2>2. jpc' \in {"wait", "handler"} /\ UNCHANGED <<repeat, curr, runners>>
    BY <1>9 DEF Joining, StartHandler
  <2>3. WalkInv'
    BY <2>2 DEF WalkInv, Waiting
  <2>4. SequentialInv'
    BY <1>1, <1>2, <2>1, <2>2 DEF SequentialInv
  <2>5. LiveInv'
    <3>1. CASE JoinThread(runners[k]) /\ k' = k + 1
      BY <1>8, <2>1, <2>2, <3>1
    <3>2. CASE StartHandler /\ UNCHANGED taskVars
      BY <1>1, <2>1, <2>2, <3>2 DEF LiveInv, Live, taskVars, StartHandler, TypeOK
    <3>. QED
      BY <1>9, <3>1, <3>2 DEF Joining
  <2>6. RepeatInv'
    BY <1>1, <1>2, <2>2 DEF RepeatInv
  <2>. QED
    BY <2>3, <2>4, <2>5, <2>6
<1>10. CASE Pop
  <2>1. /\ k > Len(runners) /\ jpc = "pop"
        /\ UNCHANGED taskVars
    BY <1>1, <1>10 DEF Pop, WalkInv
  <2>2. \A t \in Tasks : thr'[t] \in NoThread
    BY <2>1, AllJoined DEF taskVars
  <2>3. runners' = <<>> /\ k' = 1
    BY <1>10, Zenon DEF Pop, ThreadExit
  <2>4. jpc' \in {"report", "exited"} \/ jpc' = "scan"
    BY <1>10 DEF Pop, ThreadExit
  <2>5. RepeatInv'
    BY <1>1, <1>2, <1>10 DEF Pop, ThreadExit, RepeatInv
  <2>6. CASE jpc' # "scan"
    BY <2>2, <2>3, <2>4, <2>5, <2>6, WalkEmpty DEF Waiting
  <2>7. CASE jpc' = "scan"
    <3>1. Len(runners') = 0
      BY <2>3
    <3>2. WalkInv'
      BY <2>3, <2>7, <3>1 DEF WalkInv, Waiting
    <3>3. SequentialInv'
      BY <2>3, <2>7, <3>1 DEF SequentialInv
    <3>. QED
      BY <2>2, <2>5, <3>2, <3>3 DEF LiveInv, Live
  <2>. QED
    BY <2>6, <2>7
<1>11. CASE Handler
  <2>1. jpc = "handler" /\ UNCHANGED thr
    BY <1>11 DEF Handler
  <2>2. CASE k > Len(runners) /\ ThreadExit
    <3>1. \A t \in Tasks : thr'[t] \in NoThread
      BY <2>1, <2>2, AllJoined
    <3>2. runners' = <<>> /\ k' = 1 /\ jpc' = "exited" /\ repeat' = FALSE
      BY <2>2, Zenon DEF ThreadExit
    <3>3. RepeatInv'
      BY <3>2 DEF RepeatInv
    <3>. QED
      BY <3>1, <3>2, <3>3, WalkEmpty DEF Waiting
  <2>3. CASE /\ k <= Len(runners) /\ jpc' = "handlerJoin"
             /\ UNCHANGED <<repeat, completion, curr, runners, k>>
    <3>1. WalkInv'
      BY <2>3 DEF WalkInv, Waiting
    <3>2. SequentialInv'
      BY <1>1, <1>2, <2>3 DEF SequentialInv
    <3>3. LiveInv'
      BY <1>1, <2>1, <2>3 DEF LiveInv, Live
    <3>4. RepeatInv'
      BY <1>1, <1>2, <2>3 DEF RepeatInv
    <3>. QED
      BY <3>1, <3>2, <3>3, <3>4
  <2>. QED
    BY <1>11, <2>2, <2>3 DEF Handler
<1>12. CASE HandlerJoin
  <2>1. /\ k <= Len(runners) /\ jpc = "handlerJoin" /\ jpc' = "handler"
        /\ k' = k + 1 /\ JoinThread(runners[k])
        /\ UNCHANGED <<repeat, curr, runners>>
    BY <1>1, <1>12 DEF HandlerJoin, WalkInv
  <2>2. WalkInv'
    BY <2>1 DEF WalkInv, Waiting
  <2>3. SequentialInv'
    BY <1>1, <1>2, <2>1 DEF SequentialInv
  <2>4. LiveInv'
    BY <1>8, <2>1
  <2>5. RepeatInv'
    BY <1>1, <1>2, <2>1 DEF RepeatInv
  <2>. QED
    BY <2>2, <2>3, <2>4, <2>5
<1>13. CASE Report
  <2>1. jpc = "report" /\ UNCHANGED taskVars
    BY <1>13 DEF Report
  <2>2. CASE completion
    <3>1. /\ jpc' = "success" /\ UNCHANGED <<repeat, runners, k>>
      BY <1>13, <2>2 DEF Report
    <3>2. k = 1 /\ runners = <<>>
      BY <1>1, <2>1 DEF WalkInv, Waiting
    <3>3. \A t \in Tasks : thr'[t] \in NoThread
      BY <2>1, <3>2, AllJoined DEF taskVars
    <3>4. RepeatInv'
      BY <1>1, <1>2, <3>1 DEF RepeatInv
    <3>. QED
      BY <3>1, <3>2, <3>3, <3>4, WalkEmpty DEF Waiting
  <2>3. CASE ~completion
    BY <1>2, <1>13, <2>1, <2>3, WalkNextAttempt DEF Report
  <2>. QED
    BY <2>2, <2>3
<1>14. CASE Success
  BY <1>2, <1>14, WalkNextAttempt DEF Success
<1>15. CASE Reset
  <2>1. /\ jpc = "reset" /\ jpc' \in {"reset", "top"}
        /\ UNCHANGED <<thr, repeat, runners, k>>
    BY <1>15 DEF Reset
  <2>2. k = 1 /\ runners = <<>>
    BY <1>1, <2>1 DEF WalkInv, Waiting
  <2>3. \A t \in Tasks : thr'[t] \in NoThread
    BY <2>1, <2>2, AllJoined
  <2>4. RepeatInv'
    BY <1>1, <1>2, <2>1 DEF RepeatInv
  <2>. QED
    BY <2>1, <2>2, <2>3, <2>4, WalkEmpty DEF Waiting
<1>. QED
  BY <1>4, <1>5, <1>6, <1>7, <1>9, <1>10, <1>11, <1>12, <1>13, <1>14, <1>15
    DEF JobThread

(***************************************************************************)
(* The controller creates and joins the job thread where it has no array   *)
(* and no task has a thread; the reader, other runners and the tasks' own  *)
(* steps leave the walk alone, and a task thread appears only in task_run. *)
(***************************************************************************)
LEMMA WalkOthers ==
  ASSUME IInv,
         \/ Controller
         \/ Reader
         \/ OtherRunner
         \/ \E t \in Tasks : TaskStep(t)
         \/ UNCHANGED vars
  PROVE  WalkInv' /\ SequentialInv' /\ LiveInv' /\ RepeatInv'
<1>1. /\ WalkInv /\ SequentialInv /\ LiveInv /\ RepeatInv /\ TypeOK
      /\ TaskTypeOK
  BY DEF IInv, TypeOK
<1>2. ASSUME UNCHANGED <<exec, runMode, jpc, repeat, curr, runners, k>>,
             \A t \in Tasks : thr[t] \in NoThread => thr'[t] \in NoThread
      PROVE  WalkInv' /\ SequentialInv' /\ LiveInv' /\ RepeatInv'
  <2>1. WalkInv' /\ SequentialInv' /\ RepeatInv'
    BY <1>1, <1>2 DEF WalkInv, SequentialInv, RepeatInv
  <2>. QED
    BY <1>1, <1>2, <2>1 DEF LiveInv, Live
<1>3. ASSUME jpc \in JobThreadGone,
             jpc' \in JobThreadGone \/ jpc' = "top",
             repeat' = repeat \/ repeat' = (runMode = "repeat"),
             UNCHANGED <<taskVars, runMode, runners, k>>
      PROVE  WalkInv' /\ SequentialInv' /\ LiveInv' /\ RepeatInv'
  <2>1. k = 1 /\ runners = <<>> /\ jpc # "set"
    BY <1>1, <1>3 DEF WalkInv, Waiting, JobThreadGone
  <2>2. \A t \in Tasks : thr'[t] \in NoThread
    BY <1>3, <2>1, AllJoined DEF taskVars
  <2>3. RepeatInv'
    <3>1. repeat' => runMode' = "repeat"
      <4>1. CASE repeat' = repeat
        BY <1>1, <1>3, <4>1, Zenon DEF RepeatInv
      <4>2. CASE repeat' = (runMode = "repeat")
        BY <1>3, <4>2, Zenon
      <4>. QED
        BY <1>3, <4>1, <4>2
    <3>. QED
      BY <1>3, <3>1 DEF RepeatInv, JobThreadGone
  <2>. QED
    BY <1>3, <2>1, <2>2, <2>3, WalkEmpty DEF Waiting, JobThreadGone
<1>4. CASE JobRun
  BY <1>3, <1>4 DEF JobRun, JobThreadCreate, JobThreadGone
<1>5. CASE Return
  BY <1>3, <1>5 DEF Return, JobThreadCreate, JobThreadGone
<1>6. ASSUME NEW c \in Calls \ {"idle"}, Call(c)
      PROVE  WalkInv' /\ SequentialInv' /\ LiveInv' /\ RepeatInv'
  BY <1>2, <1>6 DEF Call, taskVars
<1>7. CASE Reader
  BY <1>2, <1>7 DEF Reader, taskVars, jobThreadVars
<1>8. ASSUME NEW t \in Tasks, TaskStep(t)
      PROVE  WalkInv' /\ SequentialInv' /\ LiveInv' /\ RepeatInv'
  <2>1. \A u \in Tasks : thr[u] \in NoThread => thr'[u] \in NoThread
    BY <1>1, <1>8 DEF TaskStep, TaskThread, Spawn, MarkRunning, Reap, ActOnCancel,
       ProcExit, TaskTypeOK, NoThread
  <2>. QED
    BY <1>2, <1>8, <2>1 DEF TaskStep, jobVars, jobThreadVars
<1>9. CASE OtherRunner
  BY <1>2, <1>9 DEF OtherRunner, jobThreadVars
<1>10. CASE UNCHANGED vars
  BY <1>2, <1>10 DEF vars, taskVars, jobVars, jobThreadVars
<1>. QED
  BY <1>4, <1>5, <1>6, <1>7, <1>8, <1>9, <1>10 DEF Controller

-----------------------------------------------------------------------------
(* The published status.                                                    *)

(***************************************************************************)
(* A task that says completed has recorded the exit code 0: in a job, no   *)
(* thread is ever created for a task while it says so.                     *)
(***************************************************************************)
LEMMA CompletedRecorded ==
  ASSUME IInv, others = 0, NEW t \in Tasks, status[t] = "completed"
  PROVE  info[t].exit_code = "0"
BY DEF IInv, TasksInv, StatusInv, CompletedHas0, RecordInv

(***************************************************************************)
(* What the reader has seen, and what it or the job thread has published,  *)
(* stays true as long as no recorded exit code 0 is lost.                  *)
(***************************************************************************)
LEMMA StatusKept ==
  ASSUME IInv, Kept, UNCHANGED <<runMode, rd, others>>,
         jobStatus' = jobStatus \/ jobStatus' = Published(DerivedStatus)
  PROVE  PublishedInv'
<1>. SUFFICES ASSUME others = 0 PROVE ReadInv' /\ CompletedIsTrue'
  BY DEF PublishedInv, CompletedIsTrue
<1>1. ReadInv'
  BY DEF IInv, PublishedInv, ReadInv, Kept
<1>2. CompletedIsTrue'
  <2>1. CASE jobStatus' = jobStatus
    BY <2>1 DEF IInv, PublishedInv, CompletedIsTrue, Kept
  <2>2. CASE jobStatus' = Published(DerivedStatus)
    <3>1. DerivedStatus = "completed" => \A t \in Tasks : status[t] = "completed"
      BY Derived DEF IInv, TypeOK
    <3>. QED
      BY <2>2, <3>1, CompletedRecorded DEF Published, CompletedIsTrue, Kept
  <2>. QED
    BY <2>1, <2>2
<1>. QED
  BY <1>1, <1>2

(***************************************************************************)
(* The reader takes the tasks one by one and publishes what it has found.  *)
(***************************************************************************)
LEMMA StatusReader ==
  ASSUME IInv, Reader
  PROVE  PublishedInv'
<1>1. UNCHANGED <<info, runMode, status, others>>
  BY DEF Reader, taskVars
<1>. SUFFICES ASSUME others = 0 PROVE ReadInv' /\ CompletedIsTrue'
  BY <1>1 DEF PublishedInv, CompletedIsTrue
<1>a. ReadInv /\ CompletedIsTrue
  BY DEF IInv, PublishedInv
<1>2. Tasks \subseteq Nat
  BY TaskAssumption DEF Tasks
<1>3. CASE ReadStart
  <2>1. rd'.at = 1 /\ UNCHANGED jobStatus
    BY <1>3 DEF ReadStart
  <2>2. \A t \in Tasks : ~(t < 1)
    BY TaskAssumption DEF Tasks
  <2>. QED
    BY <1>1, <1>a, <2>1, <2>2 DEF ReadInv, CompletedIsTrue
<1>4. CASE ReadTask
  <2>1. /\ rd.at \in Tasks
        /\ rd'.at = rd.at + 1
        /\ rd'.seen = Higher(rd.seen, status[rd.at])
        /\ UNCHANGED jobStatus
    BY <1>4 DEF ReadTask
  <2>2. ASSUME runMode = "once", rd'.seen = "completed", NEW t \in Tasks, t < rd'.at
        PROVE  info'[t].exit_code = "0"
    <3>1. rd.seen \in TaskStatus /\ status[rd.at] \in TaskStatus
      BY <2>1 DEF IInv, TypeOK, TaskTypeOK
    <3>2. rd.seen = "completed" /\ status[rd.at] = "completed"
      BY <2>1, <2>2, <3>1, Ranks
    <3>3. t < rd.at \/ t = rd.at
      <4>1. t \in Nat /\ rd.at \in Nat /\ t < rd.at + 1
        BY <1>2, <2>1, <2>2
      <4>. QED
        BY <4>1
    <3>. QED
      BY <1>1, <1>a, <2>1, <2>2, <3>2, <3>3, CompletedRecorded DEF ReadInv
  <2>. QED
    BY <1>1, <1>a, <2>1, <2>2 DEF ReadInv, CompletedIsTrue
<1>5. CASE ReadEnd
  <2>1. rd.at = NTasks + 1 /\ jobStatus' = Published(rd.seen) /\ rd'.at = 0
    BY <1>5 DEF ReadEnd, Idle
  <2>2. \A t \in Tasks : t < NTasks + 1 /\ ~(t < 0)
    BY TaskAssumption DEF Tasks
  <2>. QED
    BY <1>1, <1>a, <2>1, <2>2 DEF Published, ReadInv, CompletedIsTrue
<1>. QED
  BY <1>3, <1>4, <1>5 DEF Reader

-----------------------------------------------------------------------------
(* The theorems.                                                            *)

(***************************************************************************)
(* A new job, without a runner, satisfies the invariant.                   *)
(***************************************************************************)
LEMMA InvariantInit == Init => IInv
<1>. SUFFICES ASSUME Init PROVE IInv
  OBVIOUS
<1>1. TaskInv
  BY TaskInvInit DEF Init
<1>2. NTasks \in Nat \ {0} /\ MaxCount \in Nat /\ MaxWrites \in Nat
  BY TaskAssumption, JobAssumption
<1>3. <<>> \in Seq(Tasks)
  OBVIOUS
<1>4. \A t \in Tasks : /\ thr[t] = "none" /\ status[t] = "ready"
                       /\ info[t].exit_code = "sent"
  BY DEF Init, TaskInit, NoInfo
<1>5. TypeOK
  <2>1. runners \in Seq(Tasks)
    BY <1>3, Zenon DEF Init
  <2>2. jinfo \in [attempts : 0..MaxCount, completions : 0..MaxCount,
                   successes : 0..MaxCount]
    BY <1>2 DEF Init, NoCounts
  <2>3. /\ rd \in [at : 0..(NTasks + 1), seen : TaskStatus]
        /\ others \in 0..MaxWrites
    BY <1>2 DEF Init, Idle, TaskStatus
  <2>4. /\ exec \in {"sequential", "parallel"} /\ runMode \in {"once", "repeat"}
        /\ jcancel \in BOOLEAN /\ repeat \in BOOLEAN /\ completion \in BOOLEAN
    BY DEF Init
  <2>5. jobStatus \in JobStatus /\ jpc \in JobPC /\ ctl \in Calls
    BY DEF Init, JobStatus, JobPC, Calls
  <2>6. curr = 1 /\ k = 1
    BY DEF Init
  <2>7. curr \in 1..(NTasks + 1) /\ k \in Nat \ {0}
    BY <1>2, <2>6
  <2>. QED
    BY <1>1, <2>1, <2>2, <2>3, <2>4, <2>5, <2>7 DEF TypeOK, TaskInv, ThreadInv
<1>6. WalkInv /\ SequentialInv
  BY DEF Init, WalkInv, SequentialInv, Waiting
<1>7. LiveInv /\ RepeatInv
  BY <1>4 DEF Init, LiveInv, RepeatInv, Live, NoThread
<1>8. RecordInv
  BY <1>4 DEF RecordInv
<1>9. ReadInv
  <2>1. \A t \in Tasks : ~(t < 0)
    BY <1>2 DEF Tasks
  <2>. QED
    BY <2>1 DEF Init, ReadInv, Idle
<1>10. CompletedIsTrue
  BY DEF Init, CompletedIsTrue
<1>. QED
  BY <1>1, <1>5, <1>6, <1>7, <1>8, <1>9, <1>10
    DEF IInv, TaskInv, TasksInv, PublishedInv

(***************************************************************************)
(* Every step of the job thread, the controller, the reader, other runners *)
(* and the tasks' threads and children keeps the invariant, and none loses *)
(* an exit code 0.                                                         *)
(***************************************************************************)
LEMMA InvariantStep == IInv /\ [Next]_vars => IInv' /\ Kept
<1>. SUFFICES ASSUME IInv, [Next]_vars PROVE IInv' /\ Kept
  OBVIOUS
<1>1. ASSUME TasksInv', JobTypeOK',
             WalkInv' /\ SequentialInv' /\ LiveInv' /\ RepeatInv',
             PublishedInv'
      PROVE  IInv'
  <2>1. TypeOK'
    BY <1>1 DEF TypeOK, TasksInv, ThreadInv, JobTypeOK, LocalTypeOK
  <2>. QED
    BY <1>1, <2>1 DEF IInv
<1>2. CASE JobThread
  <2>1. TasksInv' /\ Kept
    BY <1>2, TasksJobThread
  <2>2. /\ UNCHANGED <<runMode, rd, others>>
        /\ jobStatus' = jobStatus \/ jobStatus' = Published(DerivedStatus)
    BY <1>2 DEF JobThread, Top, Scan, Set, Wait, Joining, Pop, Handler,
       HandlerJoin, Report, Success, Reset, jobUnchanged
  <2>. QED
    BY <1>1, <1>2, <2>1, <2>2, TypeJobThread, WalkJobThread, StatusKept
<1>3. CASE Controller
  <2>1. UNCHANGED <<taskVars, runMode, rd, jobStatus, others>>
    BY <1>3 DEF Controller, JobRun, Call, Return
  <2>2. TasksInv' /\ Kept
    BY <2>1, TasksAlone
  <2>. QED
    BY <1>1, <1>3, <2>1, <2>2, TypeOthers, WalkOthers, StatusKept
<1>4. CASE Reader
  <2>1. TasksInv' /\ Kept
    BY <1>4, TasksAlone DEF Reader
  <2>. QED
    BY <1>1, <1>4, <2>1, TypeOthers, WalkOthers, StatusReader
<1>5. CASE OtherRunner
  <2>1. TasksInv' /\ Kept
    BY <1>5, TasksOther
  <2>2. others' # 0
    BY <1>5 DEF OtherRunner, IInv, TypeOK
  <2>3. PublishedInv'
    BY <2>2 DEF PublishedInv, CompletedIsTrue
  <2>. QED
    BY <1>1, <1>5, <2>1, <2>3, TypeOthers, WalkOthers
<1>6. ASSUME NEW t \in Tasks, TaskStep(t) PROVE IInv' /\ Kept
  <2>1. UNCHANGED jobVars /\ UNCHANGED <<runMode, rd, jobStatus, others>>
    BY <1>6 DEF TaskStep, jobVars
  <2>2. TasksInv' /\ Kept
    BY <1>6, <2>1, TasksThread DEF TaskStep
  <2>. QED
    BY <1>1, <1>6, <2>1, <2>2, TypeOthers, WalkOthers, StatusKept
<1>7. CASE UNCHANGED vars
  <2>1. UNCHANGED taskVars /\ UNCHANGED jobVars
        /\ UNCHANGED <<runMode, rd, jobStatus, others>>
    BY <1>7 DEF vars, jobVars
  <2>2. TasksInv' /\ Kept
    BY <2>1, TasksAlone
  <2>. QED
    BY <1>1, <1>7, <2>1, <2>2, TypeOthers, WalkOthers, StatusKept
<1>. QED
  BY <1>2, <1>3, <1>4, <1>5, <1>6, <1>7 DEF Next

(***************************************************************************)
(* The inductive invariant of a runner of a job, its owner, a reader and   *)
(* other runners of the job.                                               *)
(***************************************************************************)
THEOREM Invariant == Spec => []IInv
BY InvariantInit, InvariantStep, PTL DEF Spec

(***************************************************************************)
(* The variables of a job and of its runner keep their types: the walk     *)
(* stays within the list of tasks, the array holds tasks of the job.       *)
(***************************************************************************)
THEOREM TypeCorrect == Spec => []TypeOK
<1>1. IInv => TypeOK
  BY DEF IInv
<1>. QED
  BY <1>1, Invariant, PTL

(***************************************************************************)
(* Where the array of runners is empty and no task is being started, no    *)
(* task has a thread or a child.                                           *)
(***************************************************************************)
LEMMA NothingRuns ==
  ASSUME IInv, jpc \notin Waiting \cup {"scan", "set"} \/
               (k > Len(runners) /\ jpc # "set")
  PROVE  \A t \in Tasks : thr[t] \in NoThread /\ proc[t] = "none"
<1>1. jpc # "set" /\ k > Len(runners)
  BY DEF IInv, WalkInv
<1>2. \A t \in Tasks : thr[t] \in NoThread
  BY <1>1, AllJoined
<1>. QED
  BY <1>2 DEF IInv, TasksInv, ThreadInv, ChildOfThread, NoThread

(***************************************************************************)
(* When the job thread has ended, by itself or cancelled at any of its     *)
(* cancellation points, every thread that its task_run calls created is    *)
(* joined and every child is reaped, for a list of tasks of any length and *)
(* whatever other runners of the job have written to the tasks.            *)
(***************************************************************************)
THEOREM Orphans == Spec => []NoOrphans
<1>2. IInv => NoOrphans
  BY NothingRuns DEF NoOrphans, JobThreadGone, Waiting, Live
<1>. QED
  BY <1>2, Invariant, PTL

(***************************************************************************)
(* The runner of a sequential job never has two task threads or two        *)
(* children, however it is stopped, restarted and run again and whatever   *)
(* other runners of the job write to the tasks.                            *)
(***************************************************************************)
THEOREM Sequential == Spec => []OneAtATime
<1>1. ASSUME IInv PROVE OneAtATime
  <2>1. SUFFICES ASSUME exec = "sequential", NEW t \in Tasks, NEW u \in Tasks,
                        Live(t) \/ proc[t] # "none", Live(u) \/ proc[u] # "none"
                 PROVE  t = u
    BY DEF OneAtATime
  <2>2. Live(t) /\ Live(u)
    BY <1>1, <2>1 DEF IInv, TasksInv, ThreadInv, ChildOfThread, Live, NoThread
  <2>3. \/ jpc = "set" /\ t = curr
        \/ \E i \in k..Len(runners) : runners[i] = t
    BY <1>1, <2>2 DEF IInv, LiveInv
  <2>4. \/ jpc = "set" /\ u = curr
        \/ \E i \in k..Len(runners) : runners[i] = u
    BY <1>1, <2>2 DEF IInv, LiveInv
  <2>5. /\ Len(runners) \in Nat /\ Len(runners) <= 1
        /\ k \in Nat /\ k >= 1
        /\ jpc = "set" => runners = <<>>
    BY <1>1, <2>1 DEF IInv, TypeOK, SequentialInv
  <2>6. CASE jpc = "set"
    BY <2>3, <2>4, <2>5, <2>6
  <2>7. CASE jpc # "set"
    <3>1. \A i \in k..Len(runners) : i = 1
      BY <2>5
    <3>. QED
      BY <2>3, <2>4, <2>7, <3>1
  <2>. QED
    BY <2>6, <2>7
<1>2. IInv => OneAtATime
  BY <1>1
<1>. QED
  BY <1>2, Invariant, PTL

(***************************************************************************)
(* A runner creates a thread only for a task for which it has neither a    *)
(* thread nor a child, even if another runner marks the task ready while   *)
(* it runs: the walk alone, not the status, keeps it from that.            *)
(***************************************************************************)
THEOREM SingleRun == Spec => NoDoubleRun
<1>. DEFINE Step == \A t \in Tasks : thr'[t] = "spawn" /\ thr[t] # "spawn" =>
                                       ~Live(t) /\ proc[t] = "none"
<1>1. ASSUME IInv, [Next]_vars PROVE Step
  <2>1. SUFFICES ASSUME NEW t \in Tasks, thr'[t] = "spawn", thr[t] # "spawn"
                 PROVE  ~Live(t) /\ proc[t] = "none"
    OBVIOUS
  <2>2. TaskTypeOK
    BY <1>1 DEF IInv, TypeOK
  <2>3. jpc = "scan" /\ curr <= NTasks /\ t = curr
    <3>1. CASE JobThread
      <4>1. CASE Scan
        BY <2>1, <2>2, <4>1
          DEF Scan, GiveUp, TaskRun, CreateThread, TaskTypeOK, taskVars
      <4>2. CASE Joining \/ HandlerJoin
        BY <2>1, <2>2, <4>2
          DEF Joining, HandlerJoin, JoinThread, TaskTypeOK, taskVars
      <4>3. CASE \/ Top \/ Set \/ Wait \/ Pop \/ Handler
                 \/ Report \/ Success \/ Reset
        BY <2>1, <4>3 DEF Top, Set, TaskRunEnd, Wait, Pop, Handler, Report,
           Success, Reset, taskVars
      <4>. QED
        BY <3>1, <4>1, <4>2, <4>3 DEF JobThread
    <3>2. CASE Controller \/ Reader \/ OtherRunner \/ UNCHANGED vars
      BY <2>1, <3>2 DEF Controller, JobRun, Call, Return, Reader, OtherRunner,
         vars, taskVars
    <3>3. ASSUME NEW u \in Tasks, TaskStep(u) PROVE FALSE
      BY <2>1, <2>2, <3>3 DEF TaskStep, TaskThread, Spawn, MarkRunning, Reap,
         ActOnCancel, ProcExit, TaskTypeOK
    <3>. QED
      BY <1>1, <3>1, <3>2, <3>3 DEF Next
  <2>4. thr[t] \in NoThread
    BY <1>1, <2>3, NextIsIdle
  <2>. QED
    BY <1>1, <2>4 DEF IInv, TasksInv, ThreadInv, ChildOfThread, NoThread, Live
<1>2. IInv /\ [Next]_vars => [Step]_vars
  BY <1>1
<1>. QED
  BY <1>2, Invariant, PTL DEF Spec, NoDoubleRun

(***************************************************************************)
(* A job that runs once runs exactly what is left, as long as no other     *)
(* runner has written to it: it never clears the exit code 0 of a task,    *)
(* that is, never runs it again, and passes over no task without one.      *)
(***************************************************************************)
THEOREM RunsTheRest == Spec => RunsWhatIsLeft
<1>. DEFINE Passed ==
       runMode = "once" /\ others = 0 =>
         \A t \in Tasks :
           jpc = "scan" /\ jpc' = "scan" /\ curr = t /\ curr' = t + 1 =>
             info[t].exit_code = "0"
<1>1. ASSUME IInv, [Next]_vars PROVE Passed
  <2>1. SUFFICES ASSUME others = 0, NEW t \in Tasks, jpc = "scan",
                        jpc' = "scan", curr = t, curr' = t + 1
                 PROVE  status[t] = "completed"
    BY <1>1, CompletedRecorded
  <2>2. t \in Nat /\ curr' # curr
    BY <2>1 DEF Tasks
  <2>3. Scan
    BY <1>1, <2>1, <2>2 DEF Next, JobThread, Top, Set, Wait, Joining, Pop,
       Handler, HandlerJoin, Report, Success, Reset, Controller, JobRun, Call,
       Return, Reader, OtherRunner, TaskStep, vars, jobVars, jobThreadVars
  <2>4. ~Runnable(t) /\ ~Inconsistent(t)
    BY <2>1, <2>2, <2>3 DEF Scan, GiveUp, LeaveLoop
  <2>. QED
    BY <1>1, <2>4
      DEF Runnable, Inconsistent, IInv, TypeOK, TaskTypeOK, TaskStatus
<1>2. IInv /\ [Next]_vars => [Kept /\ Passed]_vars
  BY <1>1, InvariantStep
<1>3. [Kept /\ Passed]_vars =>
        [runMode = "once" /\ others = 0 =>
           \A t \in Tasks :
             /\ info[t].exit_code = "0" => info'[t].exit_code = "0"
             /\ jpc = "scan" /\ jpc' = "scan" /\ curr = t /\ curr' = t + 1 =>
                  info[t].exit_code = "0"]_vars
  BY DEF Kept
<1>. QED
  BY <1>2, <1>3, Invariant, PTL DEF Spec, RunsWhatIsLeft

(***************************************************************************)
(* The status of a job that runs once says completed only if every task    *)
(* has the exit code 0, although a reader looks at the tasks one by one,   *)
(* without a lock, while they change; as long as no other runner has       *)
(* written to the job.                                                     *)
(***************************************************************************)
THEOREM PublishedStatus == Spec => []CompletedIsTrue
<1>1. IInv => CompletedIsTrue
  BY DEF IInv, PublishedInv
<1>. QED
  BY <1>1, Invariant, PTL

-----------------------------------------------------------------------------
(* The refinement of JobExecution.                                          *)

(* The thread and the tasks as JobExecution sees them.                      *)
State ==
  CASE jpc \in {"none", "joined"} -> "free"
    [] jpc = "exited"             -> "exited"
    [] OTHER                      -> "live"

Children == {t \in Tasks : proc[t] # "none"}

(***************************************************************************)
(* The job thread works on its tasks or ends, and it ends only where all   *)
(* task threads are joined.                                                *)
(***************************************************************************)
LEMMA ThreadExecutes ==
  ASSUME IInv, JobThread
  PROVE  Execution!Work \/ Execution!End
<1>1. State = "live" /\ UNCHANGED <<jcancel, others>>
  BY DEF jobUnchanged, JobThread, State, Top, Scan, Set, Wait, Joining, Pop, Handler,
     HandlerJoin, Report, Success, Reset
<1>2. CASE State' = "live"
  BY <1>1, <1>2 DEF State, Execution!Work
<1>3. CASE State' # "live"
  <2>1. /\ ThreadExit
        /\ UNCHANGED <<status, proc, info>>
        /\ jpc \in {"report", "success"} \/ (k > Len(runners) /\ jpc # "set")
    <3>1. CASE Pop
      BY <1>3, <3>1 DEF State, Pop, taskVars, IInv, WalkInv
    <3>2. CASE Handler
      BY <1>3, <3>2 DEF State, Handler
    <3>3. CASE Report \/ Success
      BY <1>3, <3>3 DEF State, Report, Success, NextAttempt, taskVars
    <3>4. CASE Top \/ Scan \/ Set \/ Wait \/ Joining \/ HandlerJoin \/ Reset
      BY <1>3, <3>4 DEF State, Top, Scan, GiveUp, LeaveLoop, Set, Wait,
         StartHandler, Joining, HandlerJoin, Reset
    <3>. QED
      BY <3>1, <3>2, <3>3, <3>4 DEF JobThread
  <2>2. Children = {}
    BY <2>1, NothingRuns DEF Waiting, Children
  <2>3. State' = "exited"
    BY <2>1 DEF ThreadExit, State
  <2>. QED
    BY <1>1, <2>1, <2>2, <2>3 DEF State, Children, Execution!End
<1>. QED
  BY <1>2, <1>3

(***************************************************************************)
(* The owner creates, cancels and joins the thread, or does nothing to it. *)
(***************************************************************************)
LEMMA OwnerExecutes ==
  ASSUME IInv, Controller
  PROVE  Execution!Next \/ UNCHANGED Execution!vars
<1>1. UNCHANGED <<status, proc, info, others>>
  BY DEF Controller, JobRun, Call, Return, taskVars
<1>2. CASE JobRun
  BY <1>1, <1>2 DEF JobRun, JobThreadCreate, Execution!Next, Execution!Create
<1>3. ASSUME NEW c \in Calls \ {"idle"}, Call(c)
      PROVE  Execution!Cancel \/ UNCHANGED Execution!vars
  <2>1. CASE c # "wait" /\ jpc \notin JobThreadGone
    BY <1>1, <1>3, <2>1 DEF Call, JobThreadGone, Execution!Cancel
  <2>2. CASE c = "wait" \/ jpc \in JobThreadGone
    <3>1. jcancel \in BOOLEAN /\ jpc' = jpc
      BY <1>3 DEF IInv, TypeOK, Call
    <3>2. jcancel' = jcancel
      BY <1>3, <2>2, <3>1, Zenon DEF Call
    <3>. QED
      BY <1>1, <3>1, <3>2 DEF Execution!vars
  <2>. QED
    BY <2>1, <2>2
<1>4. CASE Return
  <2>1. CASE ctl = "restart" /\ JobThreadCreate
    BY <1>1, <1>4, <2>1
      DEF Return, JobThreadCreate, Execution!Next, Execution!Create
  <2>2. CASE ~(ctl = "restart" /\ JobThreadCreate)
    BY <1>1, <1>4, <2>2 DEF Return, Execution!Next, Execution!Join
  <2>. QED
    BY <2>1, <2>2
<1>. QED
  BY <1>2, <1>3, <1>4 DEF Controller, Execution!Next

(***************************************************************************)
(* A task thread or a child that does something does so under a living job *)
(* thread.                                                                 *)
(***************************************************************************)
LEMMA TaskExecutes ==
  ASSUME IInv, NEW t \in Tasks, TaskStep(t)
  PROVE  Execution!Work
<1>1. thr[t] \notin NoThread \/ proc[t] # "none"
  BY DEF TaskStep, TaskThread, Spawn, MarkRunning, Reap, ActOnCancel, ProcExit,
     NoThread
<1>2. jpc \notin JobThreadGone
  BY <1>1, NothingRuns DEF JobThreadGone, Waiting
<1>3. UNCHANGED <<jpc, jcancel, others>>
  BY DEF TaskStep, jobVars, jobThreadVars
<1>. QED
  BY <1>2, <1>3 DEF JobThreadGone, Execution!Work

(***************************************************************************)
(* Whatever its tasks do and wherever it is cancelled, a runner is one     *)
(* thread to its owner: it changes nothing about the tasks once that       *)
(* thread has ended, and ends without children.  Module Worker relies on   *)
(* this when it frees and replaces jobs.                                   *)
(***************************************************************************)
THEOREM Implements == Spec => ImplementsExecution
<1>1. Init => State = "free" /\ jcancel = FALSE /\ Children = {} /\ others = 0
  BY DEF Init, TaskInit, State, Children
<1>2. ASSUME IInv, [Next]_vars
      PROVE  Execution!Next \/ UNCHANGED Execution!vars
  <2>1. CASE JobThread
    BY <1>2, <2>1, ThreadExecutes DEF Execution!Next
  <2>2. CASE Controller
    BY <1>2, <2>2, OwnerExecutes
  <2>3. CASE Reader \/ UNCHANGED vars
    BY <2>3 DEF Reader, vars, taskVars, jobVars, jobThreadVars, Execution!vars
  <2>4. ASSUME NEW t \in Tasks, TaskStep(t) PROVE Execution!Work
    BY <1>2, <2>4, TaskExecutes
  <2>5. CASE OtherRunner
    BY <2>5 DEF OtherRunner, jobThreadVars, Execution!Next, Execution!Other
  <2>. QED
    BY <1>2, <2>1, <2>2, <2>3, <2>4, <2>5 DEF Next, Execution!Next
<1>3. IInv /\ [Next]_vars => [Execution!Next]_Execution!vars
  BY <1>2
<1>. QED
  BY <1>1, <1>3, Invariant, PTL
    DEF Spec, ImplementsExecution, Execution!Spec, State, Children
=============================================================================
