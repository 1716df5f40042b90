------------------------------- MODULE Worker -------------------------------
(***************************************************************************)
(* The worker, its engine and the requests that act on them                *)
(* (src/src/pyoneer/worker.c, engine.c and pyoneer.c, the dispatch of      *)
(* src/src/api/client.c, the end of main in src/src/main.c).               *)
(*                                                                         *)
(* API threads, the workers of the thread pool, execute one request at a   *)
(* time.  The commands run, assign and get_status hold the worker's mutex; *)
(* the signals start, stop and restart take no lock.  When the server has  *)
(* ended, the main thread destroys the worker.                             *)
(*                                                                         *)
(* A job is its status as the worker tells it apart and the memory it      *)
(* lives in; the job threads of module JobRunner are reduced to what       *)
(* JobExecution says of them: only a live one changes the job, and it may  *)
(* leave any status at any time; it ends by itself or not at all, and ends *)
(* when it is cancelled.  Thread handles are modelled because the code     *)
(* keeps them after the join, when the C library may give them to the next *)
(* thread.  Memory is reused as well.                                      *)
(***************************************************************************)
CONSTANTS Api,             \* the threads that execute requests
          Main,            \* the main thread
          Jobs, NoJob,     \* memory for jobs
          Runners, NoRunner,   \* memory for job runners
          Tids, NoTid,     \* thread handles
          NoOne,           \* nobody holds the mutex
          SerialSignals    \* do clients send a signal only on its own?

ASSUME WorkerAssumption ==
  /\ Main \notin Api
  /\ NoJob \notin Jobs
  /\ NoRunner \notin Runners
  /\ NoOne \notin Api
  /\ NoTid \notin Tids
  /\ SerialSignals \in BOOLEAN

VARIABLES lock,      \* Worker.lock
          wjob,      \* Worker.job
          wstatus,   \* Worker.status
          engine,    \* Engine.job_runner
          job,       \* each job: "free" memory, or its status
          runner,    \* each runner: whether in use, its job and its handle
          thread,    \* each handle: the state of its thread and its runner
          req,       \* the call each thread is in
          closing,   \* the server has ended, the worker is being destroyed
          crashed    \* the process has died

vars == <<lock, wjob, wstatus, engine, job, runner, thread, req, closing,
          crashed>>

Commands == {"run", "assign", "get_status"}
Signals == {"start", "stop", "restart"}

(* JOB_NOT_READY, JOB_COMPLETED and JOB_INCOMPLETE are all "ended".         *)
JobStatus == {"ready", "running", "ended"}
WorkerStatus == {"not_assigned", "assigned", "not_working", "working"}

Actors == Api \cup {Main}

(***************************************************************************)
(* "status", "switch": update_status and the test of its result.  "cancel",*)
(* "join", "joined": in job_runner_stop, also as the first half of         *)
(* job_runner_restart and of job_runner_destroy.  "refuse", "null": a      *)
(* command returns NULL.  "free": worker_destroy frees the job.            *)
(***************************************************************************)
PC == {"idle", "lock", "status", "switch", "job_run", "cancel", "join",
       "joined", "replace", "unlock", "refuse", "null", "free", "gone"}

(* "quit": worker_destroy before it has freed the job; "destroy": after.    *)
Calls == Commands \cup Signals \cup {"none", "quit", "destroy"}

NoCall == [cmd |-> "none", pc |-> "idle", job |-> NoJob, new |-> NoRunner,
           old |-> NoRunner]

NoThread == [state |-> "free", cancel |-> FALSE, runner |-> NoRunner]

TypeOK ==
  /\ lock \in Api \cup {NoOne}
  /\ wjob \in Jobs \cup {NoJob}
  /\ wstatus \in WorkerStatus
  /\ engine \in Runners \cup {NoRunner}
  /\ job \in [Jobs -> JobStatus \cup {"free"}]
  /\ runner \in [Runners -> [used : BOOLEAN, job : Jobs \cup {NoJob},
                             tid : Tids \cup {NoTid}]]
  /\ thread \in [Tids -> [state : {"free", "live", "exited"},
                          cancel : BOOLEAN, runner : Runners \cup {NoRunner}]]
  /\ req \in [Actors -> [cmd : Calls, pc : PC, job : Jobs \cup {NoJob},
                         new : Runners \cup {NoRunner},
                         old : Runners \cup {NoRunner}]]
  /\ closing \in BOOLEAN
  /\ crashed \in BOOLEAN

Init ==
  /\ lock = NoOne
  /\ wjob = NoJob
  /\ wstatus = "not_assigned"
  /\ engine = NoRunner
  /\ job = [j \in Jobs |-> "free"]
  /\ runner = [r \in Runners |-> [used |-> FALSE, job |-> NoJob, tid |-> NoTid]]
  /\ thread = [t \in Tids |-> NoThread]
  /\ req = [a \in Actors |-> NoCall]
  /\ closing = FALSE
  /\ crashed = FALSE

At(a, p) == req[a].pc = p /\ ~crashed

Goto(a, p) == req' = [req EXCEPT ![a].pc = p]

Done(a) == req' = [req EXCEPT ![a] = NoCall]

-----------------------------------------------------------------------------
(* Requests.                                                                *)

(* The signals are not synchronised with anything.                          *)
MayRun(a, c) ==
  SerialSignals =>
    \A b \in Api \ {a} :
      req[b].pc = "idle" \/ (c \in Commands /\ req[b].cmd \in Commands)

(* run and assign bring a job of their own, decoded from the request.       *)
Request(a, c) ==
  /\ At(a, "idle")
  /\ ~closing
  /\ MayRun(a, c)
  /\ \E j \in Jobs \cup {NoJob} :
       /\ IF c \in {"run", "assign"}
          THEN j # NoJob /\ job[j] = "free" /\ job' = [job EXCEPT ![j] = "ready"]
          ELSE j = NoJob /\ UNCHANGED job
       /\ req' = [req EXCEPT ![a] =
            [NoCall EXCEPT !.cmd = c, !.job = j,
               !.pc = IF c \in Commands THEN "lock" ELSE "status"]]
  /\ UNCHANGED <<lock, wjob, wstatus, engine, runner, thread, closing, crashed>>

Lock(a) ==
  /\ At(a, "lock")
  /\ lock = NoOne
  /\ lock' = a
  /\ Goto(a, "status")
  /\ UNCHANGED <<wjob, wstatus, engine, job, runner, thread, closing, crashed>>

(* Fault: the status of the job is taken for that of the worker.            *)
FaultStatusOf(j) == IF j = NoJob THEN "not_assigned" ELSE job[j]

StatusOf(j) ==
  CASE j = NoJob          -> "not_assigned"
    [] job[j] = "ready"   -> "assigned"
    [] job[j] = "running" -> "working"
    [] OTHER              -> "not_working"

UpdateStatus(a) ==
  /\ At(a, "status")
  /\ wstatus' = StatusOf(wjob)
  /\ Goto(a, IF req[a].cmd = "get_status" THEN "unlock" ELSE "switch")
  /\ UNCHANGED <<lock, wjob, engine, job, runner, thread, closing, crashed>>

(* What each call does in each status of the worker.                        *)
Branch(c, s) ==
  CASE c \in {"run", "assign"} /\ s = "working"         -> "refuse"
    [] c = "run"                                        -> "job_run"
    [] c = "assign"                                     -> "replace"
    [] c \in {"start", "restart"} /\ s = "assigned"     -> "job_run"
    [] c = "start" /\ s = "not_working"                 -> "cancel"
    [] c = "restart" /\ s \in {"working", "not_working"} -> "cancel"
    [] c = "stop" /\ s = "working"                      -> "cancel"
    [] OTHER                                            -> "idle"

Switch(a) ==
  /\ At(a, "switch")
  /\ LET p == Branch(req[a].cmd, wstatus)
     IN  \/ p = "idle" /\ Done(a)
         \/ /\ p # "idle"
            /\ req' = [req EXCEPT ![a].pc = p,
                 ![a].job = IF req[a].cmd \in Signals THEN wjob ELSE @]
  /\ UNCHANGED <<lock, wjob, wstatus, engine, job, runner, thread, closing,
                 crashed>>

-----------------------------------------------------------------------------
(* The engine and the control of its job runner.                            *)

(* pthread_create gives out any handle that is not in use.                  *)
StartThread(r, t) ==
  /\ thread[t].state = "free"
  /\ thread' = [thread EXCEPT ![t] =
                  [state |-> "live", cancel |-> FALSE, runner |-> r]]

(* Fault: engine_run does not destroy the old runner.                       *)
FaultJobRun(a) ==
  /\ At(a, "job_run")
  /\ \E r \in Runners, t \in Tids :
       /\ ~runner[r].used
       /\ runner' = [runner EXCEPT ![r] =
                       [used |-> TRUE, job |-> req[a].job, tid |-> t]]
       /\ StartThread(r, t)
       /\ req' = [req EXCEPT ![a].pc = "joined", ![a].new = r]
  /\ UNCHANGED <<lock, wjob, wstatus, engine, job, closing, crashed>>

(***************************************************************************)
(* engine_run calls job_run: a new runner and its thread, or a failure,    *)
(* for want of memory or threads or because the job has no task.           *)
(***************************************************************************)
JobRun(a) ==
  /\ At(a, "job_run")
  /\ \/ \E r \in Runners, t \in Tids :
          /\ ~runner[r].used
          /\ runner' = [runner EXCEPT ![r] =
                          [used |-> TRUE, job |-> req[a].job, tid |-> t]]
          /\ StartThread(r, t)
          /\ req' = [req EXCEPT ![a].pc = "cancel", ![a].new = r]
     \/ /\ IF req[a].cmd = "run" THEN Goto(a, "refuse") ELSE Done(a)
        /\ UNCHANGED <<runner, thread>>
  /\ UNCHANGED <<lock, wjob, wstatus, engine, job, closing, crashed>>

(* Fault: the job thread is not cancelled.                                  *)
FaultCancel(a) ==
  /\ At(a, "cancel")
  /\ \/ engine = NoRunner /\ Goto(a, "joined")
     \/ /\ engine # NoRunner
        /\ req' = [req EXCEPT ![a].pc = "join", ![a].old = engine]
  /\ UNCHANGED <<lock, wjob, wstatus, engine, job, runner, thread, closing,
                 crashed>>

(* pthread_cancel in job_runner_stop, on whatever the handle stands for.    *)
Cancel(a) ==
  /\ At(a, "cancel")
  /\ \/ /\ engine = NoRunner
        /\ Goto(a, "joined")
        /\ UNCHANGED thread
     \/ /\ engine # NoRunner
        /\ req' = [req EXCEPT ![a].pc = "join", ![a].old = engine]
        /\ LET t == runner[engine].tid
           IN  thread' = [thread EXCEPT ![t].cancel = (thread[t].state = "live")]
  /\ UNCHANGED <<lock, wjob, wstatus, engine, job, runner, closing, crashed>>

(* Fault: the job thread is not joined.                                     *)
FaultJoin(a) ==
  /\ At(a, "join")
  /\ Goto(a, "joined")
  /\ UNCHANGED <<lock, wjob, wstatus, engine, job, runner, thread, closing,
                 crashed>>

(* pthread_join: at once on a handle that stands for no thread.             *)
Join(a) ==
  /\ At(a, "join")
  /\ LET t == runner[req[a].old].tid
     IN  /\ thread[t].state # "live"
         /\ thread' = [thread EXCEPT ![t] = NoThread]
  /\ Goto(a, "joined")
  /\ UNCHANGED <<lock, wjob, wstatus, engine, job, runner, closing, crashed>>

(* The end of engine_run: the old runner is freed, the new one is set.      *)
EngineRunEnd(a) ==
  /\ At(a, "joined")
  /\ req[a].new # NoRunner
  /\ runner' = IF req[a].old = NoRunner THEN runner
               ELSE [runner EXCEPT ![req[a].old].used = FALSE]
  /\ engine' = req[a].new
  /\ IF req[a].cmd = "run"
     THEN req' = [req EXCEPT ![a].pc = "replace", ![a].new = NoRunner,
                             ![a].old = NoRunner]
     ELSE Done(a)
  /\ UNCHANGED <<lock, wjob, wstatus, job, thread, closing, crashed>>

(* The end of engine_restart: a thread for the same runner, if there is     *)
(* one; a failure to create it is ignored.                                  *)
RestartEnd(a) ==
  /\ At(a, "joined")
  /\ req[a].cmd \in {"start", "restart"}
  /\ req[a].new = NoRunner
  /\ \/ /\ req[a].old # NoRunner
        /\ \E t \in Tids :
             /\ StartThread(req[a].old, t)
             /\ runner' = [runner EXCEPT ![req[a].old].tid = t]
     \/ UNCHANGED <<thread, runner>>
  /\ Done(a)
  /\ UNCHANGED <<lock, wjob, wstatus, engine, job, closing, crashed>>

StopEnd(a) ==
  /\ At(a, "joined")
  /\ req[a].cmd = "stop"
  /\ Done(a)
  /\ UNCHANGED <<lock, wjob, wstatus, engine, job, runner, thread, closing,
                 crashed>>

-----------------------------------------------------------------------------
(* The end of a command.                                                    *)

(* Fault: the old job is not freed.                                         *)
FaultReplace(a) ==
  /\ At(a, "replace")
  /\ wjob' = req[a].job
  /\ wstatus' = StatusOf(req[a].job)
  /\ Goto(a, "unlock")
  /\ UNCHANGED <<lock, engine, job, runner, thread, closing, crashed>>

(* worker_run and worker_assign free the old job, take the new one and      *)
(* look at its status.                                                      *)
Replace(a) ==
  /\ At(a, "replace")
  /\ job' = IF wjob = NoJob THEN job ELSE [job EXCEPT ![wjob] = "free"]
  /\ wjob' = req[a].job
  /\ wstatus' = StatusOf(req[a].job)
  /\ Goto(a, "unlock")
  /\ UNCHANGED <<lock, engine, runner, thread, closing, crashed>>

Unlock(a) ==
  /\ At(a, "unlock")
  /\ lock' = NoOne
  /\ Done(a)
  /\ UNCHANGED <<wjob, wstatus, engine, job, runner, thread, closing, crashed>>

Refuse(a) ==
  /\ At(a, "refuse")
  /\ lock' = NoOne
  /\ Goto(a, "null")
  /\ UNCHANGED <<wjob, wstatus, engine, job, runner, thread, closing, crashed>>

(* client_handle_fd pushes the result into its answer, and json_object_push *)
(* reads through the NULL.                                                  *)
Crash(a) ==
  /\ At(a, "null")
  /\ crashed' = TRUE
  /\ UNCHANGED <<lock, wjob, wstatus, engine, job, runner, thread, req, closing>>

-----------------------------------------------------------------------------
(* worker_destroy, once the thread pool is gone.  It goes by the status     *)
(* that was last looked at, and knows no case for WORKER_ASSIGNED.          *)

DestroyBegin ==
  /\ At(Main, "idle")
  /\ \A a \in Api : req[a].pc = "idle"
  /\ ~closing
  /\ closing' = TRUE
  /\ req' = [req EXCEPT
       ![Main].cmd = IF wstatus = "not_assigned" THEN "destroy" ELSE "quit",
       ![Main].pc = CASE wstatus \in {"working", "not_assigned"} -> "cancel"
                      [] wstatus = "not_working"                 -> "free"
                      [] wstatus = "assigned"                    -> "gone"]
  /\ UNCHANGED <<lock, wjob, wstatus, engine, job, runner, thread, crashed>>

(* engine_stop has ended: job_destroy follows, or free(engine).             *)
DestroyStopEnd ==
  /\ At(Main, "joined")
  /\ Goto(Main, IF req[Main].cmd = "quit" THEN "free" ELSE "gone")
  /\ UNCHANGED <<lock, wjob, wstatus, engine, job, runner, thread, closing,
                 crashed>>

(* job_destroy; engine_destroy stops the engine, again or for the first     *)
(* time.                                                                    *)
DestroyJob ==
  /\ At(Main, "free")
  /\ job' = IF wjob = NoJob THEN job ELSE [job EXCEPT ![wjob] = "free"]
  /\ req' = [req EXCEPT ![Main].cmd = "destroy", ![Main].pc = "cancel"]
  /\ UNCHANGED <<lock, wjob, wstatus, engine, runner, thread, closing, crashed>>

-----------------------------------------------------------------------------
(* The job threads, as JobExecution has them.  What a request notices of    *)
(* one is the status of its job, which any write of a task's status may     *)
(* change.                                                                  *)

JobStep(t) ==
  /\ thread[t].state = "live"
  /\ ~crashed
  /\ LET j == runner[thread[t].runner].job
     IN  /\ j # NoJob
         /\ job[j] # "free"
         /\ \E s \in JobStatus : job' = [job EXCEPT ![j] = s]
  /\ UNCHANGED <<lock, wjob, wstatus, engine, runner, thread, req, closing,
                 crashed>>

JobEnd(t) ==
  /\ thread[t].state = "live"
  /\ ~crashed
  /\ thread' = [thread EXCEPT ![t].state = "exited"]
  /\ UNCHANGED <<lock, wjob, wstatus, engine, job, runner, req, closing, crashed>>

-----------------------------------------------------------------------------

(* The steps of a call that has begun.                                      *)
Work(a) ==
  \/ UpdateStatus(a) \/ Switch(a) \/ JobRun(a) \/ Cancel(a) \/ Join(a)
  \/ EngineRunEnd(a) \/ RestartEnd(a) \/ StopEnd(a) \/ Replace(a)
  \/ Unlock(a) \/ Refuse(a) \/ Crash(a)

Ended == (crashed \/ req[Main].pc = "gone") /\ UNCHANGED vars

Next ==
  \/ \E a \in Api : (\E c \in Commands \cup Signals : Request(a, c)) \/ Lock(a)
  \/ \E a \in Api : Work(a)
  \/ DestroyBegin \/ DestroyStopEnd \/ DestroyJob \/ Cancel(Main) \/ Join(Main)
  \/ \E t \in Tids : JobStep(t) \/ JobEnd(t)
  \/ Ended

Spec == Init /\ [][Next]_vars

(***************************************************************************)
(* Every thread is scheduled and gets the mutex eventually if it is free   *)
(* again and again; a job thread that is cancelled ends, as module         *)
(* JobRunner shows (StopReturns).  A job nobody cancels may run for ever.  *)
(***************************************************************************)
Fairness ==
  /\ \A a \in Api : WF_vars(Work(a)) /\ SF_vars(Lock(a))
  /\ WF_vars(DestroyStopEnd \/ DestroyJob \/ Cancel(Main) \/ Join(Main))
  /\ \A t \in Tids : WF_vars(thread[t].cancel /\ JobEnd(t))

FairSpec == Spec /\ Fairness

-----------------------------------------------------------------------------
(* Properties.                                                              *)

Quiet == ~closing /\ \A a \in Api : req[a].pc = "idle"

(***************************************************************************)
(* Between requests at most one job thread exists, and it is the one the   *)
(* engine can stop: none is lost by run, start or restart, although they   *)
(* create the new thread before they stop the old one, and although the    *)
(* handle of a joined thread may belong to the new one.                    *)
(***************************************************************************)
OneJobThread ==
  Quiet => \A t \in Tids : thread[t].state # "free" =>
                             engine # NoRunner /\ runner[engine].tid = t

(***************************************************************************)
(* Jobs and runners are freed when they are replaced: each one in use is   *)
(* the worker's, the engine's, or in the hands of a request.               *)
(***************************************************************************)
NothingLost ==
  ~closing =>
    /\ \A j \in Jobs : job[j] # "free" =>
         j = wjob \/ \E a \in Api : req[a].job = j
    /\ \A r \in Runners : runner[r].used =>
         r = engine \/ \E a \in Api : req[a].new = r

(***************************************************************************)
(* worker_run frees the old job only when no thread can execute it any     *)
(* more: engine_run has stopped the old runner by then.                    *)
(***************************************************************************)
RunFreesIdleJob ==
  [][\A a \in Api :
       Replace(a) /\ req[a].cmd = "run" /\ wjob # NoJob =>
         \A t \in Tids :
           thread[t].state = "live" => runner[thread[t].runner].job # wjob]_vars

(***************************************************************************)
(* Every request comes to an end: the mutex is released on every path of   *)
(* every command, and no join waits for a job that was not cancelled.      *)
(***************************************************************************)
RequestEnds ==
  \A a \in Actors :
    (req[a].pc # "idle") ~> (req[a].pc \in {"idle", "gone"} \/ crashed)

(***************************************************************************)
(* worker_destroy stops any running work.                                  *)
(***************************************************************************)
DestroyStopsWork ==
  req[Main].pc = "gone" => \A t \in Tids : thread[t].state # "live"
=============================================================================
