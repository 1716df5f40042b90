---------------------------- MODULE WorkerProofs ----------------------------
(***************************************************************************)
(* Proofs about Worker, for any number of API threads, jobs, runners and   *)
(* thread handles.                                                         *)
(***************************************************************************)
EXTENDS Worker, TLAPS

(* Between the mutex and its release; for a signal, all along.              *)
Inside(a) == req[a].pc \notin {"idle", "lock", "null"}

(* In job_runner_stop, or before or after it in engine_run.                 *)
InEngine(a) == req[a].pc \in {"cancel", "join", "joined"}

(* The call brings a job of its own.                                        *)
BringsJob(a) == req[a].cmd \in {"run", "assign"}

(***************************************************************************)
(* A command inside holds the mutex, a signal is alone.                    *)
(***************************************************************************)
ExclusionInv ==
  \A a \in Api :
    /\ req[a].pc = "idle" => req[a] = NoCall
    /\ req[a].pc # "idle" => req[a].cmd \in Commands \cup Signals
    /\ req[a].pc \in {"lock", "null"} => req[a].cmd \in Commands
    /\ Inside(a) /\ req[a].cmd \in Commands => lock = a
    /\ req[a].cmd \in Signals => \A b \in Api \ {a} : req[b].pc = "idle"

(* Which call can be where.                                                 *)
PlaceInv ==
  \A a \in Api :
    /\ req[a].pc = "switch" => req[a].cmd # "get_status"
    /\ req[a].pc = "job_run" => req[a].cmd \in {"run", "start", "restart"}
    /\ req[a].pc \in {"replace", "refuse", "null"} => BringsJob(a)
    /\ req[a].pc = "unlock" => req[a].cmd \in Commands
    /\ req[a].pc # "free" /\ req[a].pc # "gone"
    /\ InEngine(a) => req[a].cmd \in {"run", "start", "restart", "stop"}

(***************************************************************************)
(* What a call knows of the engine: the runner it is stopping is the       *)
(* engine's, the one it has created is another one.                        *)
(***************************************************************************)
EngineInv ==
  /\ engine # NoRunner => runner[engine].used /\ runner[engine].tid \in Tids
  /\ \A a \in Api :
       /\ ~InEngine(a) => req[a].new = NoRunner
       /\ req[a].pc \in {"join", "joined"} => req[a].old = engine
       /\ req[a].pc \notin {"join", "joined"} => req[a].old = NoRunner
       /\ req[a].pc = "join" => engine # NoRunner
       /\ InEngine(a) => (req[a].cmd = "run" => req[a].new # NoRunner)
                         /\ (req[a].cmd = "stop" => req[a].new = NoRunner)
       /\ req[a].new # NoRunner => /\ req[a].new # engine
                                   /\ runner[req[a].new].used
                                   /\ runner[req[a].new].tid \in Tids
                                   /\ runner[req[a].new].job = req[a].job
       /\ req[a].pc = "replace" /\ req[a].cmd = "run" =>
            engine # NoRunner /\ runner[engine].job = req[a].job

RunnerInv ==
  \A r \in Runners : runner[r].used =>
    r = engine \/ \E a \in Api : req[a].new = r

(* Jobs are distinct objects until the worker takes them.                   *)
JobInv ==
  /\ wjob # NoJob => job[wjob] # "free"
  /\ \A a \in Api :
       /\ BringsJob(a) => /\ req[a].job \in Jobs
                          /\ job[req[a].job] # "free"
                          /\ req[a].pc = "unlock" <=> req[a].job = wjob
       /\ req[a].cmd = "get_status" => req[a].job = NoJob
       /\ req[a].cmd \in Signals => req[a].job \in {NoJob, wjob}
       /\ \A b \in Api \ {a} :
            BringsJob(a) /\ BringsJob(b) => req[a].job # req[b].job
  /\ \A j \in Jobs : job[j] # "free" =>
       j = wjob \/ \E a \in Api : req[a].job = j

(* Thread t belongs to runner r, and r can stop it.                         *)
Owns(r, t) == r # NoRunner /\ runner[r].tid = t /\ thread[t].runner = r

(* Every thread that was not joined belongs to the engine's runner, as long *)
(* as nobody has joined that one's, or to the runner a call has created.    *)
ThreadInv ==
  \A t \in Tids : thread[t].state # "free" =>
    \/ Owns(engine, t) /\ \A a \in Api : req[a].pc # "joined"
    \/ \E a \in Api : Owns(req[a].new, t)

SerialInv ==
  /\ ExclusionInv
  /\ PlaceInv
  /\ EngineInv
  /\ RunnerInv
  /\ JobInv
  /\ ThreadInv

IInv ==
  /\ TypeOK
  /\ ~closing => req[Main] = NoCall
  /\ closing => \A a \in Api : req[a].pc = "idle"
  /\ SerialSignals /\ ~closing => SerialInv

-----------------------------------------------------------------------------
(* Type correctness, whatever clients send at whatever time.                *)

CallType ==
  [cmd : Calls, pc : PC, job : Jobs \cup {NoJob},
   new : Runners \cup {NoRunner}, old : Runners \cup {NoRunner}]

(***************************************************************************)
(* The next call of a thread is well-typed if its fields are.              *)
(***************************************************************************)
LEMMA CallTypes ==
  ASSUME TypeOK, NEW a \in Actors
  PROVE  /\ req[a] \in CallType
         /\ req \in [Actors -> CallType]
         /\ NoCall \in CallType
         /\ \A p \in PC : Goto(a, p) => req' \in [Actors -> CallType]
         /\ Done(a) => req' \in [Actors -> CallType]
<1>1. req \in [Actors -> CallType]
  BY DEF TypeOK, CallType
<1>2. NoCall \in CallType
  BY DEF NoCall, CallType, Calls, PC
<1>3. ASSUME NEW p \in PC, Goto(a, p) PROVE req' \in [Actors -> CallType]
  BY <1>1, <1>3 DEF Goto, CallType
<1>. QED
  BY <1>1, <1>2, <1>3 DEF Done

(***************************************************************************)
(* job_runner_stop, which requests, signals and worker_destroy share.      *)
(***************************************************************************)
LEMMA TypeStepStop ==
  ASSUME TypeOK, NEW a \in Actors, Cancel(a) \/ Join(a)
  PROVE  TypeOK'
<1>. DEFINE ThreadType == [state : {"free", "live", "exited"}, cancel : BOOLEAN,
                           runner : Runners \cup {NoRunner}]
<1>1. req[a] \in CallType /\ req \in [Actors -> CallType]
  BY CallTypes
<1>2. thread \in [Tids -> ThreadType]
  BY DEF TypeOK
<1>3. ASSUME thread' \in [Tids -> ThreadType], req' \in [Actors -> CallType],
             UNCHANGED <<lock, wjob, wstatus, engine, job, runner, closing,
                         crashed>>
      PROVE  TypeOK'
  BY <1>3 DEF TypeOK, CallType
<1>4. CASE Cancel(a)
  <2>1. CASE engine = NoRunner /\ Goto(a, "joined") /\ UNCHANGED thread
    <3>1. req' \in [Actors -> CallType]
      BY <2>1, CallTypes DEF PC
    <3>. QED
      BY <1>2, <1>3, <1>4, <2>1, <3>1 DEF Cancel
  <2>2. CASE engine # NoRunner
    <3>1. req' = [req EXCEPT ![a] = [req[a] EXCEPT !.pc = "join", !.old = engine]]
      BY <1>4, <2>2 DEF Cancel
    <3>2. [req[a] EXCEPT !.pc = "join", !.old = engine] \in CallType
      BY <1>1 DEF CallType, PC, TypeOK
    <3>3. req' \in [Actors -> CallType]
      BY <1>1, <3>1, <3>2
    <3>4. thread' \in [Tids -> ThreadType]
      <4>. DEFINE t == runner[engine].tid
                  b == (thread[t].state = "live")
      <4>1. thread' = [thread EXCEPT ![t].cancel = b]
        BY <1>4, <2>2 DEF Cancel
      <4>2. b \in BOOLEAN
        OBVIOUS
      <4>. HIDE DEF t, b
      <4>. QED
        BY <1>2, <4>1, <4>2
    <3>. QED
      BY <1>3, <1>4, <3>3, <3>4 DEF Cancel
  <2>. QED
    BY <1>4, <2>1, <2>2 DEF Cancel
<1>5. CASE Join(a)
  <2>1. req' \in [Actors -> CallType]
    BY <1>5, CallTypes DEF Join, PC
  <2>2. thread' \in [Tids -> ThreadType]
    BY <1>2, <1>5 DEF Join, NoThread
  <2>. QED
    BY <1>3, <1>5, <2>1, <2>2 DEF Join
<1>. QED
  BY <1>4, <1>5

(***************************************************************************)
(* Every step of a request, of worker_destroy and of the job threads keeps *)
(* the type invariant.                                                     *)
(***************************************************************************)
LEMMA TypeStep ==
  ASSUME TypeOK, [Next]_vars
  PROVE  TypeOK'
<1>. DEFINE Rest == /\ lock' \in Api \cup {NoOne}
                    /\ wjob' \in Jobs \cup {NoJob}
                    /\ wstatus' \in WorkerStatus
                    /\ engine' \in Runners \cup {NoRunner}
                    /\ job' \in [Jobs -> JobStatus \cup {"free"}]
                    /\ closing' \in BOOLEAN
                    /\ crashed' \in BOOLEAN
            RunnerType == [used : BOOLEAN, job : Jobs \cup {NoJob},
                           tid : Tids \cup {NoTid}]
            ThreadType == [state : {"free", "live", "exited"}, cancel : BOOLEAN,
                           runner : Runners \cup {NoRunner}]
<1>1. /\ lock \in Api \cup {NoOne}
      /\ wjob \in Jobs \cup {NoJob}
      /\ wstatus \in WorkerStatus
      /\ engine \in Runners \cup {NoRunner}
      /\ job \in [Jobs -> JobStatus \cup {"free"}]
      /\ runner \in [Runners -> RunnerType]
      /\ thread \in [Tids -> ThreadType]
      /\ req \in [Actors -> CallType]
      /\ closing \in BOOLEAN
      /\ crashed \in BOOLEAN
  BY DEF TypeOK, CallType
<1>2. ASSUME Rest, runner' \in [Runners -> RunnerType],
             thread' \in [Tids -> ThreadType], req' \in [Actors -> CallType]
      PROVE  TypeOK'
  BY <1>2 DEF TypeOK, CallType
<1>3. \A j : StatusOf(j) \in WorkerStatus
  BY DEF StatusOf, WorkerStatus
<1>. HIDE DEF RunnerType, ThreadType
<1>4. ASSUME NEW r \in Runners, NEW t \in Tids, StartThread(r, t)
      PROVE  thread' \in [Tids -> ThreadType]
  BY <1>1, <1>4 DEF StartThread, ThreadType
<1>5. ASSUME NEW a \in Api, NEW c \in Commands \cup Signals, Request(a, c)
      PROVE  TypeOK'
  <2>1. PICK j \in Jobs \cup {NoJob} :
          /\ IF c \in {"run", "assign"}
             THEN j # NoJob /\ job[j] = "free" /\ job' = [job EXCEPT ![j] = "ready"]
             ELSE j = NoJob /\ UNCHANGED job
          /\ req' = [req EXCEPT ![a] =
               [NoCall EXCEPT !.cmd = c, !.job = j,
                  !.pc = IF c \in Commands THEN "lock" ELSE "status"]]
    BY <1>5 DEF Request
  <2>2. job' \in [Jobs -> JobStatus \cup {"free"}]
    BY <1>1, <2>1 DEF JobStatus
  <2>3. [NoCall EXCEPT !.cmd = c, !.job = j,
           !.pc = IF c \in Commands THEN "lock" ELSE "status"] \in CallType
    BY DEF NoCall, CallType, Calls, PC
  <2>4. req' \in [Actors -> CallType]
    BY <1>1, <2>1, <2>3
  <2>. QED
    BY <1>1, <1>2, <1>5, <2>2, <2>4 DEF Request
<1>6. ASSUME NEW a \in Api, Lock(a) PROVE TypeOK'
  <2>1. req' \in [Actors -> CallType]
    BY <1>6, CallTypes DEF Lock, Actors, PC
  <2>. QED
    BY <1>1, <1>2, <1>6, <2>1 DEF Lock
<1>7. ASSUME NEW a \in Api, Work(a) PROVE TypeOK'
  <2>a. a \in Actors
    BY DEF Actors
  <2>b. req[a] \in CallType
    BY <1>1, <2>a
  <2>1. CASE UpdateStatus(a)
    <3>1. req' \in [Actors -> CallType]
      BY <2>1, <2>a, CallTypes DEF UpdateStatus, PC
    <3>. QED
      BY <1>1, <1>2, <1>3, <2>1, <3>1 DEF UpdateStatus
  <2>2. CASE Switch(a)
    <3>1. CASE Done(a)
      BY <1>1, <1>2, <2>2, <2>a, <3>1, CallTypes DEF Switch
    <3>2. CASE ~Done(a)
      <4>. DEFINE p == Branch(req[a].cmd, wstatus)
                  j == IF req[a].cmd \in Signals THEN wjob ELSE req[a].job
      <4>1. req' = [req EXCEPT ![a] = [req[a] EXCEPT !.pc = p, !.job = j]]
        BY <2>2, <3>2 DEF Switch
      <4>2. p \in PC
        BY DEF Branch, PC
      <4>3. j \in Jobs \cup {NoJob}
        BY <1>1, <2>b DEF CallType
      <4>. HIDE DEF p, j
      <4>4. [req[a] EXCEPT !.pc = p, !.job = j] \in CallType
        BY <2>b, <4>2, <4>3 DEF CallType
      <4>5. req' \in [Actors -> CallType]
        BY <1>1, <4>1, <4>4
      <4>. QED
        BY <1>1, <1>2, <2>2, <4>5 DEF Switch
    <3>. QED
      BY <3>1, <3>2
  <2>3. CASE JobRun(a)
    <3>1. ASSUME NEW r \in Runners, NEW t \in Tids, StartThread(r, t),
                 runner' = [runner EXCEPT ![r] =
                              [used |-> TRUE, job |-> req[a].job, tid |-> t]],
                 req' = [req EXCEPT ![a].pc = "cancel", ![a].new = r]
          PROVE  TypeOK'
      <4>1. runner' \in [Runners -> RunnerType]
        BY <1>1, <2>b, <3>1 DEF RunnerType, CallType
      <4>2. req' = [req EXCEPT ![a] = [req[a] EXCEPT !.pc = "cancel", !.new = r]]
        BY <3>1
      <4>3. [req[a] EXCEPT !.pc = "cancel", !.new = r] \in CallType
        BY <2>b DEF CallType, PC
      <4>. QED
        BY <1>1, <1>2, <1>4, <2>3, <3>1, <4>1, <4>2, <4>3 DEF JobRun
    <3>2. CASE /\ IF req[a].cmd = "run" THEN Goto(a, "refuse") ELSE Done(a)
               /\ UNCHANGED <<runner, thread>>
      <4>1. req' \in [Actors -> CallType]
        BY <2>a, <3>2, CallTypes DEF PC
      <4>. QED
        BY <1>1, <1>2, <2>3, <3>2, <4>1 DEF JobRun
    <3>. QED
      BY <2>3, <3>1, <3>2 DEF JobRun
  <2>4. CASE EngineRunEnd(a)
    <3>1. runner' \in [Runners -> RunnerType]
      BY <1>1, <2>4 DEF EngineRunEnd, RunnerType
    <3>2. engine' \in Runners \cup {NoRunner}
      BY <2>4, <2>b DEF EngineRunEnd, CallType
    <3>3. CASE Done(a)
      BY <1>1, <1>2, <2>4, <2>a, <3>1, <3>2, <3>3, CallTypes DEF EngineRunEnd
    <3>4. CASE ~Done(a)
      <4>. DEFINE q == [req[a] EXCEPT !.pc = "replace", !.new = NoRunner,
                                      !.old = NoRunner]
      <4>1. req' = [req EXCEPT ![a] = q]
        BY <2>4, <3>4 DEF EngineRunEnd
      <4>2. q \in CallType
        BY <2>b DEF CallType, PC
      <4>3. req' \in [Actors -> CallType]
        BY <1>1, <4>1, <4>2
      <4>. QED
        BY <1>1, <1>2, <2>4, <3>1, <3>2, <4>3 DEF EngineRunEnd
    <3>. QED
      BY <3>3, <3>4
  <2>5. CASE RestartEnd(a)
    <3>1. thread' \in [Tids -> ThreadType]
      BY <1>1, <1>4, <2>5, <2>b DEF RestartEnd, CallType
    <3>2. runner' \in [Runners -> RunnerType]
      <4>1. CASE runner' = runner
        BY <1>1, <4>1
      <4>2. ASSUME NEW t \in Tids,
                   runner' = [runner EXCEPT ![req[a].old].tid = t]
            PROVE  runner' \in [Runners -> RunnerType]
        BY <1>1, <4>2 DEF RunnerType
      <4>. QED
        BY <2>5, <4>1, <4>2 DEF RestartEnd
    <3>. QED
      BY <1>1, <1>2, <2>5, <2>a, <3>1, <3>2, CallTypes DEF RestartEnd
  <2>6. CASE StopEnd(a) \/ Unlock(a)
    BY <1>1, <1>2, <2>6, <2>a, CallTypes DEF StopEnd, Unlock
  <2>7. CASE Replace(a)
    <3>1. req' \in [Actors -> CallType]
      BY <2>7, <2>a, CallTypes DEF Replace, PC
    <3>2. wjob' \in Jobs \cup {NoJob} /\ wstatus' \in WorkerStatus
      BY <1>3, <2>7, <2>b DEF Replace, CallType
    <3>3. job' \in [Jobs -> JobStatus \cup {"free"}]
      BY <1>1, <2>7 DEF Replace
    <3>. QED
      BY <1>1, <1>2, <2>7, <3>1, <3>2, <3>3 DEF Replace
  <2>8. CASE Refuse(a)
    <3>1. req' \in [Actors -> CallType]
      BY <2>8, <2>a, CallTypes DEF Refuse, PC
    <3>. QED
      BY <1>1, <1>2, <2>8, <3>1 DEF Refuse
  <2>9. CASE Crash(a)
    BY <1>1, <1>2, <2>9 DEF Crash
  <2>10. CASE Cancel(a) \/ Join(a)
    BY <2>10, <2>a, TypeStepStop
  <2>. QED
    BY <1>7, <2>1, <2>2, <2>3, <2>4, <2>5, <2>6, <2>7, <2>8, <2>9, <2>10 DEF Work
<1>8. CASE Cancel(Main) \/ Join(Main)
  BY <1>8, TypeStepStop DEF Actors
<1>9. CASE DestroyBegin
  <2>. DEFINE c == IF wstatus = "not_assigned" THEN "destroy" ELSE "quit"
              p == CASE wstatus \in {"working", "not_assigned"} -> "cancel"
                     [] wstatus = "not_working"                 -> "free"
                     [] wstatus = "assigned"                    -> "gone"
              q == [req[Main] EXCEPT !.cmd = c, !.pc = p]
  <2>a. c \in Calls /\ p \in PC
    BY <1>1 DEF Calls, PC, WorkerStatus
  <2>b. req' = [req EXCEPT ![Main].cmd = c, ![Main].pc = p]
    BY <1>9, Zenon DEF DestroyBegin
  <2>. HIDE DEF c, p
  <2>1. req' = [req EXCEPT ![Main] = q]
    BY <2>b
  <2>2. q \in CallType
    BY <1>1, <2>a DEF CallType, Actors
  <2>3. req' \in [Actors -> CallType]
    BY <1>1, <2>1, <2>2
  <2>. QED
    BY <1>1, <1>2, <1>9, <2>3 DEF DestroyBegin
<1>10. CASE DestroyStopEnd
  <2>1. req' \in [Actors -> CallType]
    BY <1>10, CallTypes DEF DestroyStopEnd, PC, Actors
  <2>. QED
    BY <1>1, <1>2, <1>10, <2>1 DEF DestroyStopEnd
<1>11. CASE DestroyJob
  <2>. DEFINE q == [req[Main] EXCEPT !.cmd = "destroy", !.pc = "cancel"]
  <2>1. req' = [req EXCEPT ![Main] = q]
    BY <1>11 DEF DestroyJob
  <2>2. q \in CallType
    BY <1>1 DEF CallType, Calls, PC, Actors
  <2>3. req' \in [Actors -> CallType]
    BY <1>1, <2>1, <2>2
  <2>4. job' \in [Jobs -> JobStatus \cup {"free"}]
    BY <1>1, <1>11 DEF DestroyJob
  <2>. QED
    BY <1>1, <1>2, <1>11, <2>3, <2>4 DEF DestroyJob
<1>12. ASSUME NEW t \in Tids, JobStep(t) PROVE TypeOK'
  <2>1. job' \in [Jobs -> JobStatus \cup {"free"}]
    BY <1>1, <1>12 DEF JobStep
  <2>. QED
    BY <1>1, <1>2, <1>12, <2>1 DEF JobStep
<1>13. ASSUME NEW t \in Tids, JobEnd(t) PROVE TypeOK'
  <2>1. thread' \in [Tids -> ThreadType]
    BY <1>1, <1>13 DEF JobEnd, ThreadType
  <2>. QED
    BY <1>1, <1>2, <1>13, <2>1 DEF JobEnd
<1>14. CASE UNCHANGED vars
  BY <1>1, <1>2, <1>14 DEF vars
<1>. QED
  BY <1>5, <1>6, <1>7, <1>8, <1>9, <1>10, <1>11, <1>12, <1>13, <1>14
    DEF Next, Ended

-----------------------------------------------------------------------------
(* Calls one at a time.                                                     *)

(***************************************************************************)
(* Goto changes where one call stands and nothing else of any call.        *)
(***************************************************************************)
LEMMA GotoFields ==
  ASSUME TypeOK, NEW a \in Api, NEW p \in PC, Goto(a, p)
  PROVE  /\ req'[a].pc = p
         /\ req'[a].cmd = req[a].cmd
         /\ req'[a].job = req[a].job
         /\ req'[a].new = req[a].new
         /\ req'[a].old = req[a].old
         /\ \A b \in Actors : b # a => req'[b] = req[b]
<1>1. a \in Actors
  BY DEF Actors
<1>2. req[a] \in CallType /\ req \in [Actors -> CallType]
  BY <1>1, CallTypes
<1>. QED
  BY <1>1, <1>2 DEF Goto, CallType

(***************************************************************************)
(* Done leaves nothing of a call.                                          *)
(***************************************************************************)
LEMMA DoneFields ==
  ASSUME TypeOK, NEW a \in Api, Done(a)
  PROVE  /\ req'[a] = NoCall
         /\ req'[a].pc = "idle"
         /\ req'[a].cmd = "none"
         /\ req'[a].job = NoJob
         /\ req'[a].new = NoRunner
         /\ req'[a].old = NoRunner
         /\ \A b \in Actors : b # a => req'[b] = req[b]
<1>1. a \in Actors
  BY DEF Actors
<1>2. req \in [Actors -> CallType]
  BY <1>1, CallTypes
<1>. QED
  BY <1>1, <1>2 DEF Done, NoCall

(***************************************************************************)
(* While one call is inside, every other one is idle, waits for the mutex  *)
(* or has been refused: it holds no runner, and is no signal.              *)
(***************************************************************************)
LEMMA Alone ==
  ASSUME TypeOK, SerialInv, NEW a \in Api, Inside(a), NEW b \in Api, b # a
  PROVE  /\ req[b].pc \in {"idle", "lock", "null"}
         /\ ~InEngine(b)
         /\ req[b].new = NoRunner
         /\ req[b].old = NoRunner
         /\ req[b].cmd \notin Signals
<1>1. req[a].pc # "idle"
  BY DEF Inside
<1>2. req[b].cmd \notin Signals
  BY <1>1 DEF SerialInv, ExclusionInv
<1>3. req[b].pc \in {"idle", "lock", "null"}
  <2>1. CASE req[a].cmd \in Signals
    BY <2>1 DEF SerialInv, ExclusionInv
  <2>2. CASE req[a].cmd \in Commands
    BY <2>2, <1>2 DEF SerialInv, ExclusionInv, Inside
  <2>. QED
    BY <1>1, <2>1, <2>2 DEF SerialInv, ExclusionInv
<1>4. ~InEngine(b)
  BY <1>3 DEF InEngine
<1>. QED
  BY <1>2, <1>3, <1>4 DEF SerialInv, EngineInv

(***************************************************************************)
(* A request arrives, if nothing forbids it while clients send signals     *)
(* only on their own; run and assign bring a new job.                      *)
(***************************************************************************)
LEMMA SerialRequest ==
  ASSUME TypeOK, SerialInv, SerialSignals,
         NEW a \in Api, NEW c \in Commands \cup Signals, Request(a, c)
  PROVE  SerialInv'
<1>. DEFINE p == IF c \in Commands THEN "lock" ELSE "status"
<1>1. PICK j \in Jobs \cup {NoJob} :
        /\ IF c \in {"run", "assign"}
           THEN j # NoJob /\ job[j] = "free" /\ job' = [job EXCEPT ![j] = "ready"]
           ELSE j = NoJob /\ UNCHANGED job
        /\ req' = [req EXCEPT ![a] =
             [NoCall EXCEPT !.cmd = c, !.job = j, !.pc = p]]
  BY DEF Request
<1>2. p \in {"lock", "status"} /\ (p = "lock" <=> c \in Commands)
  OBVIOUS
<1>. HIDE DEF p
<1>3. /\ req'[a].pc = p
      /\ req'[a].cmd = c
      /\ req'[a].job = j
      /\ req'[a].new = NoRunner
      /\ req'[a].old = NoRunner
      /\ \A b \in Actors : b # a => req'[b] = req[b]
  <2>1. a \in Actors
    BY DEF Actors
  <2>. QED
    BY <1>1, <2>1, CallTypes DEF NoCall
<1>4. /\ req[a].pc = "idle"
      /\ UNCHANGED <<lock, wjob, wstatus, engine, runner, thread>>
      /\ \A b \in Api \ {a} :
           req[b].pc = "idle" \/ (c \in Commands /\ req[b].cmd \in Commands)
  BY DEF Request, At, MayRun
<1>5. req[a] = NoCall /\ req[a].cmd = "none" /\ req[a].job = NoJob
      /\ req[a].new = NoRunner
  BY <1>4 DEF SerialInv, ExclusionInv, NoCall
<1>6. \A b \in Api : b # a => req'[b] = req[b]
  BY <1>3 DEF Actors
<1>7. Commands \cap Signals = {}
  BY DEF Commands, Signals
<1>8. ExclusionInv'
  <2>1. \A b \in Api : req[b].pc = "idle" => req[b].cmd = "none"
    BY DEF SerialInv, ExclusionInv, NoCall
  <2>2. "none" \notin Signals
    BY DEF Signals
  <2>3. \A b \in Api \ {a} : req[b].cmd \notin Signals
    BY <1>4, <1>7, <2>1, <2>2
  <2>4. p # "idle"
    BY <1>2
  <2>5. ASSUME NEW b \in Api \ {a}
        PROVE  /\ req'[b].pc = "idle" => req'[b] = NoCall
               /\ req'[b].pc # "idle" => req'[b].cmd \in Commands \cup Signals
               /\ req'[b].pc \in {"lock", "null"} => req'[b].cmd \in Commands
               /\ Inside(b)' /\ req'[b].cmd \in Commands => lock' = b
               /\ req'[b].cmd \notin Signals
    BY <1>4, <1>6, <2>3 DEF SerialInv, ExclusionInv, Inside
  <2>6. /\ req'[a].pc # "idle"
        /\ req'[a].cmd \in Commands \cup Signals
        /\ req'[a].pc \in {"lock", "null"} => req'[a].cmd \in Commands
        /\ ~(Inside(a)' /\ req'[a].cmd \in Commands)
        /\ req'[a].cmd \in Signals => \A b \in Api \ {a} : req'[b].pc = "idle"
    BY <1>2, <1>3, <1>4, <1>6, <1>7 DEF Inside
  <2>. QED
    BY <2>5, <2>6 DEF ExclusionInv
<1>9. PlaceInv'
  BY <1>2, <1>3, <1>6 DEF SerialInv, PlaceInv, BringsJob, InEngine
<1>10. EngineInv'
  BY <1>2, <1>3, <1>4, <1>6 DEF SerialInv, EngineInv, InEngine
<1>11. RunnerInv'
  BY <1>3, <1>4, <1>5, <1>6, WorkerAssumption DEF SerialInv, RunnerInv
<1>12. JobInv'
  <2>1. CASE c \in {"run", "assign"}
    <3>1. j \in Jobs /\ job[j] = "free" /\ job' = [job EXCEPT ![j] = "ready"]
      BY <1>1, <2>1
    <3>2. job'[j] = "ready" /\ \A k \in Jobs : k # j => job'[k] = job[k]
      BY <3>1 DEF TypeOK
    <3>3. wjob \in Jobs \cup {NoJob}
      BY DEF TypeOK
    <3>4. \A b \in Api \ {a} : BringsJob(b) => req[b].job \in Jobs /\ req[b].job # j
      BY <3>1 DEF SerialInv, JobInv
    <3>5. wjob # j
      BY <3>1, WorkerAssumption DEF SerialInv, JobInv
    <3>6. wjob' # NoJob => job'[wjob'] # "free"
      BY <1>4, <3>2, <3>3, <3>5 DEF SerialInv, JobInv
    <3>7. /\ BringsJob(a)'
          /\ req'[a].job \in Jobs /\ job'[req'[a].job] # "free"
          /\ req'[a].pc # "unlock" /\ req'[a].job # wjob'
          /\ req'[a].cmd # "get_status" /\ req'[a].cmd \notin Signals
      BY <1>2, <1>3, <1>4, <2>1, <3>1, <3>2, <3>5 DEF BringsJob, Signals
    <3>8. ASSUME NEW b \in Api \ {a}
          PROVE  /\ BringsJob(b)' =>
                      /\ req'[b].job \in Jobs
                      /\ job'[req'[b].job] # "free"
                      /\ req'[b].pc = "unlock" <=> req'[b].job = wjob'
                 /\ req'[b].cmd = "get_status" => req'[b].job = NoJob
                 /\ req'[b].cmd \in Signals => req'[b].job \in {NoJob, wjob'}
                 /\ BringsJob(b)' => req'[b].job # req'[a].job
                 /\ \A d \in Api \ {a, b} :
                      BringsJob(b)' /\ BringsJob(d)' => req'[b].job # req'[d].job
      BY <1>3, <1>4, <1>6, <3>2, <3>4 DEF SerialInv, JobInv, BringsJob
    <3>9. \A k \in Jobs : job'[k] # "free" =>
            k = wjob' \/ \E b \in Api : req'[b].job = k
      BY <1>3, <1>4, <1>5, <1>6, <3>1, <3>2, WorkerAssumption DEF SerialInv, JobInv
    <3>. QED
      BY <3>6, <3>7, <3>8, <3>9 DEF JobInv
  <2>2. CASE c \notin {"run", "assign"}
    BY <1>1, <1>3, <1>4, <1>5, <1>6, <2>2, WorkerAssumption
      DEF SerialInv, JobInv, BringsJob
  <2>. QED
    BY <2>1, <2>2
<1>13. ThreadInv'
  BY <1>2, <1>3, <1>4, <1>5, <1>6 DEF SerialInv, ThreadInv, Owns
<1>. QED
  BY <1>8, <1>9, <1>10, <1>11, <1>12, <1>13 DEF SerialInv

(***************************************************************************)
(* A call takes the mutex: no command is inside any more, and no signal is *)
(* on its way.                                                             *)
(***************************************************************************)
LEMMA SerialLock ==
  ASSUME TypeOK, SerialInv, NEW a \in Api, Lock(a)
  PROVE  SerialInv'
<1>1. /\ req'[a].pc = "status"
      /\ req'[a].cmd = req[a].cmd
      /\ req'[a].job = req[a].job
      /\ req'[a].new = req[a].new
      /\ req'[a].old = req[a].old
      /\ \A b \in Api : b # a => req'[b] = req[b]
  BY GotoFields DEF Lock, PC, Actors
<1>2. /\ req[a].pc = "lock"
      /\ lock = NoOne
      /\ lock' = a
      /\ UNCHANGED <<wjob, wstatus, engine, job, runner, thread>>
  BY DEF Lock, At
<1>3. req[a].cmd \in Commands /\ req[a].cmd \notin Signals
  BY <1>2 DEF SerialInv, ExclusionInv, Commands, Signals
<1>4. ExclusionInv'
  BY <1>1, <1>2, <1>3, WorkerAssumption DEF SerialInv, ExclusionInv, Inside
<1>5. PlaceInv'
  BY <1>1 DEF SerialInv, PlaceInv, BringsJob, InEngine
<1>6. EngineInv'
  BY <1>1, <1>2 DEF SerialInv, EngineInv, InEngine
<1>7. RunnerInv'
  BY <1>1, <1>2 DEF SerialInv, RunnerInv
<1>8. JobInv'
  BY <1>1, <1>2 DEF SerialInv, JobInv, BringsJob
<1>9. ThreadInv'
  BY <1>1, <1>2 DEF SerialInv, ThreadInv, Owns
<1>. QED
  BY <1>4, <1>5, <1>6, <1>7, <1>8, <1>9 DEF SerialInv

(***************************************************************************)
(* A call that is inside and stays inside keeps the others out.            *)
(***************************************************************************)
LEMMA ExclusionOn ==
  ASSUME TypeOK, SerialInv, NEW a \in Api, Inside(a), Inside(a)',
         req'[a].cmd = req[a].cmd, lock' = lock,
         \A b \in Api : b # a => req'[b] = req[b]
  PROVE  ExclusionInv'
BY Alone DEF SerialInv, ExclusionInv, Inside

(***************************************************************************)
(* A call that ends lets the others in: a command has released the mutex.  *)
(***************************************************************************)
LEMMA ExclusionDone ==
  ASSUME TypeOK, SerialInv, NEW a \in Api, Inside(a), Done(a),
         lock' = lock \/ req[a].cmd \in Commands
  PROVE  ExclusionInv'
<1>1. /\ req'[a] = NoCall
      /\ req'[a].pc = "idle"
      /\ req'[a].cmd \notin Signals
      /\ \A b \in Api : b # a => req'[b] = req[b]
  BY DoneFields DEF Actors, Signals
<1>2. \A b \in Api : b # a => ~Inside(b)' /\ req'[b].cmd \notin Signals
  BY <1>1, Alone DEF Inside
<1>. QED
  BY <1>1, <1>2 DEF SerialInv, ExclusionInv, Inside

(***************************************************************************)
(* A call that ends, when it holds neither a runner nor a job of its own,  *)
(* leaves the rest as it is.                                               *)
(***************************************************************************)
LEMMA SerialDone ==
  ASSUME TypeOK, SerialInv, NEW a \in Api, Inside(a), Done(a),
         req[a].new = NoRunner, req[a].job \in {NoJob, wjob},
         lock' = lock \/ req[a].cmd \in Commands,
         UNCHANGED <<wjob, engine, job, runner, thread>>
  PROVE  SerialInv'
<1>1. /\ req'[a].pc = "idle"
      /\ req'[a].cmd = "none"
      /\ req'[a].job = NoJob
      /\ req'[a].new = NoRunner
      /\ req'[a].old = NoRunner
      /\ \A b \in Api : b # a => req'[b] = req[b]
  BY DoneFields DEF Actors
<1>2. ExclusionInv'
  BY ExclusionDone
<1>3. PlaceInv'
  BY <1>1 DEF SerialInv, PlaceInv, BringsJob, InEngine
<1>4. EngineInv'
  BY <1>1 DEF SerialInv, EngineInv, InEngine
<1>5. RunnerInv'
  BY <1>1, WorkerAssumption DEF SerialInv, RunnerInv
<1>6. JobInv'
  BY <1>1, WorkerAssumption DEF SerialInv, JobInv, BringsJob, Signals
<1>7. ThreadInv'
  BY <1>1 DEF SerialInv, ThreadInv, Owns
<1>. QED
  BY <1>2, <1>3, <1>4, <1>5, <1>6, <1>7 DEF SerialInv

(***************************************************************************)
(* update_status and the switch on its result.                             *)
(***************************************************************************)
LEMMA SerialSwitch ==
  ASSUME TypeOK, SerialInv, NEW a \in Api, UpdateStatus(a) \/ Switch(a)
  PROVE  SerialInv'
<1>1. Inside(a) /\ UNCHANGED <<lock, wjob, engine, job, runner, thread>>
  BY DEF UpdateStatus, Switch, At, Inside
<1>2. /\ req[a].pc \in {"status", "switch"}
      /\ req[a].new = NoRunner /\ req[a].old = NoRunner
  BY DEF UpdateStatus, Switch, At, SerialInv, EngineInv, InEngine
<1>3. req[a].cmd \in Commands \cup Signals
  BY <1>2 DEF SerialInv, ExclusionInv
<1>4. ASSUME NEW p \in PC,
             req'[a].pc = p,
             p \in {"switch", "job_run", "cancel", "replace", "unlock", "refuse"},
             p = "switch" => req[a].cmd # "get_status",
             p = "job_run" => req[a].cmd \in {"run", "start", "restart"},
             p \in {"replace", "refuse"} => BringsJob(a),
             p = "replace" => req[a].cmd = "assign",
             p = "unlock" => req[a].cmd = "get_status",
             p = "cancel" => req[a].cmd \in Signals,
             req'[a].cmd = req[a].cmd,
             req'[a].job = (IF req[a].cmd \in Signals /\ p # "switch" THEN wjob
                            ELSE req[a].job),
             req'[a].new = NoRunner,
             req'[a].old = NoRunner,
             \A b \in Api : b # a => req'[b] = req[b]
      PROVE  SerialInv'
  <2>1. ExclusionInv'
    BY <1>1, <1>4, ExclusionOn DEF Inside
  <2>2. PlaceInv'
    BY <1>4 DEF SerialInv, PlaceInv, BringsJob, InEngine, Signals, Commands
  <2>3. EngineInv'
    BY <1>1, <1>2, <1>4 DEF SerialInv, EngineInv, InEngine, Signals
  <2>4. RunnerInv'
    BY <1>1, <1>2, <1>4 DEF SerialInv, RunnerInv
  <2>5. JobInv'
    <3>1. BringsJob(a) => req[a].cmd \notin Signals /\ p # "unlock"
      BY <1>4 DEF BringsJob, Signals
    <3>2. req[a].cmd = "get_status" => req[a].cmd \notin Signals
      BY DEF Signals
    <3>3. \A b \in Api : (BringsJob(b)' <=> BringsJob(b))
      BY <1>4 DEF BringsJob
    <3>4. \A b \in Api : BringsJob(b) => req'[b].job = req[b].job
      BY <1>4, <3>1
    <3>5. \A b \in Api : BringsJob(b) =>
                          (req'[b].pc = "unlock" <=> req[b].pc = "unlock")
      BY <1>2, <1>4, <3>1
    <3>6. \A b \in Api :
            /\ req'[b].cmd = "get_status" => req'[b].job = NoJob
            /\ req'[b].cmd \in Signals => req'[b].job \in {NoJob, wjob}
      BY <1>4, <3>2 DEF SerialInv, JobInv
    <3>7. ASSUME NEW j \in Jobs, job[j] # "free", j # wjob
          PROVE  \E b \in Api : req'[b].job = j
      <4>1. PICK b \in Api : req[b].job = j
        BY <3>7 DEF SerialInv, JobInv
      <4>2. req[b].cmd \notin Signals
        BY <3>7, <4>1, WorkerAssumption DEF SerialInv, JobInv
      <4>. QED
        BY <1>4, <4>1, <4>2
    <3>. QED
      BY <1>1, <3>3, <3>4, <3>5, <3>6, <3>7 DEF SerialInv, JobInv
  <2>6. ThreadInv'
    BY <1>1, <1>2, <1>4 DEF SerialInv, ThreadInv, Owns
  <2>. QED
    BY <2>1, <2>2, <2>3, <2>4, <2>5, <2>6 DEF SerialInv
<1>5. CASE UpdateStatus(a)
  <2>. DEFINE p == IF req[a].cmd = "get_status" THEN "unlock" ELSE "switch"
  <2>1. p \in PC /\ Goto(a, p) /\ p \in {"unlock", "switch"}
        /\ (p = "unlock" <=> req[a].cmd = "get_status")
    BY <1>5 DEF UpdateStatus, PC
  <2>2. "get_status" \notin Signals
    BY DEF Signals
  <2>. HIDE DEF p
  <2>. QED
    BY <1>2, <1>4, <2>1, <2>2, GotoFields DEF Actors
<1>6. CASE Switch(a)
  <2>. DEFINE p == Branch(req[a].cmd, wstatus)
              j == IF req[a].cmd \in Signals THEN wjob ELSE req[a].job
  <2>1. req[a].cmd # "get_status"
    BY <1>6 DEF Switch, At, SerialInv, PlaceInv
  <2>2. CASE p = "idle"
    <3>1. Done(a)
      BY <1>6, <2>2 DEF Switch
    <3>2. req[a].cmd \notin {"run", "assign"}
      BY <2>2 DEF Branch
    <3>3. req[a].cmd \in Signals
      BY <1>3, <2>1, <3>2 DEF Commands
    <3>4. req[a].job \in {NoJob, wjob}
      BY <3>3 DEF SerialInv, JobInv
    <3>. QED
      BY <1>1, <1>2, <3>1, <3>4, SerialDone
  <2>3. CASE p # "idle"
    <3>1. req' = [req EXCEPT ![a] = [req[a] EXCEPT !.pc = p, !.job = j]]
      BY <1>6, <2>3 DEF Switch
    <3>2. /\ p \in {"job_run", "cancel", "replace", "refuse"}
          /\ p = "job_run" => req[a].cmd \in {"run", "start", "restart"}
          /\ p \in {"replace", "refuse"} => BringsJob(a)
          /\ p = "replace" => req[a].cmd = "assign"
          /\ p = "cancel" => req[a].cmd \in Signals
      BY <2>3 DEF Branch, BringsJob, Signals
    <3>. HIDE DEF p, j
    <3>3. a \in Actors /\ req[a] \in CallType /\ req \in [Actors -> CallType]
      BY CallTypes DEF Actors
    <3>4. /\ req'[a].pc = p
          /\ req'[a].job = j
          /\ req'[a].cmd = req[a].cmd
          /\ req'[a].new = req[a].new
          /\ req'[a].old = req[a].old
          /\ \A b \in Actors : b # a => req'[b] = req[b]
      BY <3>1, <3>3 DEF CallType
    <3>. QED
      BY <1>2, <1>4, <3>2, <3>4 DEF j, Actors, PC
  <2>. QED
    BY <2>2, <2>3
<1>. QED
  BY <1>5, <1>6

(***************************************************************************)
(* The ends of a request that leaves the engine alone.                     *)
(***************************************************************************)
LEMMA SerialEnd ==
  ASSUME TypeOK, SerialInv, NEW a \in Api,
         StopEnd(a) \/ Unlock(a) \/ Refuse(a) \/ Crash(a)
  PROVE  SerialInv'
<1>1. UNCHANGED <<wjob, engine, job, runner, thread>>
  BY DEF StopEnd, Unlock, Refuse, Crash
<1>2. CASE StopEnd(a)
  <2>1. req[a].pc = "joined" /\ req[a].cmd = "stop" /\ Done(a) /\ lock' = lock
    BY <1>2 DEF StopEnd, At
  <2>2. req[a].new = NoRunner
    BY <2>1 DEF SerialInv, EngineInv, InEngine
  <2>3. req[a].job \in {NoJob, wjob}
    BY <2>1 DEF SerialInv, JobInv, Signals
  <2>. QED
    BY <1>1, <2>1, <2>2, <2>3, SerialDone DEF Inside
<1>3. CASE Unlock(a)
  <2>1. req[a].pc = "unlock" /\ Done(a)
    BY <1>3 DEF Unlock, At
  <2>2. req[a].new = NoRunner
    BY <2>1 DEF SerialInv, EngineInv, InEngine
  <2>3. req[a].cmd \in Commands
    BY <2>1 DEF SerialInv, PlaceInv
  <2>4. req[a].job \in {NoJob, wjob}
    BY <2>1, <2>3 DEF SerialInv, JobInv, BringsJob, Commands
  <2>. QED
    BY <1>1, <2>1, <2>2, <2>3, <2>4, SerialDone DEF Inside
<1>4. CASE Refuse(a)
  <2>1. /\ req'[a].pc = "null"
        /\ req'[a].cmd = req[a].cmd
        /\ req'[a].job = req[a].job
        /\ req'[a].new = req[a].new
        /\ req'[a].old = req[a].old
        /\ \A b \in Api : b # a => req'[b] = req[b]
    BY <1>4, GotoFields DEF Refuse, PC, Actors
  <2>2. req[a].pc = "refuse" /\ Inside(a)
    BY <1>4 DEF Refuse, At, Inside
  <2>3. BringsJob(a) /\ req[a].cmd \in Commands /\ req[a].cmd \notin Signals
    BY <2>2 DEF SerialInv, PlaceInv, BringsJob, Commands, Signals
  <2>4. \A b \in Api : b # a => ~Inside(b)' /\ req'[b].cmd \notin Signals
    BY <2>1, <2>2, Alone DEF Inside
  <2>5. ExclusionInv'
    BY <2>1, <2>3, <2>4 DEF SerialInv, ExclusionInv, Inside
  <2>6. PlaceInv'
    BY <2>1, <2>3 DEF SerialInv, PlaceInv, BringsJob, InEngine
  <2>7. EngineInv'
    BY <1>1, <2>1, <2>2 DEF SerialInv, EngineInv, InEngine
  <2>8. RunnerInv'
    BY <1>1, <2>1 DEF SerialInv, RunnerInv
  <2>9. JobInv'
    BY <1>1, <2>1, <2>2 DEF SerialInv, JobInv, BringsJob
  <2>10. ThreadInv'
    BY <1>1, <2>1, <2>2 DEF SerialInv, ThreadInv, Owns
  <2>. QED
    BY <2>5, <2>6, <2>7, <2>8, <2>9, <2>10 DEF SerialInv
<1>5. CASE Crash(a)
  <2>1. UNCHANGED <<lock, req>>
    BY <1>5 DEF Crash
  <2>. QED
    BY <1>1, <2>1 DEF SerialInv, ExclusionInv, PlaceInv, EngineInv, RunnerInv,
       JobInv, ThreadInv, Inside, InEngine, BringsJob, Owns
<1>. QED
  BY <1>2, <1>3, <1>4, <1>5

(***************************************************************************)
(* job_run: the new runner is another one than the engine's, and the only  *)
(* one that a call holds.                                                  *)
(***************************************************************************)
LEMMA SerialJobRun ==
  ASSUME TypeOK, SerialInv, NEW a \in Api, JobRun(a)
  PROVE  SerialInv'
<1>1. /\ req[a].pc = "job_run" /\ Inside(a)
      /\ UNCHANGED <<lock, wjob, engine, job>>
  BY DEF JobRun, At, Inside
<1>2. req[a].new = NoRunner /\ req[a].old = NoRunner
  BY <1>1 DEF SerialInv, EngineInv, InEngine
<1>3. req[a].cmd \in {"run", "start", "restart"}
  BY <1>1 DEF SerialInv, PlaceInv
<1>4. ASSUME NEW r \in Runners, NEW t \in Tids, ~runner[r].used,
             runner' = [runner EXCEPT ![r] =
                          [used |-> TRUE, job |-> req[a].job, tid |-> t]],
             StartThread(r, t),
             req' = [req EXCEPT ![a].pc = "cancel", ![a].new = r]
      PROVE  SerialInv'
  <2>1. /\ req'[a].pc = "cancel"
        /\ req'[a].cmd = req[a].cmd
        /\ req'[a].job = req[a].job
        /\ req'[a].new = r
        /\ req'[a].old = NoRunner
        /\ \A b \in Api : b # a => req'[b] = req[b]
    <3>1. req' = [req EXCEPT ![a] = [req[a] EXCEPT !.pc = "cancel", !.new = r]]
      BY <1>4
    <3>2. a \in Actors /\ req[a] \in CallType /\ req \in [Actors -> CallType]
      BY CallTypes DEF Actors
    <3>. QED
      BY <1>2, <3>1, <3>2 DEF CallType, Actors
  <2>2. /\ runner'[r].used /\ runner'[r].job = req[a].job /\ runner'[r].tid = t
        /\ \A s \in Runners : s # r => runner'[s] = runner[s]
    BY <1>4 DEF TypeOK
  <2>3. /\ thread[t].state = "free"
        /\ thread'[t].runner = r
        /\ \A u \in Tids : u # t => thread'[u] = thread[u]
    BY <1>4 DEF TypeOK, StartThread
  <2>4. engine \in Runners \cup {NoRunner} /\ engine # r /\ r # NoRunner
    BY <1>4, WorkerAssumption DEF SerialInv, EngineInv, TypeOK
  <2>5. \A b \in Api : b # a => /\ req[b].new = NoRunner
                                /\ req[b].pc \in {"idle", "lock", "null"}
    BY <1>1, Alone
  <2>6. ExclusionInv'
    BY <1>1, <2>1, ExclusionOn DEF Inside
  <2>7. PlaceInv'
    BY <1>3, <2>1 DEF SerialInv, PlaceInv, BringsJob, InEngine
  <2>8. EngineInv'
    <3>1. engine' # NoRunner =>
            runner'[engine'].used /\ runner'[engine'].tid \in Tids
      BY <1>1, <2>2, <2>4 DEF SerialInv, EngineInv
    <3>2. ASSUME NEW b \in Api, b # a
          PROVE  /\ req'[b].new = NoRunner /\ req'[b].old = NoRunner
                 /\ ~InEngine(b)' /\ req'[b].pc # "replace"
      BY <2>1, <2>5, <3>2 DEF SerialInv, EngineInv, InEngine
    <3>. QED
      BY <1>1, <1>3, <2>1, <2>2, <2>4, <3>1, <3>2 DEF EngineInv, InEngine
  <2>9. RunnerInv'
    BY <1>1, <1>2, <2>1, <2>2, <2>5, WorkerAssumption DEF SerialInv, RunnerInv
  <2>10. JobInv'
    BY <1>1, <2>1 DEF SerialInv, JobInv, BringsJob
  <2>11. ThreadInv'
    <3>1. ASSUME NEW u \in Tids, thread'[u].state # "free"
          PROVE  \/ Owns(engine, u)' /\ \A b \in Api : req'[b].pc # "joined"
                 \/ \E b \in Api : Owns(req[b].new, u)'
      <4>1. CASE u = t
        BY <2>1, <2>2, <2>3, <2>4, <4>1 DEF Owns
      <4>2. CASE u # t
        <5>1. \A b \in Api : ~Owns(req[b].new, u)
          BY <1>2, <2>5 DEF Owns
        <5>2. Owns(engine, u)
          BY <2>3, <3>1, <4>2, <5>1 DEF SerialInv, ThreadInv
        <5>3. Owns(engine, u)'
          BY <1>1, <2>2, <2>3, <2>4, <4>2, <5>2 DEF Owns
        <5>. QED
          BY <2>1, <2>5, <5>3
      <4>. QED
        BY <4>1, <4>2
    <3>. QED
      BY <3>1 DEF ThreadInv
  <2>. QED
    BY <2>6, <2>7, <2>8, <2>9, <2>10, <2>11 DEF SerialInv
<1>5. CASE UNCHANGED <<runner, thread>> /\ Done(a) /\ req[a].cmd # "run"
  <2>1. req[a].job \in {NoJob, wjob}
    BY <1>3, <1>5 DEF SerialInv, JobInv, Signals
  <2>. QED
    BY <1>1, <1>2, <1>5, <2>1, SerialDone
<1>6. CASE UNCHANGED <<runner, thread>> /\ Goto(a, "refuse") /\ req[a].cmd = "run"
  <2>1. /\ req'[a].pc = "refuse"
        /\ req'[a].cmd = req[a].cmd
        /\ req'[a].job = req[a].job
        /\ req'[a].new = req[a].new
        /\ req'[a].old = req[a].old
        /\ \A b \in Api : b # a => req'[b] = req[b]
    BY <1>6, GotoFields DEF PC, Actors
  <2>2. ExclusionInv'
    BY <1>1, <2>1, ExclusionOn DEF Inside
  <2>3. PlaceInv'
    BY <1>6, <2>1 DEF SerialInv, PlaceInv, BringsJob, InEngine
  <2>4. EngineInv'
    BY <1>1, <1>2, <1>6, <2>1 DEF SerialInv, EngineInv, InEngine
  <2>5. RunnerInv'
    BY <1>1, <1>6, <2>1 DEF SerialInv, RunnerInv
  <2>6. JobInv'
    BY <1>1, <1>6, <2>1 DEF SerialInv, JobInv, BringsJob
  <2>7. ThreadInv'
    BY <1>1, <1>6, <2>1 DEF SerialInv, ThreadInv, Owns
  <2>. QED
    BY <2>2, <2>3, <2>4, <2>5, <2>6, <2>7 DEF SerialInv
<1>. QED
  BY <1>4, <1>5, <1>6 DEF JobRun

(***************************************************************************)
(* job_runner_stop: the handle that is joined is the engine's, whatever    *)
(* thread it stands for by now, so every thread left is the new runner's.  *)
(***************************************************************************)
LEMMA SerialStop ==
  ASSUME TypeOK, SerialInv, NEW a \in Api, Cancel(a) \/ Join(a)
  PROVE  SerialInv'
<1>1. /\ req[a].pc \in {"cancel", "join"} /\ Inside(a) /\ InEngine(a)
      /\ UNCHANGED <<lock, wjob, engine, job, runner>>
  BY DEF Cancel, Join, At, Inside, InEngine
<1>2. \A b \in Api : b # a => /\ req[b].new = NoRunner
                              /\ req[b].old = NoRunner
                              /\ req[b].pc \in {"idle", "lock", "null"}
  BY <1>1, Alone
<1>3. a \in Actors /\ req[a] \in CallType /\ req \in [Actors -> CallType]
  BY CallTypes DEF Actors
<1>4. engine \in Runners \cup {NoRunner}
      /\ (engine # NoRunner => runner[engine].tid \in Tids)
  BY DEF TypeOK, SerialInv, EngineInv
<1>5. /\ req[a].old \in {engine, NoRunner}
      /\ req[a].pc = "join" => req[a].old = engine
  BY DEF SerialInv, EngineInv
<1>6. /\ req'[a].pc \in {"join", "joined"}
      /\ req'[a].old = engine
      /\ req'[a].pc = "join" => engine # NoRunner
      /\ req'[a].cmd = req[a].cmd
      /\ req'[a].job = req[a].job
      /\ req'[a].new = req[a].new
      /\ \A b \in Api : b # a => req'[b] = req[b]
  <2>1. CASE Goto(a, "joined") /\ (Join(a) \/ engine = NoRunner)
    BY <1>1, <1>5, <2>1, GotoFields DEF PC, Actors, Join, At
  <2>2. CASE engine # NoRunner
             /\ req' = [req EXCEPT ![a].pc = "join", ![a].old = engine]
    <3>1. req' = [req EXCEPT ![a] = [req[a] EXCEPT !.pc = "join", !.old = engine]]
      BY <2>2
    <3>. QED
      BY <1>3, <2>2, <3>1 DEF CallType, Actors
  <2>. QED
    BY <2>1, <2>2 DEF Cancel, Join
<1>7. ExclusionInv'
  BY <1>1, <1>6, ExclusionOn DEF Inside
<1>8. PlaceInv'
  BY <1>1, <1>6 DEF SerialInv, PlaceInv, BringsJob, InEngine
<1>9. EngineInv'
  BY <1>1, <1>2, <1>6 DEF SerialInv, EngineInv, InEngine
<1>10. RunnerInv'
  BY <1>1, <1>6 DEF SerialInv, RunnerInv
<1>11. JobInv'
  BY <1>1, <1>6 DEF SerialInv, JobInv, BringsJob
<1>12. ThreadInv'
  <2>1. \A t \in Tids, b \in Api : Owns(req[b].new, t) => b = a
    BY <1>2 DEF Owns
  <2>2. CASE Cancel(a) /\ req'[a].pc = "joined"
    <3>1. engine = NoRunner /\ UNCHANGED thread
      <4>1. CASE engine # NoRunner
                 /\ req' = [req EXCEPT ![a].pc = "join", ![a].old = engine]
        BY <1>3, <2>2, <4>1 DEF CallType
      <4>. QED
        BY <2>2, <4>1 DEF Cancel
    <3>. QED
      BY <1>1, <1>6, <2>1, <3>1 DEF SerialInv, ThreadInv, Owns
  <2>3. CASE Cancel(a) /\ req'[a].pc = "join"
    <3>. DEFINE u == runner[engine].tid
                c == (thread[u].state = "live")
    <3>1. engine # NoRunner /\ thread' = [thread EXCEPT ![u].cancel = c]
      <4>1. CASE Goto(a, "joined")
        BY <2>3, <4>1, GotoFields DEF PC
      <4>. QED
        BY <2>3, <4>1 DEF Cancel
    <3>. HIDE DEF u, c
    <3>2. \A t \in Tids : /\ thread'[t].state = thread[t].state
                          /\ thread'[t].runner = thread[t].runner
      BY <3>1 DEF TypeOK
    <3>3. \A b \in Api : req'[b].pc # "joined"
      BY <1>2, <1>6, <2>3
    <3>. QED
      BY <1>1, <1>6, <2>1, <3>2, <3>3 DEF SerialInv, ThreadInv, Owns
  <2>4. CASE Join(a)
    <3>. DEFINE u == runner[engine].tid
    <3>1. req[a].old = engine /\ engine # NoRunner
      BY <2>4 DEF Join, At, SerialInv, EngineInv
    <3>2. thread' = [thread EXCEPT ![u] = NoThread]
      BY <2>4, <3>1 DEF Join
    <3>3. u \in Tids
      BY <1>4, <3>1
    <3>4. /\ thread'[u].state = "free"
          /\ \A t \in Tids : t # u => thread'[t] = thread[t]
      BY <3>2, <3>3 DEF TypeOK, NoThread
    <3>5. ASSUME NEW t \in Tids, thread'[t].state # "free"
          PROVE  \E b \in Api : Owns(req[b].new, t)'
      <4>1. t # u /\ thread'[t] = thread[t]
        BY <3>4, <3>5
      <4>2. ~Owns(engine, t)
        BY <4>1 DEF Owns
      <4>3. Owns(req[a].new, t)
        BY <2>1, <3>5, <4>1, <4>2 DEF SerialInv, ThreadInv
      <4>. QED
        BY <1>1, <1>6, <4>1, <4>3 DEF Owns
    <3>. QED
      BY <3>5 DEF ThreadInv
  <2>. QED
    BY <1>6, <2>2, <2>3, <2>4
<1>. QED
  BY <1>7, <1>8, <1>9, <1>10, <1>11, <1>12 DEF SerialInv

(***************************************************************************)
(* The end of engine_run: the runner that is freed was the engine's and    *)
(* has no thread, the new one becomes the engine's.                        *)
(***************************************************************************)
LEMMA SerialEngineRunEnd ==
  ASSUME TypeOK, SerialInv, NEW a \in Api, EngineRunEnd(a)
  PROVE  SerialInv'
<1>. DEFINE n == req[a].new
<1>1. /\ req[a].pc = "joined" /\ Inside(a) /\ InEngine(a)
      /\ n # NoRunner
      /\ engine' = n
      /\ UNCHANGED <<lock, wjob, job, thread>>
  BY DEF EngineRunEnd, At, Inside, InEngine
<1>2. \A b \in Api : b # a => /\ req[b].new = NoRunner
                              /\ req[b].old = NoRunner
                              /\ req[b].pc \in {"idle", "lock", "null"}
  BY <1>1, Alone
<1>3. a \in Actors /\ req[a] \in CallType /\ req \in [Actors -> CallType]
  BY CallTypes DEF Actors
<1>4. /\ req[a].old = engine
      /\ n # engine /\ n \in Runners
      /\ runner[n].used /\ runner[n].tid \in Tids /\ runner[n].job = req[a].job
  BY <1>1, <1>3 DEF SerialInv, EngineInv, CallType
<1>5. engine \in Runners \cup {NoRunner}
  BY DEF TypeOK
<1>6. /\ \A s \in Runners : s # engine => runner'[s] = runner[s]
      /\ engine # NoRunner => ~runner'[engine].used
  <2>1. CASE engine = NoRunner
    BY <1>4, <2>1 DEF EngineRunEnd
  <2>2. CASE engine # NoRunner
    <3>1. runner' = [runner EXCEPT ![engine].used = FALSE]
      BY <1>4, <2>2 DEF EngineRunEnd
    <3>. QED
      BY <1>5, <2>2, <3>1 DEF TypeOK
  <2>. QED
    BY <2>1, <2>2
<1>7. runner'[n] = runner[n]
  BY <1>4, <1>6
<1>8. \A s \in Runners : runner[s].used => s \in {engine, n}
  BY <1>2, WorkerAssumption DEF SerialInv, RunnerInv
<1>9. \A t \in Tids : thread[t].state # "free" => Owns(n, t)
  BY <1>1, <1>2 DEF SerialInv, ThreadInv, Owns
<1>10. RunnerInv'
  <2>1. \A s \in Runners : runner'[s].used => s = n
    BY <1>5, <1>6, <1>8, WorkerAssumption
  <2>. QED
    BY <1>1, <2>1 DEF RunnerInv
<1>11. CASE Done(a) /\ req[a].cmd # "run"
  <2>1. /\ req'[a].pc = "idle"
        /\ req'[a].cmd = "none"
        /\ req'[a].job = NoJob
        /\ req'[a].new = NoRunner
        /\ req'[a].old = NoRunner
        /\ \A b \in Api : b # a => req'[b] = req[b]
    BY <1>11, DoneFields DEF Actors
  <2>2. ExclusionInv'
    BY <1>1, <1>11, ExclusionDone
  <2>3. PlaceInv'
    BY <2>1 DEF SerialInv, PlaceInv, BringsJob, InEngine
  <2>4. EngineInv'
    BY <1>1, <1>2, <1>4, <1>7, <2>1 DEF EngineInv, InEngine
  <2>5. JobInv'
    <3>1. req[a].job \in {NoJob, wjob}
      BY <1>1, <1>11 DEF SerialInv, PlaceInv, JobInv, Signals
    <3>. QED
      BY <1>1, <2>1, <3>1, WorkerAssumption
        DEF SerialInv, JobInv, BringsJob, Signals
  <2>6. ThreadInv'
    BY <1>1, <1>2, <1>7, <1>9, <2>1 DEF ThreadInv, Owns
  <2>. QED
    BY <1>10, <2>2, <2>3, <2>4, <2>5, <2>6 DEF SerialInv
<1>12. CASE req[a].cmd = "run"
            /\ req' = [req EXCEPT ![a].pc = "replace", ![a].new = NoRunner,
                                  ![a].old = NoRunner]
  <2>. DEFINE q == [req[a] EXCEPT !.pc = "replace", !.new = NoRunner,
                                  !.old = NoRunner]
  <2>1. /\ req'[a].pc = "replace"
        /\ req'[a].cmd = req[a].cmd
        /\ req'[a].job = req[a].job
        /\ req'[a].new = NoRunner
        /\ req'[a].old = NoRunner
        /\ \A b \in Api : b # a => req'[b] = req[b]
    <3>1. req' = [req EXCEPT ![a] = q]
      BY <1>12
    <3>2. /\ q.pc = "replace" /\ q.cmd = req[a].cmd /\ q.job = req[a].job
          /\ q.new = NoRunner /\ q.old = NoRunner
      BY <1>3 DEF CallType
    <3>. HIDE DEF q
    <3>. QED
      BY <1>3, <3>1, <3>2 DEF Actors
  <2>2. ExclusionInv'
    BY <1>1, <2>1, ExclusionOn DEF Inside
  <2>3. PlaceInv'
    BY <1>12, <2>1 DEF SerialInv, PlaceInv, BringsJob, InEngine
  <2>4. EngineInv'
    BY <1>1, <1>2, <1>4, <1>7, <2>1 DEF EngineInv, InEngine
  <2>5. JobInv'
    BY <1>1, <2>1 DEF SerialInv, JobInv, BringsJob
  <2>6. ThreadInv'
    BY <1>1, <1>2, <1>7, <1>9, <2>1 DEF ThreadInv, Owns
  <2>. QED
    BY <1>10, <2>2, <2>3, <2>4, <2>5, <2>6 DEF SerialInv
<1>. QED
  BY <1>11, <1>12 DEF EngineRunEnd

(***************************************************************************)
(* The end of engine_restart: the old thread has been joined, so the new   *)
(* one is the only one.                                                    *)
(***************************************************************************)
LEMMA SerialRestartEnd ==
  ASSUME TypeOK, SerialInv, NEW a \in Api, RestartEnd(a)
  PROVE  SerialInv'
<1>1. /\ req[a].pc = "joined" /\ Inside(a)
      /\ req[a].cmd \in {"start", "restart"}
      /\ req[a].new = NoRunner
      /\ Done(a)
      /\ UNCHANGED <<lock, wjob, engine, job>>
  BY DEF RestartEnd, At, Inside
<1>2. req[a].job \in {NoJob, wjob}
  BY <1>1 DEF SerialInv, JobInv, Signals
<1>3. CASE UNCHANGED <<thread, runner>>
  BY <1>1, <1>2, <1>3, SerialDone
<1>4. ASSUME NEW t \in Tids, req[a].old # NoRunner, StartThread(req[a].old, t),
             runner' = [runner EXCEPT ![req[a].old].tid = t]
      PROVE  SerialInv'
  <2>1. /\ req'[a].pc = "idle"
        /\ req'[a].cmd = "none"
        /\ req'[a].job = NoJob
        /\ req'[a].new = NoRunner
        /\ req'[a].old = NoRunner
        /\ \A b \in Api : b # a => req'[b] = req[b]
    BY <1>1, DoneFields DEF Actors
  <2>2. \A b \in Api : b # a => /\ req[b].new = NoRunner
                                /\ req[b].old = NoRunner
                                /\ req[b].pc \in {"idle", "lock", "null"}
    BY <1>1, Alone
  <2>3. req[a].old = engine /\ engine \in Runners
    BY <1>1, <1>4 DEF SerialInv, EngineInv, TypeOK
  <2>4. /\ runner'[engine].tid = t
        /\ \A s \in Runners : runner'[s].used = runner[s].used
    BY <1>4, <2>3 DEF TypeOK
  <2>5. \A u \in Tids : thread[u].state = "free"
    BY <1>1, <2>2 DEF SerialInv, ThreadInv, Owns
  <2>6. /\ thread'[t].runner = engine
        /\ \A u \in Tids : u # t => thread'[u].state = "free"
    BY <1>4, <2>3, <2>5 DEF StartThread, TypeOK
  <2>7. ExclusionInv'
    BY <1>1, ExclusionDone
  <2>8. PlaceInv'
    BY <2>1 DEF SerialInv, PlaceInv, BringsJob, InEngine
  <2>9. EngineInv'
    BY <1>1, <2>1, <2>2, <2>3, <2>4 DEF SerialInv, EngineInv, InEngine
  <2>10. RunnerInv'
    BY <1>1, <2>1, <2>4, WorkerAssumption DEF SerialInv, RunnerInv
  <2>11. JobInv'
    BY <1>1, <1>2, <2>1, WorkerAssumption DEF SerialInv, JobInv, BringsJob, Signals
  <2>12. ThreadInv'
    BY <1>1, <2>1, <2>2, <2>3, <2>4, <2>6, WorkerAssumption DEF ThreadInv, Owns
  <2>. QED
    BY <2>7, <2>8, <2>9, <2>10, <2>11, <2>12 DEF SerialInv
<1>. QED
  BY <1>3, <1>4 DEF RestartEnd

(***************************************************************************)
(* worker_run and worker_assign: the job that is freed is the worker's,    *)
(* which no other call has brought.                                        *)
(***************************************************************************)
LEMMA SerialReplace ==
  ASSUME TypeOK, SerialInv, NEW a \in Api, Replace(a)
  PROVE  SerialInv'
<1>1. /\ req[a].pc = "replace" /\ Inside(a)
      /\ wjob' = req[a].job
      /\ UNCHANGED <<lock, engine, runner, thread>>
  BY DEF Replace, At, Inside
<1>2. /\ req'[a].pc = "unlock"
      /\ req'[a].cmd = req[a].cmd
      /\ req'[a].job = req[a].job
      /\ req'[a].new = req[a].new
      /\ req'[a].old = req[a].old
      /\ \A b \in Api : b # a => req'[b] = req[b]
  BY GotoFields DEF Replace, PC, Actors
<1>3. \A b \in Api : b # a => /\ req[b].pc \in {"idle", "lock", "null"}
                              /\ req[b].cmd \notin Signals
  BY <1>1, Alone
<1>4. /\ BringsJob(a) /\ req[a].cmd \in Commands
      /\ req[a].cmd \notin Signals /\ req[a].cmd # "get_status"
  BY <1>1 DEF SerialInv, PlaceInv, BringsJob, Commands, Signals
<1>5. wjob \in Jobs \cup {NoJob}
  BY DEF TypeOK
<1>6. /\ \A j \in Jobs : j # wjob => job'[j] = job[j]
      /\ wjob # NoJob => job'[wjob] = "free"
  BY <1>5, WorkerAssumption DEF Replace, TypeOK
<1>7. ExclusionInv'
  BY <1>1, <1>2, ExclusionOn DEF Inside
<1>8. PlaceInv'
  BY <1>2, <1>4 DEF SerialInv, PlaceInv, BringsJob, InEngine
<1>9. EngineInv'
  BY <1>1, <1>2 DEF SerialInv, EngineInv, InEngine
<1>10. RunnerInv'
  BY <1>1, <1>2 DEF SerialInv, RunnerInv
<1>11. JobInv'
  <2>1. /\ req[a].job \in Jobs /\ req[a].job # wjob /\ job[req[a].job] # "free"
    BY <1>1, <1>4 DEF SerialInv, JobInv
  <2>2. \A b \in Api : BringsJob(b) => req[b].job \in Jobs /\ req[b].job # wjob
    BY <1>1, <1>3, <2>1 DEF SerialInv, JobInv
  <2>3. \A b \in Api : (BringsJob(b)' <=> BringsJob(b)) /\ req'[b].job = req[b].job
    BY <1>2 DEF BringsJob
  <2>4. \A b \in Api : BringsJob(b) => job'[req[b].job] # "free"
    BY <1>6, <2>2 DEF SerialInv, JobInv
  <2>5. \A b \in Api : BringsJob(b) => (req'[b].pc = "unlock" <=> b = a)
    BY <1>2, <1>3
  <2>6. \A b \in Api : b # a /\ BringsJob(b) => req[b].job # req[a].job
    BY <1>4 DEF SerialInv, JobInv
  <2>7. \A b \in Api : /\ req'[b].cmd \notin Signals
                       /\ req'[b].cmd = "get_status" => req'[b].job = NoJob
    BY <1>2, <1>3, <1>4 DEF SerialInv, JobInv
  <2>8. ASSUME NEW j \in Jobs, job'[j] # "free", j # wjob'
        PROVE  \E b \in Api : req'[b].job = j
    <3>1. j # wjob /\ job[j] # "free"
      BY <1>6, <2>8, WorkerAssumption
    <3>. QED
      BY <2>3, <3>1 DEF SerialInv, JobInv
  <2>9. wjob' # NoJob => job'[wjob'] # "free"
    BY <1>1, <1>4, <2>4
  <2>. QED
    BY <1>1, <2>2, <2>3, <2>4, <2>5, <2>6, <2>7, <2>8, <2>9 DEF SerialInv, JobInv
<1>12. ThreadInv'
  BY <1>1, <1>2 DEF SerialInv, ThreadInv, Owns
<1>. QED
  BY <1>7, <1>8, <1>9, <1>10, <1>11, <1>12 DEF SerialInv

(***************************************************************************)
(* A job thread writes only to a job that is there, and exits.             *)
(***************************************************************************)
LEMMA SerialJob ==
  ASSUME TypeOK, SerialInv, NEW t \in Tids, JobStep(t) \/ JobEnd(t)
  PROVE  SerialInv'
<1>1. UNCHANGED <<lock, wjob, engine, runner, req>>
  BY DEF JobStep, JobEnd
<1>2. ExclusionInv' /\ PlaceInv' /\ EngineInv' /\ RunnerInv'
  BY <1>1 DEF SerialInv, ExclusionInv, PlaceInv, EngineInv, RunnerInv, Inside,
     InEngine, BringsJob
<1>3. \A j \in Jobs : job'[j] = "free" <=> job[j] = "free"
  <2>1. CASE JobStep(t)
    BY <2>1 DEF JobStep, JobStatus, TypeOK
  <2>2. CASE JobEnd(t)
    BY <2>2 DEF JobEnd
  <2>. QED
    BY <2>1, <2>2
<1>4. JobInv'
  <2>1. wjob \in Jobs \cup {NoJob}
    BY DEF TypeOK
  <2>. QED
    BY <1>1, <1>3, <2>1 DEF SerialInv, JobInv, BringsJob
<1>5. \A u \in Tids : /\ thread[u].state = "free" => thread'[u].state = "free"
                      /\ thread'[u].runner = thread[u].runner
  BY DEF JobStep, JobEnd, TypeOK
<1>6. ThreadInv'
  BY <1>1, <1>5 DEF SerialInv, ThreadInv, Owns
<1>. QED
  BY <1>2, <1>4, <1>6 DEF SerialInv

-----------------------------------------------------------------------------
(* The theorems.                                                            *)

(***************************************************************************)
(* The invariant holds initially.                                          *)
(***************************************************************************)
LEMMA InvariantInit == Init => IInv
<1>. SUFFICES ASSUME Init PROVE IInv
  OBVIOUS
<1>1. \A a \in Actors : req[a] = NoCall
  BY DEF Init
<1>2. TypeOK
  <2>1. NoCall \in CallType
    BY DEF NoCall, CallType, Calls, PC
  <2>2. req \in [Actors -> CallType]
    BY <2>1 DEF Init
  <2>3. runner \in [Runners -> [used : BOOLEAN, job : Jobs \cup {NoJob},
                                tid : Tids \cup {NoTid}]]
    BY DEF Init
  <2>4. thread \in [Tids -> [state : {"free", "live", "exited"},
                             cancel : BOOLEAN, runner : Runners \cup {NoRunner}]]
    BY DEF Init, NoThread
  <2>. QED
    BY <2>2, <2>3, <2>4 DEF Init, TypeOK, CallType, WorkerStatus
<1>3. \A a \in Api : /\ req[a] = NoCall
                     /\ req[a].pc = "idle" /\ req[a].cmd = "none"
                     /\ req[a].job = NoJob /\ req[a].new = NoRunner
                     /\ req[a].old = NoRunner
  BY <1>1 DEF Actors, NoCall
<1>4. ExclusionInv /\ PlaceInv
  BY <1>3 DEF ExclusionInv, PlaceInv, Inside, InEngine, BringsJob, Signals
<1>5. EngineInv
  BY <1>3 DEF Init, EngineInv, InEngine
<1>6. RunnerInv
  BY DEF Init, RunnerInv
<1>7. JobInv
  BY <1>3 DEF Init, JobInv, BringsJob, Signals
<1>8. ThreadInv
  BY DEF Init, ThreadInv, NoThread
<1>. QED
  BY <1>1, <1>2, <1>4, <1>5, <1>6, <1>7, <1>8 DEF Init, IInv, SerialInv, Actors

(***************************************************************************)
(* A step of a request changes no other call, and none begins after the    *)
(* server has ended.                                                       *)
(***************************************************************************)
LEMMA OwnCall ==
  ASSUME TypeOK, NEW a \in Api,
         Lock(a) \/ Work(a) \/ \E c \in Commands \cup Signals : Request(a, c)
  PROVE  /\ closing' = closing
         /\ closing => req[a].pc # "idle"
         /\ \A b \in Actors : b # a => req'[b] = req[b]
<1>1. a \in Actors /\ req \in [Actors -> CallType]
  BY CallTypes DEF Actors
<1>2. ASSUME NEW q, req' = [req EXCEPT ![a] = q]
      PROVE  \A b \in Actors : b # a => req'[b] = req[b]
  BY <1>1, <1>2
<1>3. ASSUME NEW p, Goto(a, p)
      PROVE  \A b \in Actors : b # a => req'[b] = req[b]
  BY <1>1, <1>3 DEF Goto
<1>4. CASE Lock(a)
  BY <1>3, <1>4 DEF Lock, At
<1>5. ASSUME NEW c \in Commands \cup Signals, Request(a, c)
      PROVE  ~closing /\ closing' = closing /\ \E q : req' = [req EXCEPT ![a] = q]
  BY <1>5 DEF Request
<1>6. CASE Work(a)
  <2>1. CASE UpdateStatus(a)
    BY <1>3, <2>1 DEF UpdateStatus, At
  <2>2. CASE Switch(a)
    BY <1>1, <2>2 DEF Switch, At, Done
  <2>3. CASE JobRun(a)
    BY <1>1, <2>3 DEF JobRun, At, Done, Goto
  <2>4. CASE Cancel(a)
    BY <1>1, <2>4 DEF Cancel, At, Goto
  <2>5. CASE Join(a) \/ Replace(a) \/ Refuse(a)
    BY <1>3, <2>5 DEF Join, Replace, Refuse, At
  <2>6. CASE EngineRunEnd(a)
    BY <1>1, <2>6 DEF EngineRunEnd, At, Done
  <2>7. CASE RestartEnd(a) \/ StopEnd(a) \/ Unlock(a)
    BY <1>2, <2>7 DEF RestartEnd, StopEnd, Unlock, At, Done
  <2>8. CASE Crash(a)
    BY <2>8 DEF Crash, At
  <2>. QED
    BY <1>6, <2>1, <2>2, <2>3, <2>4, <2>5, <2>6, <2>7, <2>8 DEF Work
<1>. QED
  BY <1>2, <1>4, <1>5, <1>6

(***************************************************************************)
(* A step of worker_destroy changes no request, and comes after its first. *)
(***************************************************************************)
LEMMA MainCall ==
  ASSUME TypeOK,
         \/ DestroyBegin \/ DestroyStopEnd \/ DestroyJob
         \/ Cancel(Main) \/ Join(Main)
  PROVE  /\ \A a \in Api : req'[a] = req[a]
         /\ \/ closing' /\ \A a \in Api : req[a].pc = "idle"
            \/ closing' = closing /\ req[Main].pc # "idle"
<1>1. Main \in Actors /\ req \in [Actors -> CallType] /\ \A a \in Api : a # Main
  BY CallTypes, WorkerAssumption DEF Actors
<1>2. ASSUME NEW p, Goto(Main, p)
      PROVE  \A a \in Api : req'[a] = req[a]
  BY <1>1, <1>2 DEF Goto, Actors
<1>3. CASE DestroyBegin
  <2>1. \E c, p : req' = [req EXCEPT ![Main].cmd = c, ![Main].pc = p]
    BY <1>3, Zenon DEF DestroyBegin
  <2>2. \A a \in Api : req'[a] = req[a]
    BY <1>1, <2>1 DEF Actors
  <2>3. closing' /\ \A a \in Api : req[a].pc = "idle"
    BY <1>3 DEF DestroyBegin
  <2>. QED
    BY <2>2, <2>3
<1>4. CASE DestroyStopEnd \/ Join(Main)
  BY <1>2, <1>4 DEF DestroyStopEnd, Join, At
<1>5. CASE DestroyJob
  BY <1>1, <1>5 DEF DestroyJob, At, Actors
<1>6. CASE Cancel(Main)
  BY <1>1, <1>6 DEF Cancel, At, Goto, Actors
<1>. QED
  BY <1>3, <1>4, <1>5, <1>6

(***************************************************************************)
(* Every step keeps it.  Once worker_destroy has begun, only the types are *)
(* left to keep.                                                           *)
(***************************************************************************)
LEMMA InvariantStep == IInv /\ [Next]_vars => IInv'
<1>. SUFFICES ASSUME IInv, [Next]_vars PROVE IInv'
  OBVIOUS
<1>1. TypeOK /\ TypeOK'
  BY TypeStep DEF IInv
<1>a. NoCall.pc = "idle"
  BY DEF NoCall
<1>2. CASE \E a \in Api : Lock(a) \/ Work(a)
                         \/ \E c \in Commands \cup Signals : Request(a, c)
  <2>1. PICK a \in Api : Lock(a) \/ Work(a)
                         \/ \E c \in Commands \cup Signals : Request(a, c)
    BY <1>2
  <2>2. /\ closing' = closing
        /\ ~closing
        /\ req'[Main] = req[Main]
    BY <1>1, <2>1, OwnCall, WorkerAssumption DEF IInv, Actors
  <2>3. ASSUME SerialSignals PROVE SerialInv'
    <3>1. SerialInv
      BY <2>2, <2>3 DEF IInv
    <3>2. ASSUME NEW c \in Commands \cup Signals, Request(a, c)
          PROVE  SerialInv'
      BY <1>1, <2>3, <3>1, <3>2, SerialRequest
    <3>3. CASE Lock(a)
      BY <1>1, <3>1, <3>3, SerialLock
    <3>4. CASE Work(a)
      BY <1>1, <3>1, <3>4, SerialSwitch, SerialJobRun, SerialStop,
         SerialEngineRunEnd, SerialRestartEnd, SerialReplace, SerialEnd DEF Work
    <3>. QED
      BY <2>1, <3>2, <3>3, <3>4
  <2>. QED
    BY <1>1, <2>2, <2>3 DEF IInv
<1>3. CASE \/ DestroyBegin \/ DestroyStopEnd \/ DestroyJob
           \/ Cancel(Main) \/ Join(Main)
  <2>1. /\ \A a \in Api : req'[a] = req[a]
        /\ \/ closing' /\ \A a \in Api : req[a].pc = "idle"
           \/ closing' = closing /\ req[Main].pc # "idle"
    BY <1>1, <1>3, MainCall
  <2>2. closing' /\ \A a \in Api : req[a].pc = "idle"
    BY <1>1, <1>a, <2>1 DEF IInv, TypeOK
  <2>. QED
    BY <1>1, <2>1, <2>2 DEF IInv
<1>4. ASSUME NEW t \in Tids, JobStep(t) \/ JobEnd(t) PROVE IInv'
  <2>1. UNCHANGED <<req, closing>>
    BY <1>4 DEF JobStep, JobEnd
  <2>2. SerialInv => SerialInv'
    BY <1>1, <1>4, SerialJob
  <2>. QED
    BY <1>1, <2>1, <2>2 DEF IInv
<1>5. CASE UNCHANGED vars
  <2>1. SerialInv => SerialInv'
    BY <1>5 DEF vars, SerialInv, ExclusionInv, PlaceInv, EngineInv, RunnerInv,
       JobInv, ThreadInv, Inside, InEngine, BringsJob, Owns
  <2>. QED
    BY <1>1, <1>5, <2>1 DEF vars, IInv
<1>. QED
  BY <1>2, <1>3, <1>4, <1>5 DEF Next, Ended

(***************************************************************************)
(* The inductive invariant of the worker, its engine and its requests.     *)
(***************************************************************************)
THEOREM Invariant == Spec => []IInv
BY InvariantInit, InvariantStep, PTL DEF Spec

(***************************************************************************)
(* Every variable keeps its type, however requests and signals interleave. *)
(***************************************************************************)
THEOREM TypeCorrect == Spec => []TypeOK
<1>1. IInv => TypeOK
  BY DEF IInv
<1>. QED
  BY <1>1, Invariant, PTL

(***************************************************************************)
(* If clients send each signal on its own, then between requests the       *)
(* engine can stop every job thread there is, and there is at most one,    *)
(* even though the handle of a joined thread is used again.                *)
(***************************************************************************)
THEOREM OneThread == Spec => [](SerialSignals => OneJobThread)
<1>1. ASSUME IInv, SerialSignals PROVE OneJobThread
  <2>1. SUFFICES ASSUME Quiet, NEW t \in Tids, thread[t].state # "free"
                 PROVE  engine # NoRunner /\ runner[engine].tid = t
    BY DEF OneJobThread
  <2>2. SerialInv
    BY <1>1, <2>1 DEF IInv, Quiet
  <2>3. \A a \in Api : req[a].new = NoRunner
    BY <2>1, <2>2 DEF Quiet, SerialInv, EngineInv, InEngine
  <2>. QED
    BY <2>1, <2>2, <2>3 DEF SerialInv, ThreadInv, Owns
<1>2. IInv => (SerialSignals => OneJobThread)
  BY <1>1
<1>. QED
  BY <1>2, Invariant, PTL

(***************************************************************************)
(* Under the same condition every job and every runner in use is the       *)
(* worker's, the engine's or in the hands of one request: run, assign and  *)
(* start free what they replace, on every path.                            *)
(***************************************************************************)
THEOREM NoLoss == Spec => [](SerialSignals => NothingLost)
<1>1. IInv => (SerialSignals => NothingLost)
  BY DEF IInv, NothingLost, SerialInv, JobInv, RunnerInv
<1>. QED
  BY <1>1, Invariant, PTL

(***************************************************************************)
(* Under the same condition worker_run frees a job only when no thread     *)
(* executes it: the engine has been given a runner of another job by then. *)
(***************************************************************************)
THEOREM FreesIdleJob ==
  ASSUME SerialSignals
  PROVE  Spec => RunFreesIdleJob
<1>. DEFINE Idle == \A t \in Tids : thread[t].state = "live" =>
                                      runner[thread[t].runner].job # wjob
            Step == \A a \in Api : Replace(a) /\ req[a].cmd = "run" /\ wjob # NoJob
                                     => Idle
<1>1. ASSUME IInv, [Next]_vars PROVE Step
  <2>1. SUFFICES ASSUME NEW a \in Api, Replace(a), req[a].cmd = "run", wjob # NoJob,
                        NEW t \in Tids, thread[t].state = "live"
                 PROVE  runner[thread[t].runner].job # wjob
    OBVIOUS
  <2>2. req[a].pc = "replace" /\ Inside(a)
    BY <2>1 DEF Replace, At, Inside
  <2>3. TypeOK /\ SerialInv
    BY <1>1, <2>2 DEF IInv
  <2>4. \A b \in Api : req[b].new = NoRunner
    BY <2>2, <2>3, Alone DEF SerialInv, EngineInv, InEngine
  <2>5. thread[t].runner = engine
    BY <2>1, <2>3, <2>4 DEF SerialInv, ThreadInv, Owns
  <2>6. runner[engine].job = req[a].job
    BY <2>1, <2>2, <2>3 DEF SerialInv, EngineInv
  <2>7. req[a].job # wjob
    BY <2>1, <2>2, <2>3 DEF SerialInv, JobInv, BringsJob
  <2>. QED
    BY <2>5, <2>6, <2>7
<1>2. IInv /\ [Next]_vars => [Step]_vars
  BY <1>1
<1>. QED
  BY <1>2, Invariant, PTL DEF Spec, RunFreesIdleJob
=============================================================================
