# Verification of pyoneer

TLA+ models of pyoneer, from the start of the process to the child processes of
its tasks, the TLC configurations that check them on small instances, and TLAPS
proofs for instances of any size. Paths are relative to the directory that holds `src/` (the
repository) and `tla/` (this project).

## The system

A pyoneer is a server process. A client connects, sends one JSON request and
gets one JSON answer. The only role implemented is the *worker*: it is given a
*job*, a list of *tasks*, and runs every task as a Python child process.

| Component | State | Operations | Talks to |
| --- | --- | --- | --- |
| Task, TaskRunner (`blueprint/task.c`) | task status; runner thread, child pid, exit code and signal | run, wait, stop, restart, destroy | child process; joined by the job thread |
| Job, JobRunner (`blueprint/job.c`) | cached status, task list, options; job thread, counters, task runners | run, wait, stop, restart, destroy, get_status | task runners; owned by the engine; read by API threads |
| Engine (`pyoneer/engine.c`) | current job runner | run, restart, stop, wait | job runner |
| Worker (`pyoneer/worker.c`) | status, job, engine, mutex | commands run, assign, get_status (locked); signals start, stop, restart (not locked) | engine, job |
| Pyoneer (`pyoneer/pyoneer.c`), Blueprint | function table over the role; decoded job | dispatch | worker |
| Client protocol (`api/client.c`) | one connection | receive, check token, dispatch, answer, close | pyoneer |
| Thread pool (`api/thread_pool.c`) | ring of connections, mutex, two condition variables, shutdown flag, workers | create, submit, shutdown, destroy | client protocol |
| Server (`api/server.c`) | listeners, stop flag, pool | create, run, stop, destroy | thread pool |
| Main (`main.c`) | global server | start, signal handler, cleanup | everything |
| JSON (`shared/json.c`, `json-builder.c`, `json-helpers.c`) | none between calls | parse, look up, build, measure, write | client protocol, decoders and encoders |
| Logger, Site | created and destroyed by main; none that others depend on | | |

What makes it hard:

* **Threads.** A request runs on a pool thread, a job on its own thread, every
  task on another one with a child process behind it. `task.c` and `job.c` use
  no lock at all; they rely on `pthread_cancel` and `pthread_join`.
* **Cancellation.** A job is stopped by cancelling its thread. Cancellation acts
  only at cancellation points, and cleanup handlers do the rest.
* **Signals.** SIGINT and SIGTERM run `server_stop` on top of any thread, and
  `server_stop` takes the pool's mutex.
* **Requests.** One `recv` is taken for one request, whatever the network made of
  it; the answer is measured, then written without a bound.
* **Start and crash.** Nine steps of `main` can fail, each with its own part of
  the cleanup to do; the socket path survives a crash, and so does a task, with
  the listening sockets it inherited.
* **Shutdown.** The accept loop may be waiting on a full queue, workers may be
  anywhere, connections may be queued.

`PROJECT.json` lists the hazards line by line with the property that covers
each, and every component with what is left out of it.

What makes each component correct:

* *Task runner*: a thread that ends has reaped its child and recorded how it
  ended; a stop always returns.
* *Job runner*: when the job thread is gone nothing it started is left, and it
  starts no task on top of its own earlier run of it, whatever other runners of the
  same job do. A runner that is alone with its job runs again exactly what did not
  succeed, and a published status is true.
* *Worker and engine*: at most one job thread, and the engine can stop it; jobs
  and runners are freed once and not while they are in use; every request ends.
* *Thread pool and server*: every connection has one owner and is closed once; no
  thread sleeps through its wakeup; a stop ends the server with nothing left.
* *Client protocol*: a connection applies at most what one complete request asks
  for, an answer object with an Error means that nothing was applied, every
  connection ends, and what it allocated is freed.
* *JSON*: what is written fits what was measured, and reads back as what was
  written.
* *Start*: a running server stays reachable whatever other instances with the same
  port do, as long as they are started one at a time; a process that ends by itself
  leaves neither port nor path behind; and what a crash leaves behind does not keep
  the service down.

## The modules

| Module | Models | Used by |
| --- | --- | --- |
| `Task` | task thread, child process, cancellation, `task_run` | `TaskRunner`, `JobRunner` |
| `TaskRunner` | the task runner's API on top of `Task` | `MCTaskRunner`, `TaskRunnerProofs` |
| `JobRunner` | job thread, its handlers, the runner's API and a concurrent `job_get_status`, on top of `Task` | `MCJobRunner`, `JobRunnerProofs` |
| `JobExecution` | abstract job: one thread, outside of whose life nothing happens to the tasks | refined by `JobRunner`, the reduction `Worker` uses |
| `Worker` | worker, engine, dispatch of requests, `worker_destroy` | `MCWorker`, `WorkerProofs` |
| `BoundedQueue` | abstract closable first-in first-out queue | refined by `ThreadPool` |
| `ThreadPool` | pool, accept loop, signal handler, server shutdown | `MCThreadPool`, `ThreadPoolProofs` |
| `Startup` | `main`, `server_create`, `server_destroy`, listeners, signals and crashes of several instances | `MCStartup`, `StartupProofs` |
| `Json` | JSON values, lookup and building, tokens and their sizes | `JobJson`, `JsonText` |
| `JsonText` | `json_parse_ex`, `json_measure_ex`, `json_serialize_ex` | `MCClient`, as the library of `Client` |
| `JobJson` | decoding and encoding of jobs, tasks and statuses, and what it means that a document describes a job | `Client` |
| `Exchange` | abstract connection: a text, at most one effect, at most one answer | refined by `Client` |
| `Client` | `client_handle_fd` with a network that cuts requests and memory that runs out | `MCClient`, `ClientProofs` |
| `TaskProofs` | lemmas about task threads and children | `TaskRunnerProofs`, `JobRunnerProofs` |
| `TaskRunnerProofs`, `JobRunnerProofs`, `WorkerProofs`, `ThreadPoolProofs`, `StartupProofs`, `ClientProofs` | theorems about the module of that name | |

Definitions named `Fault...` are deliberately wrong variants of the definition
below them. No specification uses them; they exist to show that the property
they are meant to break is able to fail (`PROJECT.json`, `mutants`). Two properties
have a second half, which `FaultPassOver` (`RunsWhatIsLeft`) and `FaultReleaseOrder`
(`Outlive`) break.

### Task and TaskRunner

`status`, `thr`, `cancel`, `proc` and `info` hold, for each task, `Task.status`,
the place of the runner thread, a pending `pthread_cancel`, the child and
`TaskRunner.info`. `waitpid` is the only cancellation point of the thread, so a
request made before stays pending until the thread gets there (`ActOnCancel`),
where the cleanup handler sends SIGINT and waits again. `ProcExit` is the
environment: a child exits with 0, with another code, or dies of a signal; one
that was interrupted may still do any of these. `task_run` is two steps,
`TaskRun` and `TaskRunEnd`, because it writes `TASK_RUNNING` a second time after
the thread exists. When `posix_spawn` fails (`SpawnMayFail`) the code goes on
without a child, and the status `waitpid` leaves uninitialised may decode to any
outcome.

`TaskRunner` adds one owner per task. `Call` is the `pthread_cancel` of stop,
restart and destroy, `Return` the `pthread_join` and what follows it.

### JobRunner

The job thread is the program counter `jpc`. Both thread functions of `job.c`
share the actions: `Scan` and `Set` are the loop over the tasks, `Wait` and
`Joining` the joins (the only cancellation points), `Pop`, `Handler` and
`HandlerJoin` the cleanup handlers, `Report`, `Success` and `Reset` the
bookkeeping of an attempt. The execution and run modes are chosen in `Init`. The
controller is the one owner `job.h` asks for. The reader (`WithReader`) is an API
thread in `job_get_status`: it reads one task per step and then writes
`Job.status`, of which only "completed" is ever asked for. The counters saturate at
`MaxCount`.

The module follows one runner. The job may have others: `engine_run` creates the new
job thread before it destroys the old runner, and a start or restart that finds an
assigned worker does that on the same job (`worker.c:201`, `220`). A client that sends
run and then start, when no task is running yet or between two of them, gets two job
threads on one list of tasks for a while. Each has its own task threads, children and
info; what they share is `Task.status` and `Job.status`. `OtherRunner` is that: it
writes any status to any task at any time, up to `MaxWrites` times, and counts in
`others`; to `Job.status` it writes as the reader does. So `JobRun` needs `jpc = "none"` of
the runner that is followed and says nothing of the others, and the properties are of
three kinds:

* about this runner, whatever the others write: `NoOrphans`, `OneAtATime`,
  `NoDoubleRun`, `ImplementsExecution`, `StopReturns`, `WaitReturns`;
* about the job, as long as no other runner has written to it (`others = 0`):
  `RunsWhatIsLeft`, `CompletedIsTrue`;
* what is not kept: two runners may both start a ready task, a sequential job may have
  a child for each, and a runner that has read READY may run a task the other has
  completed. The code does nothing against that, and no property says otherwise.

### Worker

`req` is the call each API thread is in, as a record of the command, its place
and the pointers it carries. `Request` is the dispatch of `client_handle_fd` and
of the function table. Commands take `lock`; signals do not. `UpdateStatus` and
`Switch` are `update_status` and the switch on its result, `JobRun`, `Cancel`,
`Join` and the three `...End` actions what the engine does with its runner, split
where another thread may act in between. `Refuse` and `Crash` are a refused
command: it returns NULL and `json_object_push` reads through it. The job threads
of `JobRunner` are reduced to `JobStep` and `JobEnd`, the `Work` and `End` of
`JobExecution`, which `JobRunner` is shown to implement; all a request notices of a job
thread is the status of its job, so `JobStep` is any write of it. Two threads on one
job are among the states of `Worker`. Handles, jobs and runners
are drawn from small sets and reused, because the engine keeps the handle of a
joined thread and cancels it later. `DestroyBegin`, `DestroyStopEnd` and
`DestroyJob` are `worker_destroy` on the main thread.

### ThreadPool and BoundedQueue

`pc` is the place of main (thread 0) and the workers, `frame` that of a signal
handler on top of a thread, `held` the descriptor each thread owns, `net` the
operating system's view of it. Condition variables are the place "waiting":
`GotoAndSignal` wakes one waiter, `GotoAndWake` all, and `SpuriousWakeup` any one
at any time. Main runs `thread_pool_create` (with its failure path, which writes
the flag and broadcasts without the mutex), `server_run`, `thread_pool_submit` and
`server_destroy`. `Contents` maps the ring to the sequence of `BoundedQueue`.

### Startup

`proc` holds for each process its place in `main`, what it owns (site, logger,
pyoneer, server), its listeners and whether the handlers are installed; `port` and
`path` are the kernel's side. `SiteCreate` to `PoolCreate` are the steps up to a
running server, each with its failure; `Cleanup` to `Release` the cleanup, in
which `server_destroy` is also reached from `server_create`. A listener that was
never opened is `Blank`: descriptor 0 and, since `EP_UNIX` is 0, a socket without
a path. The pool pointer is `"unset"` until `thread_pool_create` has returned, and
`server_destroy` may die on it. `Die` leaves the path behind. A task inherits the
listening sockets (`TaskRuns`, `ClosePort`): the port stays taken until it ends.
`BadRequest` is a command to a server whose `worker_create` failed or whose role
is manager. Failures, signals and deaths count as events.

### Json, JsonText and JobJson

A text is a sequence of tokens that know their number of bytes; a string or
literal of which only the beginning is there is the token `Part`. In `JsonText`,
`Read` is one round of the parser's loop with its flags (`SeekValue`, `BeginValue`, `InObject`,
`Complete`). It accepts what the code accepts: a comma before a closing bracket,
the first of two members with the same name, and anything after a NUL. The
writer exists twice, as in the code: `MeasureValue` counts and `SerializeValue`
writes. `JobHeader` and `task_decode` are `job_decode`; a 64-bit id becomes an int
of at most `IntMax`, the rest wrapped around (`AsInt`). `Describes` says what a job is in a document with
quantifiers over members, without the lookup and the loops of the decoder.

### Client and Exchange

`c` is the handler, with its place and its pointers, `peer` the client and what
is left of its text, `worker` the job the worker has and whether it ever ran,
`heap` counts of what is allocated. `Recv` returns any beginning of the text,
also inside a token. Memory may run out anywhere: `NewResp`, `Parse`, `Decode`,
`DecodeTask`, `Take` and `Push` say what happens then, which includes lost values
and reads through NULL (`Die`). In its second pass the parser loses the value at hand
and everything open around it but the outermost (`Losses`); a status may lack a member
at any level (`Incomplete`); and when there is no memory for the request there may be
none for the Error either (`OutOfMemory`). There are two kinds of Error: an object with
a quoted message, for a request that is turned down, and the text `Raw`, whose message
is not quoted, for an answer that does not fit and for a handler without memory. Only
the first one means that nothing was done. `Exchange` knows only the text, the phase of the
connection and the job; `Asks` compares texts with the text of a document and
never parses.

The JSON library is a parameter of `Client`: `ParseText`, `MeasureText` and
`WriteText` stand for `json_parse_ex`, `json_measure_ex` and `json_serialize_ex`,
and `MCClient.cfg` gives them the operators of `JsonText`, so the run has the
real parser and writer. The handler's theorems need only three things of the
library, all named assumptions that TLC evaluates on the texts of the run
`requests`: JSON values have the shape of `json.h` (`ValuesAssumption`), an
object read from a piece of a text is one the text begins with
(`ParserAssumption`), and the six answers with an Error and the empty one fit the
buffer (`AnswerAssumption`). The second is what makes a request that was cut harmless: an
object is closed by its bracket, and what follows the bracket does not matter. It
does not hold of numbers, and the handler accepts only objects.

## The runs

| Run | Configuration | Distinct states | Result |
| --- | --- | --- | --- |
| `task_runner` | 1 task | 1,086 | `OutcomeRecorded`, `CompletedExited0`, `StopReturns` hold |
| `job` | 2 tasks, failing spawns, 1 write of another runner, fairness | 1.1 million | `TypeOK`, `NoOrphans`, `OneAtATime`, `NoDoubleRun`, `RunsWhatIsLeft`, `ImplementsExecution`, `StopReturns`, `WaitReturns` hold |
| `job_status` | 2 tasks, a reader | 3.7 million | `CompletedIsTrue` holds |
| `job_settled` | 2 tasks | | `Settled` is violated |
| `pool_safety` | 2 workers, 3 connections, 2 endpoints, 2 slots, 2 signals | 1.3 million | `TypeOK`, `OneOwner`, `NoMissedWakeup`, `NothingLeft`, `ImplementsQueue` hold |
| `pool_liveness` | 2 workers, 2 connections, 2 endpoints, 1 slot, 1 signal, fairness | 14 thousand | `AcceptedIsClosed`, `StopCompletes` hold |
| `pool_signal` | 1 worker, 1 connection, 1 signal, fairness | | `StopCompletes` is violated |
| `worker_requests` | 2 API threads, 2 jobs, 2 runners, 2 handles, fairness | 150 thousand | `TypeOK`, `OneJobThread`, `NothingLost`, `RunFreesIdleJob`, `RequestEnds` hold |
| `worker_signals` | the same, signals at any time | | `OneJobThread` is violated |
| `worker_destroy` | the same, serial signals | | `DestroyStopsWork` is violated |
| `startup` | 2 instances, 8 configurations, 3 events, fairness | 292 thousand | `TypeOK`, `RunningIsReachable`, `NothingLeftBehind`, `Outlive`, `RecoversFromStalePath` hold |
| `requests` | 2 connections, 39 texts, 1 failure, 4 writer options, fairness | 263 thousand | `TypeOK`, `MemoryBalance`, `ErrorTellsEffect`, `AnswerFits`, `AnswerReadable`, `ImplementsExchange`, `ConnectionEnds` hold |

### Why the bounds are enough

* *Tasks.* A task runner shares nothing with another one, so one task shows all
  there is. In a job the tasks meet through the job thread's list: with two there
  is a task before, at and after the position of the thread, a joined and an
  unjoined one when a cancellation hits, and a mixed result for the status scan.
* *MaxCount.* The counters saturate at 1, or are not kept; no property looks at them.
* *MaxWrites.* One write is any status on any task at any moment of the runner's life:
  it makes a task ready that is done, running or being cancelled, or takes one away
  from the walk. A second write would hit a task that the runner has passed or not yet
  reached. The theorems hold for any number.
* *Pool.* Two slots let the ring wrap while it is neither full nor empty; two
  workers let a wakeup go to the wrong one; three connections fill the queue with
  main waiting. Two signals put handlers on two threads at once. The theorems
  below have no bounds.
* *Worker.* Two API threads give every pair of requests. The mutex lets one
  command at a time create a runner, so two runners and two handles hold the old
  and the new one. With two jobs a request can bring a job while the worker has
  another; that two waiting requests bring one each while the worker has a third
  is not reached.
* *Startup.* Two instances share a port and a path: one runs while the other one
  fails, or one cleans up after the other. Three events are enough for a crash
  that leaves the path, a failure of the next start, and a signal in its cleanup.
* *Requests.* Two connections let the second meet the job of the first. One
  failure per behaviour hits every allocation in turn; the code does not retry, so
  two failures in one request end at the first, but for those that go unnoticed.
  The buffer of 150 bytes lets most answers fit and the status of two tasks not,
  as 4096 does for longer jobs. With `IntMax = 7`, the ids 8, 16 and 17 become
  negative, zero and another id. The texts hold every command, jobs that are wrong
  in one way each, requests without a good token or command, and texts that are
  more or less than a document.

### Assumptions on the environment

Where a property needs the environment to behave, a constant says so, and another
run shows what happens when it does not.

* `SafeSignals`: signals spare the thread that holds the pool's mutex. Assumed by
  `pool_liveness`, dropped by `pool_safety` and `pool_signal`.
* `SerialSignals`: a client sends start, stop or restart only while no other
  request is executed. Assumed by `worker_requests`, dropped by `worker_signals`.
* `MaxWrites`: other runners of a job write a bounded number of times, so liveness is
  that of a runner that is left alone in the end. `engine_run` destroys the old runner
  right after it made the new one.
* `MayStart`: nobody starts an instance while another one is on its way up or
  down. Without it a server that ends unlinks the path a new one has just bound.
* `Token`: the server's copy of its token was made (`strdup`, `server.c:222`, is
  not checked; without it no token is compared).
* `ParserAssumption`, `AnswerAssumption`: see `Client` above. They are facts about `json.c`
  and `json-builder.c`, not about the environment; TLC checks them on `JsonText`.
* `SpawnMayFail`, `CreateMayFail`: `posix_spawn` and `pthread_create` may fail.

`CHECK_DEADLOCK FALSE` appears where the code does deadlock: in the signal handler
and in the failure path of `thread_pool_create`.

### Fairness

* Weak fairness on the steps of every thread: the operating system schedules it.
* Strong fairness where a mutex is taken: it is free again and again, and a
  thread that waits for it is not passed over for ever.
* A child that got SIGINT ends. A child that did not may run for ever; only
  `WaitReturns` assumes that children end by themselves (`ChildrenEnd`).
* A worker ends the request it serves: the client sends one or goes away, since
  `recv` has no timeout.
* In `Worker`, a job thread that was cancelled ends. `StopReturns` of `JobRunner`
  shows it.
* `Startup`: processes are scheduled, tasks end, a process that hangs in
  `thread_pool_create` is killed, and a complete configuration is started again
  and again (strong fairness, since another instance may be in the way).
* `Client`: the handler is scheduled, and a client that has connected sends
  something or goes away. One that has sent may wait for ever.

No fairness is assumed for signals, spurious wakeups, or jobs that are
not cancelled.

### Where code and documentation disagree

* `Settled` (`task.c:178`): `task_run` writes `TASK_RUNNING` after the thread may
  have recorded the final status. The job has ended, its task says running.
* `StopCompletes` without `SafeSignals` (`server.c:277`): `server_stop` takes a
  mutex in a signal handler, against `server.h:18`.
* `OneJobThread` without `SerialSignals` (`worker.c:215`): two start requests each
  create a job thread and one is lost, against "All public functions are
  thread-safe" in `worker.h:8`.
* `DestroyStopsWork` (`worker.c:69`): `worker_destroy` has no case for an assigned
  worker, against `worker.h:42`.

Seen while modelling, without a run of their own:

* `thread_pool.c:131`: when a worker cannot be created, one between its test and
  its wait misses the flag and the broadcast, and is joined for ever. `ThreadPool`
  reaches that state, `Startup` has it as the place "hung".
* `worker.c:220`, `engine.c:32`: a start that follows a run closely finds the job READY
  and starts a second job thread on it. Until the first is stopped the same task may
  run twice.
* `client.c:318`: the text for an answer that is too long is not JSON; line 314
  promises to keep the connection, line 365 closes it. A run or assign has been
  applied by then, although the client reads an Error.
* `pyoneer.h` and `main` accept the id 1, `worker_create` does not, and nobody
  looks: the first command kills the server.
* `server.c:71`: a path longer than `sun_path` is cut when it is bound and not when
  it is unlinked.
* `job.c:134`: a caller of `job_get_status` may read back the status that another
  caller has written, so that a success is not counted. Nothing reads the counters.
* `cli/cmd/worker.go:22`: `run --parallel` sends a member that `job_decode` does
  not read; the job runs sequentially.

## The proofs

A theorem holds for every value of the constants, from the named assumptions of
the modules alone (`TaskAssumption`, `JobAssumption`, `WorkerAssumption`,
`PoolAssumption`, `StartupAssumption`, `ClientAssumption`, `WidthAssumption`,
`ValuesAssumption`, `ParserAssumption`, `AnswerAssumption`): counts are natural numbers, positive where
the code has at least one, the values that stand for "none" are not members of
the sets they are added to, configurations are records of the right shape, and the JSON
library does what `Client` needs of it. No set has to be finite, and the fairness of the specifications is not used.

| Module | Theorem | States |
| --- | --- | --- |
| `TaskRunnerProofs` | `Outcome` | `OutcomeRecorded`, if `posix_spawn` does not fail |
| | `Completed` | `CompletedExited0` |
| `JobRunnerProofs` | `TypeCorrect`, `Orphans`, `Sequential`, `PublishedStatus` | `TypeOK`, `NoOrphans`, `OneAtATime`, `CompletedIsTrue` |
| | `SingleRun`, `RunsTheRest` | `NoDoubleRun`, `RunsWhatIsLeft` (action properties) |
| | `Implements` | `ImplementsExecution`, the refinement of `JobExecution` |
| `WorkerProofs` | `TypeCorrect` | `TypeOK` |
| | `OneThread`, `NoLoss` | `OneJobThread`, `NothingLost`, if `SerialSignals` |
| | `FreesIdleJob` | `RunFreesIdleJob` (action property), if `SerialSignals` |
| `ThreadPoolProofs` | `TypeCorrect`, `Ownership`, `Wakeups`, `CleanEnd` | `TypeOK`, `OneOwner`, `NoMissedWakeup`, `NothingLeft` |
| | `Implements` | `ImplementsQueue`, the refinement of `BoundedQueue` |
| `StartupProofs` | `TypeCorrect`, `Reachable`, `LeavesNothing`, `Lifetimes` | `TypeOK`, `RunningIsReachable`, `NothingLeftBehind`, `Outlive` |
| `ClientProofs` | `TypeCorrect`, `Memory`, `Errors` | `TypeOK`, `MemoryBalance`, `ErrorTellsEffect` |
| | `Implements` | `ImplementsExchange`, the refinement of `Exchange` |

In every module they follow from `Invariant`, `Spec => []IInv` (`Inv` in
`ClientProofs`), which rests on a lemma for the initial states and one for the
steps (`InvariantInit` and `InvariantStep`, `InitHolds` and `Inductive`), with one step or lemma per action. Each `IInv`
was checked by TLC on the bounds of its module's runs before it was proved (for
`JobRunner` with all four combinations of `SpawnMayFail` and `WithReader`). None of
the properties is inductive by itself; what `IInv` adds is the reason why they
hold.

### Task runners

`TaskInv`, in `TaskProofs`, is what a thread and its child keep true whoever owns
the runner: a child exists only between `posix_spawn` and the `waitpid` of its
thread or of that thread's cleanup handler (`ChildOfThread`); a thread marks its
task running before it waits (`RunningWhileWaiting`), so that a completed task in
front of a waiting thread cannot be an old result; a thread that waited for a
child leaves something in `info` (`ChildAwaited`, `InfoLeft`); completed goes with
exit code 0 (`CompletedHas0`). It has two halves: `ThreadInv`, which is about threads and
children and does not depend on `status`, and `StatusInv`, which does. One lemma per
operation of `Task` shows that it keeps both; `TaskRunner` and `JobRunner` use the same
lemmas, `JobRunner` the second half only while no other runner has written. `OutcomeRecorded` needs
a `posix_spawn` that works, as in its run: after a failed one the status decoded is
what the stack held, and may be neither an exit nor a signal.

### Job runner

The places, the array and the threads (`WalkInv`, `SequentialInv`, `LiveInv`,
`ThreadInv`) do not depend on what the tasks' statuses say, so they
survive a write of another runner. What does depend on them (`StatusInv`, `RecordInv`,
`ReadInv`) is claimed under `others = 0`.

* `WalkInv` and `SequentialInv`: where the position in the task list and the array
  of runners are at each place of the job thread. A task enters the array only
  when the walk has passed it, so no task is started twice in one attempt.
* `LiveInv`: a task with a thread is the one `task_run` is starting, or is in the
  array behind the joins done so far. The cleanup handlers go through exactly that
  part of the array, wherever the cancellation hit. `NoOrphans`, `OneAtATime` and
  `NoDoubleRun` rest on it.
* `RecordInv`, `RepeatInv`: in a job that runs once, a task that has exited with 0
  is completed, or running because of the late second write of `task_run`; the walk
  starts neither and passes over no other. `RunsWhatIsLeft` rests on it.
* `ReadInv`: what a reader of `job_get_status` has concluded from the tasks it has
  passed stays true, because an exit code 0 stays. This is why a scan without a
  lock may publish "completed". Lemma `Derived` says the same of the scan of the job
  thread, and `Ranks` why the order of the statuses is the right one.

`Implements` shows that to its owner a runner is one thread (`JobExecution`). It rests on
lemma `NothingRuns`: at every place where the job thread can end, and after it, no
task has a thread or a child, so that a step of a task or a child is always one under
a living job thread (`TaskExecutes`).

### Worker and engine

`TypeOK` holds whatever clients do. The rest is proved while the process is not
closing and under `SerialSignals`; `worker_signals` shows that it fails without.

* `ExclusionInv`: a command between the mutex and its release holds it, a signal is
  alone. Lemma `Alone` concludes that at most one thread is inside.
* `PlaceInv`: which call can be at which place.
* `EngineInv`: the runner a call is stopping is the engine's, the one it has
  created is another one. Handles may coincide, runners do not.
* `RunnerInv`, `JobInv`: every runner and job in use belongs to the engine, the
  worker or a call, and no two calls bring the same job. This is `NothingLost` with
  the reason that nothing is freed twice.
* `ThreadInv`: every thread not yet joined belongs to the engine's runner, before
  it was joined, or to the runner a call has created. At rest that is
  `OneJobThread`; at the `Replace` of a run it says that the old job has no thread,
  which is `RunFreesIdleJob`.

### Thread pool

* `LockInv`: a thread inside a critical section owns the mutex, and no handler is
  inside one on top of such a thread. Without it two threads could move the ring
  at a time.
* `HeldInv`: a thread owns a connection exactly between taking it and handing it
  on. It makes the ownership of a pushed, popped or closed connection known.
* `RingInv`: the tail is `qlen` slots after the head. A push then writes a slot
  that is not in use.
* `SleepInv`: a thread that decided to wait was right to until it waits. This is
  what `NoMissedWakeup` needs at `CondWait`, and where the failure path of
  `thread_pool_create` is exempt.
* `LifeInv`: a worker exits only from an empty queue that is shutting down, so
  nothing can be queued afterwards. `NothingLeft` rests on it.

The lemmas `OwnerPush`, `OwnerPop`, `OwnerAccept` and `OwnerClose` carry the argument
of `OneOwner`; `PushContents` and `PopContents` say what a push and a pop do to the
abstract sequence and carry `Implements`.

### Start and end

`LocalInv` is about one process: what it owns at each place (`OwnsInv`) and how far
its listeners are (`ListenInv`: opened in the order of the endpoints, closed in the
same order, the one at hand closed before its path is unlinked). `GlobalInv` relates
the processes through the kernel:

* `PortInv`: the port belongs to exactly the process whose TCP listener is open.
* `PathInv`: who has bound the path has a listener to unlink it with.
* `OneStarter`, `UnlinksItsOwn`: at most one process is on its way up, and another
  one that will still unlink the path is the one that has bound it.
* `PathIsSafe`: nobody else is going to unlink the path of a server that serves.
  `RunningIsReachable` needs it: an instance that fails unlinks a path it may not
  have bound, and it cannot get that far, because it opens the port first.

`Lifetimes` is about the four objects of `main`. It does not cover a job thread that
`worker_destroy` misses (`DestroyStopsWork`), which may use the `Site` after it is gone,
nor a signal handler that uses `SERVER` after `server_destroy`.

The lemmas `...Moves` say what a step does to its own process; `GlobalQuiet` covers
all steps that the other processes cannot notice, and six lemmas the others.

### Connections

`Inv` has six parts; the last four carry the theorems, and the middle ones are
about a process that has not died.

* `Shape`, `Types`: the records and their fields.
* `Holds`: which of the handler's pointers are NULL at each place, and how far the
  exchange is there. An error object exists only while the phase is still "open",
  the first half of `ErrorTellsEffect`; it would be false if any check came after the
  call into the worker. For the second half `Errors` adds `Replies`: an answer is one of
  the small ones or belongs to a request that has passed the checks.
* `Told`: what the handler read is a piece of what the client sent, the request it
  works on begins that text (here `ParserAssumption` enters), and from the dispatch
  on it has passed every check.
* `Decoding`: halfway through the tasks of a job, the part decoded describes the
  part of the document that was read (`Halfway`); at the call the whole job
  describes the whole document. `AllDone` and `OneMore` are the two ends of that
  loop.
* `Balance`: the heap counts exactly what the worker, the handler and the failed
  calls hold, at every place and not only between connections. `MemoryBalance` is its
  instance at rest; that no counter is negative, in `TypeOK`, needs it at every
  free. The lemmas `Books`, `Numbers` and `NamedFacts` do the arithmetic.

`Implements` maps the handler to `Exchange`: `ExchangeSteps` takes the steps that
open, send, answer and close, `QuietSteps` those that the abstraction does not see,
`DeadStep` a crash, and `CallApplies` the only hard one: the job or signal that the
call hands to the worker is what the client's text asks for. Lemmas `Lookup`, `Modes`,
`IntConversion`, `Header` and `TaskName` relate what the decoders compute to
`IsMember` and `Describes`, which quantify over members and do not search.

### Only model-checked

* Liveness (`StopReturns` of task and job runner, `WaitReturns`, `RequestEnds`,
  `AcceptedIsClosed`, `StopCompletes`, `RecoversFromStalePath`, `ConnectionEnds`): the
  prover has no reasoning about fairness and `ENABLED`.
* `AnswerFits` and `AnswerReadable`: they compare what three recursive operators of
  the JSON library compute for an answer of any depth, which takes induction over
  JSON values. For the same reason `ParserAssumption` is a fact that TLC evaluates
  and not a theorem about `JsonText`.
* The properties that the code violates.

## What is not modelled

* A second signal on top of a handler.
* Reuse of a joined thread's handle inside the job and task runners; `Worker`
  models it for the engine. `kill` and `waitpid` on the uninitialised pid after a failed
  spawn, which may hit or reap the child of another task.
* Two runners of one job side by side: `JobRunner` has one and the writes of the others.
* Characters: the inside of strings and numbers, escapes beyond their number,
  doubles and comments in JSON; the characters of the command line.
* Failed allocations in `thread_pool_create` before its threads, `job_run` and
  `task_run` beyond the results their callers see.
* In `Client` a second handler at the same time: handlers meet only in the worker,
  and `Worker` has those interleavings. A task without a name (a failed `strdup`)
  is followed into the answer, not into its run.
* `engine_run` on a stale handle may cancel the job it just started; `worker_assign`
  frees a job whose thread may live. `Worker` has both behaviours; no property
  forbids them, since the code does not keep it (see the hazards).
* Log lines, the parts of the JSON library the program does not call, and the
  command line client. Manager, crew and project have no implementation.

## State

Modelled, checked and proved: task, job, worker and engine, pool and server loop,
start and end of the process, requests. JSON is modelled and checked, not proved.
