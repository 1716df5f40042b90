----------------------------- MODULE ThreadPool -----------------------------
(***************************************************************************)
(* The accept loop, the thread pool behind it and their shutdown           *)
(* (src/src/api/thread_pool.c, server_run, server_stop and server_destroy  *)
(* of src/src/api/server.c, on_term of src/src/main.c).                    *)
(*                                                                         *)
(* The main thread creates the workers, accepts connections and submits    *)
(* them to a ring buffer guarded by a mutex and two condition variables;   *)
(* the workers take connections out and serve one request each.  SIGINT    *)
(* and SIGTERM run a handler on top of whichever thread they hit.  The     *)
(* handler sets the stop flag and shuts the pool down, for which it takes  *)
(* the mutex.                                                              *)
(*                                                                         *)
(* Between two lock operations a thread runs alone, except for signals and *)
(* for the failure path of thread_pool_create, which writes the shutdown   *)
(* flag without the lock; a critical section is split where they matter.   *)
(***************************************************************************)
EXTENDS Naturals, Sequences

CONSTANTS NWorkers,       \* number of workers
          Conns,          \* file descriptors of connections
          NoFd,           \* no descriptor
          NListeners,     \* number of endpoints
          Ep,             \* the endpoint a connection comes in on
          QCap,           \* capacity of the queue
          MaxSignals,     \* bound on the number of signals delivered
          SafeSignals,    \* do signals spare the thread that holds the lock?
          CreateMayFail   \* may pthread_create fail for a worker?

Listeners == 1..NListeners

ASSUME PoolAssumption ==
  /\ NWorkers \in Nat \ {0}
  /\ NoFd \notin Conns
  /\ NListeners \in Nat \ {0}
  /\ Ep \in [Conns -> Listeners]
  /\ QCap \in Nat \ {0}
  /\ MaxSignals \in Nat
  /\ SafeSignals \in BOOLEAN
  /\ CreateMayFail \in BOOLEAN

Main == 0
Workers == 1..NWorkers
Threads == 0..NWorkers
NoOne == NWorkers + 1

VARIABLES pc,             \* where each thread is
          held,           \* the connection each thread owns
          frame,          \* where the signal handler on each thread is
          lock,           \* owner of the mutex
          queue, qhead, qtail, qlen,
          shutting_down,
          stop_flag,
          ready,          \* endpoints poll reported and not yet served
          net,            \* the operating system's view of a connection
          nsig            \* signals delivered so far

ring == <<queue, qhead, qtail, qlen>>
vars == <<pc, held, frame, lock, ring, shutting_down, stop_flag, ready, net,
          nsig>>

(***************************************************************************)
(* "lock": about to take the mutex; "check": holding it, about to test the *)
(* waiting condition; "sleep": holding it, the test said wait; "waiting":  *)
(* in pthread_cond_wait, main on not_full, a worker on not_empty.          *)
(***************************************************************************)
WorkerPC == {"none", "lock", "check", "sleep", "waiting", "serve", "exited"}
MainPC == {"create", "failflag", "failwake", "failjoin", "top", "poll",
           "accept", "lock", "check", "sleep", "waiting", "reject",
           "destroy", "shutdown", "join", "done"}
FailPC == {"failflag", "failwake", "failjoin"}
FramePC == {"none", "flag", "lock", "body"}

TypeOK ==
  /\ pc \in [Threads -> WorkerPC \cup MainPC]
  /\ pc[Main] \in MainPC
  /\ \A w \in Workers : pc[w] \in WorkerPC
  /\ held \in [Threads -> Conns \cup {NoFd}]
  /\ frame \in [Threads -> FramePC]
  /\ lock \in Threads \cup {NoOne}
  /\ queue \in [0..(QCap - 1) -> Conns \cup {NoFd}]
  /\ qhead \in 0..(QCap - 1)
  /\ qtail \in 0..(QCap - 1)
  /\ qlen \in 0..QCap
  /\ shutting_down \in BOOLEAN
  /\ stop_flag \in BOOLEAN
  /\ ready \in SUBSET Listeners
  /\ net \in [Conns -> {"idle", "pending", "open"}]
  /\ nsig \in 0..MaxSignals

Init ==
  /\ pc = [x \in Threads |-> IF x = Main THEN "create" ELSE "none"]
  /\ held = [x \in Threads |-> NoFd]
  /\ frame = [x \in Threads |-> "none"]
  /\ lock = NoOne
  /\ queue = [i \in 0..(QCap - 1) |-> NoFd]
  /\ qhead = 0 /\ qtail = 0 /\ qlen = 0
  /\ shutting_down = FALSE
  /\ stop_flag = FALSE
  /\ ready = {}
  /\ net = [c \in Conns |-> "idle"]
  /\ nsig = 0

-----------------------------------------------------------------------------
(* Threads, the mutex and the condition variables.                          *)

(* A thread steps only while no signal handler runs on top of it.           *)
At(x, p) == pc[x] = p /\ frame[x] = "none"

Goto(x, p) == pc' = [pc EXCEPT ![x] = p]

Acquire(x) == lock = NoOne /\ lock' = x

Release == lock' = NoOne

(* x goes to p and every other thread that waits in S returns from its wait *)
(* and has to take the mutex again.                                         *)
GotoAndWake(x, p, S) ==
  pc' = [y \in Threads |->
           IF y = x THEN p
           ELSE IF y \in S /\ pc[y] = "waiting" THEN "lock" ELSE pc[y]]

(* pthread_cond_signal wakes one of the waiters in S, if there are any.     *)
GotoAndSignal(x, p, S) ==
  \/ \E y \in S : pc[y] = "waiting" /\ GotoAndWake(x, p, {y})
  \/ (\A y \in S : pc[y] # "waiting") /\ Goto(x, p)

-----------------------------------------------------------------------------
(* The queue.                                                               *)

(* Fault: the tail does not wrap around.                                    *)
FaultPush(c) ==
  /\ queue' = [queue EXCEPT ![qtail] = c]
  /\ qtail' = qtail + 1
  /\ qlen' = qlen + 1
  /\ UNCHANGED qhead

queue_push(c) ==
  /\ queue' = [queue EXCEPT ![qtail] = c]
  /\ qtail' = (qtail + 1) % QCap
  /\ qlen' = qlen + 1
  /\ UNCHANGED qhead

queue_pop ==
  /\ qhead' = (qhead + 1) % QCap
  /\ qlen' = qlen - 1
  /\ UNCHANGED <<queue, qtail>>

-----------------------------------------------------------------------------
(* Both sides of the queue take the mutex, test, and wait.                  *)

(* Fault: the waiting loop does not look at the shutdown flag.              *)
FaultMustWait(x) == IF x = Main THEN qlen = QCap ELSE qlen = 0

MustWait(x) ==
  /\ ~shutting_down
  /\ IF x = Main THEN qlen = QCap ELSE qlen = 0

TakeLock(x) ==
  /\ At(x, "lock")
  /\ Acquire(x)
  /\ Goto(x, "check")
  /\ UNCHANGED <<held, frame, ring, shutting_down, stop_flag, ready, net, nsig>>

DecideToWait(x) ==
  /\ At(x, "check")
  /\ MustWait(x)
  /\ Goto(x, "sleep")
  /\ UNCHANGED <<held, frame, lock, ring, shutting_down, stop_flag, ready, net,
                 nsig>>

(* pthread_cond_wait releases the mutex and waits in one step.              *)
CondWait(x) ==
  /\ At(x, "sleep")
  /\ Release
  /\ Goto(x, "waiting")
  /\ UNCHANGED <<held, frame, ring, shutting_down, stop_flag, ready, net, nsig>>

SpuriousWakeup(x) ==
  /\ At(x, "waiting")
  /\ Goto(x, "lock")
  /\ UNCHANGED <<held, frame, lock, ring, shutting_down, stop_flag, ready, net,
                 nsig>>

-----------------------------------------------------------------------------
(* worker_thread.                                                           *)

(* Fault: a worker leaves although connections are queued.                  *)
FaultWorkerExit(w) ==
  /\ At(w, "check")
  /\ shutting_down
  /\ Release
  /\ Goto(w, "exited")
  /\ UNCHANGED <<held, frame, ring, shutting_down, stop_flag, ready, net, nsig>>

WorkerExit(w) ==
  /\ At(w, "check")
  /\ qlen = 0 /\ shutting_down
  /\ Release
  /\ Goto(w, "exited")
  /\ UNCHANGED <<held, frame, ring, shutting_down, stop_flag, ready, net, nsig>>

(* Fault: the submitter is not told that there is room.                     *)
FaultWorkerPop(w) ==
  /\ At(w, "check")
  /\ qlen > 0
  /\ held' = [held EXCEPT ![w] = queue[qhead]]
  /\ queue_pop
  /\ Goto(w, "serve")
  /\ Release
  /\ UNCHANGED <<frame, shutting_down, stop_flag, ready, net, nsig>>

WorkerPop(w) ==
  /\ At(w, "check")
  /\ qlen > 0
  /\ held' = [held EXCEPT ![w] = queue[qhead]]
  /\ queue_pop
  /\ GotoAndSignal(w, "serve", {Main})
  /\ Release
  /\ UNCHANGED <<frame, shutting_down, stop_flag, ready, net, nsig>>

(***************************************************************************)
(* client_handle_fd: one request, or none when recv fails or is            *)
(* interrupted; it closes the connection on every path.                    *)
(***************************************************************************)
Serve(w) ==
  /\ At(w, "serve")
  /\ net' = [net EXCEPT ![held[w]] = "idle"]
  /\ held' = [held EXCEPT ![w] = NoFd]
  /\ Goto(w, "lock")
  /\ UNCHANGED <<frame, lock, ring, shutting_down, stop_flag, ready, nsig>>

Worker(w) == WorkerExit(w) \/ WorkerPop(w) \/ Serve(w)

-----------------------------------------------------------------------------
(* thread_pool_create, on the main thread.                                  *)

CreateWorker(w) ==
  /\ At(Main, "create")
  /\ pc[w] = "none"
  /\ \A v \in Workers : v < w => pc[v] # "none"
  /\ Goto(w, "lock")
  /\ UNCHANGED <<held, frame, lock, ring, shutting_down, stop_flag, ready, net,
                 nsig>>

PoolCreated ==
  /\ At(Main, "create")
  /\ \A w \in Workers : pc[w] # "none"
  /\ Goto(Main, "top")
  /\ UNCHANGED <<held, frame, lock, ring, shutting_down, stop_flag, ready, net,
                 nsig>>

CreateFails ==
  /\ CreateMayFail
  /\ At(Main, "create")
  /\ \E w \in Workers : pc[w] = "none"
  /\ Goto(Main, "failflag")
  /\ UNCHANGED <<held, frame, lock, ring, shutting_down, stop_flag, ready, net,
                 nsig>>

(* The flag is set and the workers are woken without the lock.              *)
FailFlag ==
  /\ At(Main, "failflag")
  /\ shutting_down' = TRUE
  /\ Goto(Main, "failwake")
  /\ UNCHANGED <<held, frame, lock, ring, stop_flag, ready, net, nsig>>

FailWake ==
  /\ At(Main, "failwake")
  /\ GotoAndWake(Main, "failjoin", Workers)
  /\ UNCHANGED <<held, frame, lock, ring, shutting_down, stop_flag, ready, net,
                 nsig>>

-----------------------------------------------------------------------------
(* server_run and thread_pool_submit, on the main thread.                   *)

LoopTop ==
  /\ At(Main, "top")
  /\ Goto(Main, IF stop_flag THEN "destroy" ELSE "poll")
  /\ UNCHANGED <<held, frame, lock, ring, shutting_down, stop_flag, ready, net,
                 nsig>>

Pending(l) == {c \in Conns : net[c] = "pending" /\ Ep[c] = l}

(* poll: connections, or a timeout or an interruption, or an error, which   *)
(* ends server_run.                                                         *)
Poll ==
  /\ At(Main, "poll")
  /\ \/ /\ ready' = {l \in Listeners : Pending(l) # {}}
        /\ ready' # {}
        /\ Goto(Main, "accept")
     \/ Goto(Main, "top") /\ UNCHANGED ready
     \/ Goto(Main, "destroy") /\ UNCHANGED ready
  /\ UNCHANGED <<held, frame, lock, ring, shutting_down, stop_flag, net, nsig>>

(* The endpoints are visited in order.                                      *)
First(l) == l \in ready /\ \A m \in ready : l <= m

Accept(l) ==
  /\ At(Main, "accept")
  /\ First(l)
  /\ ready' = ready \ {l}
  /\ \/ \E c \in Pending(l) :
          /\ net' = [net EXCEPT ![c] = "open"]
          /\ held' = [held EXCEPT ![Main] = c]
          /\ Goto(Main, "lock")
     \/ UNCHANGED <<net, held, pc>>
  /\ UNCHANGED <<frame, lock, ring, shutting_down, stop_flag, nsig>>

AcceptDone ==
  /\ At(Main, "accept")
  /\ ready = {}
  /\ Goto(Main, "top")
  /\ UNCHANGED <<held, frame, lock, ring, shutting_down, stop_flag, ready, net,
                 nsig>>

(* Fault: a refused connection is not closed.                               *)
FaultSubmitReject ==
  /\ At(Main, "check")
  /\ shutting_down
  /\ Release
  /\ held' = [held EXCEPT ![Main] = NoFd]
  /\ Goto(Main, "accept")
  /\ UNCHANGED <<frame, ring, shutting_down, stop_flag, ready, net, nsig>>

SubmitReject ==
  /\ At(Main, "check")
  /\ shutting_down
  /\ Release
  /\ Goto(Main, "reject")
  /\ UNCHANGED <<held, frame, ring, shutting_down, stop_flag, ready, net, nsig>>

(* Fault: the shutdown flag is not tested again after a wait.               *)
FaultNoRecheck ==
  /\ At(Main, "check")
  /\ qlen < QCap
  /\ queue_push(held[Main])
  /\ held' = [held EXCEPT ![Main] = NoFd]
  /\ GotoAndSignal(Main, "accept", Workers)
  /\ Release
  /\ UNCHANGED <<frame, shutting_down, stop_flag, ready, net, nsig>>

(* Fault: no worker is told that there is work.                             *)
FaultNoSignal ==
  /\ At(Main, "check")
  /\ ~shutting_down
  /\ qlen < QCap
  /\ queue_push(held[Main])
  /\ held' = [held EXCEPT ![Main] = NoFd]
  /\ Goto(Main, "accept")
  /\ Release
  /\ UNCHANGED <<frame, shutting_down, stop_flag, ready, net, nsig>>

SubmitPush ==
  /\ At(Main, "check")
  /\ ~shutting_down
  /\ qlen < QCap
  /\ queue_push(held[Main])
  /\ held' = [held EXCEPT ![Main] = NoFd]
  /\ GotoAndSignal(Main, "accept", Workers)
  /\ Release
  /\ UNCHANGED <<frame, shutting_down, stop_flag, ready, net, nsig>>

(* server_run closes the connection the pool did not take.                  *)
CloseRejected ==
  /\ At(Main, "reject")
  /\ net' = [net EXCEPT ![held[Main]] = "idle"]
  /\ held' = [held EXCEPT ![Main] = NoFd]
  /\ Goto(Main, "accept")
  /\ UNCHANGED <<frame, lock, ring, shutting_down, stop_flag, ready, nsig>>

-----------------------------------------------------------------------------
(* server_destroy and thread_pool_destroy, on the main thread.              *)

DestroyLock ==
  /\ At(Main, "destroy")
  /\ Acquire(Main)
  /\ Goto(Main, "shutdown")
  /\ UNCHANGED <<held, frame, ring, shutting_down, stop_flag, ready, net, nsig>>

Shutdown ==
  /\ At(Main, "shutdown")
  /\ shutting_down' = TRUE
  /\ GotoAndWake(Main, "join", Workers)
  /\ Release
  /\ UNCHANGED <<held, frame, ring, stop_flag, ready, net, nsig>>

(***************************************************************************)
(* Every worker that was created is joined; then the pool is freed and the *)
(* listeners are closed, which drops the connections not yet accepted.     *)
(***************************************************************************)
JoinAll ==
  /\ At(Main, "join") \/ At(Main, "failjoin")
  /\ \A w \in Workers : pc[w] \in {"none", "exited"}
  /\ Goto(Main, "done")
  /\ net' = [c \in Conns |-> IF net[c] = "pending" THEN "idle" ELSE net[c]]
  /\ UNCHANGED <<held, frame, lock, ring, shutting_down, stop_flag, ready, nsig>>

MainThread ==
  \/ PoolCreated \/ CreateFails \/ FailFlag \/ FailWake
  \/ (\E w \in Workers : CreateWorker(w))
  \/ LoopTop \/ Poll \/ (\E l \in Listeners : Accept(l)) \/ AcceptDone
  \/ SubmitReject \/ SubmitPush \/ CloseRejected
  \/ DestroyLock \/ Shutdown \/ JoinAll

-----------------------------------------------------------------------------
(* Signals.  The handler is installed once the pool exists; a signal that   *)
(* arrives when the pool is gone is not modelled.                           *)

HandlerInstalled == pc[Main] \notin {"create", "done"} \cup FailPC

Signal(x) ==
  /\ HandlerInstalled
  /\ nsig < MaxSignals
  /\ pc[x] \notin {"none", "exited"}
  /\ frame[x] = "none"
  /\ SafeSignals => lock # x
  /\ frame' = [frame EXCEPT ![x] = "flag"]
  /\ nsig' = nsig + 1
  /\ UNCHANGED <<pc, held, lock, ring, shutting_down, stop_flag, ready, net>>

(* server_stop: the flag, then thread_pool_shutdown.                        *)
HandlerFlag(x) ==
  /\ frame[x] = "flag"
  /\ stop_flag' = TRUE
  /\ frame' = [frame EXCEPT ![x] = "lock"]
  /\ UNCHANGED <<pc, held, lock, ring, shutting_down, ready, net, nsig>>

(* The mutex is not recursive: if x itself holds it, this never happens.    *)
HandlerLock(x) ==
  /\ frame[x] = "lock"
  /\ Acquire(x)
  /\ frame' = [frame EXCEPT ![x] = "body"]
  /\ UNCHANGED <<pc, held, ring, shutting_down, stop_flag, ready, net, nsig>>

HandlerBody(x) ==
  /\ frame[x] = "body"
  /\ shutting_down' = TRUE
  /\ pc' = [y \in Threads |-> IF pc[y] = "waiting" THEN "lock" ELSE pc[y]]
  /\ Release
  /\ frame' = [frame EXCEPT ![x] = "none"]
  /\ UNCHANGED <<held, ring, stop_flag, ready, net, nsig>>

Handler(x) == HandlerFlag(x) \/ HandlerLock(x) \/ HandlerBody(x)

-----------------------------------------------------------------------------
(* Clients connect at any time; a descriptor number is used again.          *)

Connect(c) ==
  /\ pc[Main] # "done"
  /\ net[c] = "idle"
  /\ net' = [net EXCEPT ![c] = "pending"]
  /\ UNCHANGED <<pc, held, frame, lock, ring, shutting_down, stop_flag, ready,
                 nsig>>

(* The process has ended.                                                   *)
Terminated == pc[Main] = "done" /\ UNCHANGED vars

Sync(x) == TakeLock(x) \/ DecideToWait(x) \/ CondWait(x)

Next ==
  \/ MainThread
  \/ \E w \in Workers : Worker(w)
  \/ \E x \in Threads :
       Sync(x) \/ SpuriousWakeup(x) \/ Signal(x) \/ Handler(x)
  \/ \E c \in Conns : Connect(c)
  \/ Terminated

Spec == Init /\ [][Next]_vars
(***************************************************************************)
(* Every thread is scheduled and gets the mutex eventually if it is free   *)
(* again and again; a client sends its request or goes away, which ends    *)
(* client_handle_fd (recv has no timeout of its own).                      *)
(***************************************************************************)
Fairness ==
  /\ WF_vars(MainThread)
  /\ SF_vars(DestroyLock)
  /\ \A w \in Workers : WF_vars(Worker(w))
  /\ \A x \in Threads :
       /\ SF_vars(TakeLock(x))
       /\ WF_vars(DecideToWait(x) \/ CondWait(x))
       /\ WF_vars(HandlerFlag(x) \/ HandlerBody(x))
       /\ SF_vars(HandlerLock(x))

FairSpec == Spec /\ Fairness

-----------------------------------------------------------------------------
(* Properties.                                                              *)

(* The i-th slot from h around the ring, from 0; the slot of the i-th       *)
(* connection in the queue.                                                 *)
SlotFrom(h, i) == IF h + i < QCap THEN h + i ELSE h + i - QCap

Slot(i) == SlotFrom(qhead, i)

Used == 0..(qlen - 1)

Queued(c) == \E i \in Used : queue[Slot(i)] = c

(***************************************************************************)
(* Every accepted connection has exactly one owner, main, one place in the *)
(* queue or one worker, and whoever owns a connection owns one that is     *)
(* open: none is leaked, closed twice, served twice or used after close,   *)
(* through submission, rejection, shutdown and descriptor reuse.           *)
(***************************************************************************)
OneOwner ==
  /\ \A c \in Conns :
       net[c] = "open" <=> Queued(c) \/ \E x \in Threads : held[x] = c
  /\ \A c \in Conns, x \in Threads : held[x] = c => ~Queued(c)
  /\ \A x, y \in Threads : held[x] = held[y] /\ held[x] # NoFd => x = y
  /\ \A i, j \in Used : queue[Slot(i)] = queue[Slot(j)] => i = j
  /\ \A i \in Used : queue[Slot(i)] # NoFd

(***************************************************************************)
(* Nobody sleeps through a wakeup.  Main waits only while the queue is     *)
(* full and open, work in the queue always has a worker that is awake, and *)
(* no worker waits on a pool that is shutting down, although every push    *)
(* and pop signals a single waiter (the failure path of thread_pool_create *)
(* apart, which does not take the lock).                                   *)
(***************************************************************************)
NoMissedWakeup ==
  /\ pc[Main] = "waiting" => qlen = QCap /\ ~shutting_down
  /\ qlen > 0 => \E w \in Workers : pc[w] # "waiting"
  /\ pc[Main] \notin FailPC =>
       \A w \in Workers : pc[w] = "waiting" => ~shutting_down

(***************************************************************************)
(* When server_destroy has joined the pool nothing is left behind: no      *)
(* connection is open and none is in the queue.                            *)
(***************************************************************************)
NothingLeft ==
  pc[Main] = "done" => qlen = 0 /\ \A c \in Conns : net[c] = "idle"

(***************************************************************************)
(* The ring buffer under its mutex, with the shutdown flag, implements a   *)
(* bounded first-in first-out queue that takes nothing once it is closed.  *)
(***************************************************************************)
Contents == [i \in 1..qlen |-> queue[Slot(i - 1)]]

BQ == INSTANCE BoundedQueue WITH
        Item <- Conns, Capacity <- QCap, items <- Contents,
        closed <- shutting_down

ImplementsQueue == BQ!QSpec

(***************************************************************************)
(* Every accepted connection is closed again, whether it is served or      *)
(* turned away by a shutdown.                                              *)
(***************************************************************************)
AcceptedIsClosed ==
  \A c \in Conns : (net[c] = "open") ~> (net[c] # "open")

(***************************************************************************)
(* After a signal the server drains its queue, joins its workers and ends: *)
(* server.h says that server_stop is safe to call from a signal handler.   *)
(***************************************************************************)
StopCompletes == stop_flag ~> (pc[Main] = "done")
=============================================================================
