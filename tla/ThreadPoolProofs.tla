-------------------------- MODULE ThreadPoolProofs --------------------------
(***************************************************************************)
(* Proofs about ThreadPool, for any number of workers, connections,        *)
(* endpoints and signals and any capacity of the queue.                    *)
(***************************************************************************)
EXTENDS ThreadPool, SequenceTheorems, TLAPS

(* Inside the critical section of the pool's mutex.                         *)
InCS(x) == pc[x] \in {"check", "sleep", "shutdown"}

(***************************************************************************)
(* Who is in the critical section, or in the handler's, owns the mutex.    *)
(* The handler never gets there on top of a thread that is.                *)
(***************************************************************************)
LockInv ==
  \A x \in Threads :
    /\ InCS(x) => lock = x
    /\ frame[x] = "body" => lock = x /\ ~InCS(x)

(* A thread owns a connection exactly between taking and handing it on.     *)
HeldInv ==
  /\ held[Main] # NoFd <=>
       pc[Main] \in {"lock", "check", "sleep", "waiting", "reject"}
  /\ \A w \in Workers : held[w] # NoFd <=> pc[w] = "serve"

RingInv == qtail = Slot(qlen)

(* Why a thread that decided to wait was right to, until it waits.          *)
SleepInv ==
  /\ pc[Main] = "sleep" => qlen = QCap /\ ~shutting_down
  /\ \A w \in Workers :
       pc[w] = "sleep" =>
         qlen = 0 /\ (pc[Main] \notin FailPC => ~shutting_down)

(* The life of the pool, from its creation to the end of its workers.       *)
LifeInv ==
  /\ \A w \in Workers : pc[w] = "exited" => shutting_down /\ qlen = 0
  /\ pc[Main] \in {"create"} \cup FailPC => qlen = 0
  /\ pc[Main] \notin {"create", "done"} \cup FailPC =>
       \A w \in Workers : pc[w] # "none"
  /\ pc[Main] = "done" => \A w \in Workers : pc[w] \in {"none", "exited"}

IInv ==
  /\ TypeOK
  /\ LockInv
  /\ HeldInv
  /\ RingInv
  /\ SleepInv
  /\ LifeInv
  /\ OneOwner
  /\ NoMissedWakeup
  /\ NothingLeft

-----------------------------------------------------------------------------
(* The ring buffer's arithmetic.                                            *)

(***************************************************************************)
(* The step of qhead and qtail, (i + 1) % qcap, wraps around at qcap.      *)
(***************************************************************************)
LEMMA Wrap ==
  ASSUME NEW n \in Nat \ {0}, NEW i \in 0..(n - 1)
  PROVE  (i + 1) % n = IF i + 1 < n THEN i + 1 ELSE 0
<1>1. CASE i + 1 < n
  BY <1>1, SMT
<1>2. CASE i + 1 = n
  BY <1>2, SMT
<1>. QED
  BY <1>1, <1>2

(***************************************************************************)
(* The slots of the queued connections are slots of the ring, and no two   *)
(* of them are the same.                                                   *)
(***************************************************************************)
LEMMA SlotFacts ==
  ASSUME qhead \in 0..(QCap - 1)
  PROVE  /\ \A i \in 0..QCap : Slot(i) \in 0..(QCap - 1)
         /\ \A i, j \in 0..(QCap - 1) : Slot(i) = Slot(j) => i = j
<1>. QED
  BY PoolAssumption DEF Slot, SlotFrom

(***************************************************************************)
(* No connection is numbered like "no descriptor", the main thread is not  *)
(* a worker and there is at least one worker.                              *)
(***************************************************************************)
LEMMA Constants ==
  /\ Main \in Threads
  /\ Main \notin Workers
  /\ Workers \subseteq Threads
  /\ \A x \in Threads : x = Main \/ x \in Workers
  /\ 1 \in Workers
  /\ NoOne \notin Threads
BY PoolAssumption DEF Main, Workers, Threads, NoOne
-----------------------------------------------------------------------------
(* Type correctness.                                                        *)

(* A thread moves and wakes others: the program counters keep their types.  *)
PCType(p) ==
  /\ p \in [Threads -> WorkerPC \cup MainPC]
  /\ p[Main] \in MainPC
  /\ \A w \in Workers : p[w] \in WorkerPC

(***************************************************************************)
(* Moving a thread to a place of its own code and waking waiters (the      *)
(* condition variables' signal and broadcast) keeps the program counters'  *)
(* types.                                                                  *)
(***************************************************************************)
LEMMA GotoType ==
  ASSUME PCType(pc), NEW x \in Threads, NEW p,
         x = Main => p \in MainPC, x # Main => p \in WorkerPC
  PROVE  /\ Goto(x, p) => PCType(pc')
         /\ \A S : GotoAndWake(x, p, S) => PCType(pc')
         /\ \A S : GotoAndSignal(x, p, S) => PCType(pc')
<1>1. Goto(x, p) => PCType(pc')
  BY Constants DEF PCType, Goto, WorkerPC, MainPC
<1>2. ASSUME NEW S, GotoAndWake(x, p, S) PROVE PCType(pc')
  BY <1>2, Constants DEF PCType, GotoAndWake, WorkerPC, MainPC
<1>. QED
  BY <1>1, <1>2 DEF GotoAndSignal

(***************************************************************************)
(* Every action of the accept loop, the workers, the handler and the       *)
(* clients keeps the type invariant.                                       *)
(***************************************************************************)
LEMMA TypeStep ==
  ASSUME TypeOK, [Next]_vars
  PROVE  TypeOK'
<1>. USE PoolAssumption, Constants DEF TypeOK
<1>p. PCType(pc)
  BY DEF PCType
<1>q. PCType(pc') => /\ pc' \in [Threads -> WorkerPC \cup MainPC]
                     /\ pc'[Main] \in MainPC
                     /\ \A w \in Workers : pc'[w] \in WorkerPC
  BY DEF PCType
<1>1. CASE UNCHANGED vars
  BY <1>1 DEF vars, ring
<1>2. ASSUME NEW x \in Threads, Sync(x) \/ SpuriousWakeup(x) PROVE TypeOK'
  <2>1. PCType(pc')
    BY <1>2, <1>p, GotoType
      DEF Sync, TakeLock, DecideToWait, CondWait, SpuriousWakeup, WorkerPC, MainPC
  <2>. QED
    BY <1>2, <1>q, <2>1
      DEF Sync, TakeLock, DecideToWait, CondWait, SpuriousWakeup, ring, Acquire,
          Release
<1>3. ASSUME NEW w \in Workers, Worker(w) PROVE TypeOK'
  <2>1. CASE WorkerExit(w)
    <3>1. PCType(pc')
      BY <2>1, <1>p, GotoType DEF WorkerExit, WorkerPC
    <3>. QED
      BY <2>1, <1>q, <3>1 DEF WorkerExit, ring, Release
  <2>2. CASE WorkerPop(w)
    <3>1. PCType(pc')
      BY <2>2, <1>p, GotoType DEF WorkerPop, WorkerPC
    <3>2. qhead' \in 0..(QCap - 1) /\ qlen' \in 0..QCap
      BY <2>2, Wrap DEF WorkerPop, queue_pop
    <3>. QED
      BY <2>2, <1>q, <3>1, <3>2 DEF WorkerPop, queue_pop, Release
  <2>3. CASE Serve(w)
    <3>1. PCType(pc')
      BY <2>3, <1>p, GotoType DEF Serve, WorkerPC
    <3>. QED
      BY <2>3, <1>q, <3>1 DEF Serve, ring
  <2>. QED
    BY <1>3, <2>1, <2>2, <2>3 DEF Worker
<1>4. CASE MainThread
  <2>1. CASE \E w \in Workers : CreateWorker(w)
    <3>1. PICK w \in Workers : CreateWorker(w)
      BY <2>1
    <3>2. PCType(pc')
      BY <3>1, <1>p, GotoType DEF CreateWorker, WorkerPC
    <3>. QED
      BY <3>1, <1>q, <3>2 DEF CreateWorker, ring
  <2>2. CASE PoolCreated \/ CreateFails \/ FailFlag \/ FailWake
    <3>1. PCType(pc')
      BY <2>2, <1>p, GotoType
        DEF PoolCreated, CreateFails, FailFlag, FailWake, MainPC
    <3>. QED
      BY <2>2, <1>q, <3>1 DEF PoolCreated, CreateFails, FailFlag, FailWake, ring
  <2>3. CASE LoopTop \/ Poll \/ AcceptDone
    <3>1. PCType(pc')
      BY <2>3, <1>p, GotoType DEF LoopTop, Poll, AcceptDone, MainPC
    <3>. QED
      BY <2>3, <1>q, <3>1 DEF LoopTop, Poll, AcceptDone, ring
  <2>4. CASE \E l \in Listeners : Accept(l)
    <3>1. PCType(pc')
      BY <2>4, <1>p, GotoType DEF Accept, MainPC
    <3>. QED
      BY <2>4, <1>q, <3>1 DEF Accept, Pending, ring
  <2>5. CASE SubmitReject \/ CloseRejected
    <3>1. PCType(pc')
      BY <2>5, <1>p, GotoType DEF SubmitReject, CloseRejected, MainPC
    <3>. QED
      BY <2>5, <1>q, <3>1 DEF SubmitReject, CloseRejected, Release, ring
  <2>6. CASE SubmitPush
    <3>1. PCType(pc')
      BY <2>6, <1>p, GotoType DEF SubmitPush, MainPC
    <3>2. qtail' \in 0..(QCap - 1) /\ qlen' \in 0..QCap
      BY <2>6, Wrap DEF SubmitPush, queue_push
    <3>. QED
      BY <2>6, <1>q, <3>1, <3>2 DEF SubmitPush, queue_push, Release
  <2>7. CASE DestroyLock \/ Shutdown \/ JoinAll
    <3>1. PCType(pc')
      BY <2>7, <1>p, GotoType DEF DestroyLock, Shutdown, JoinAll, MainPC
    <3>. QED
      BY <2>7, <1>q, <3>1
        DEF DestroyLock, Shutdown, JoinAll, Acquire, Release, ring
  <2>. QED
    BY <1>4, <2>1, <2>2, <2>3, <2>4, <2>5, <2>6, <2>7 DEF MainThread
<1>5. ASSUME NEW x \in Threads, Signal(x) \/ Handler(x) PROVE TypeOK'
  <2>1. CASE Signal(x)
    <3>1. nsig' \in 0..MaxSignals
      BY <2>1 DEF Signal
    <3>2. frame' \in [Threads -> FramePC]
      BY <2>1 DEF Signal, FramePC
    <3>. QED
      BY <2>1, <3>1, <3>2 DEF Signal, ring
  <2>3. CASE HandlerFlag(x) \/ HandlerLock(x)
    BY <2>3 DEF HandlerFlag, HandlerLock, FramePC, ring, Acquire
  <2>2. CASE HandlerBody(x)
    <3>1. PCType(pc')
      BY <2>2, <1>p DEF HandlerBody, PCType, MainPC, WorkerPC
    <3>. QED
      BY <2>2, <1>q, <3>1 DEF HandlerBody, FramePC, ring, Release
  <2>. QED
    BY <1>5, <2>1, <2>2, <2>3 DEF Handler
<1>6. ASSUME NEW c \in Conns, Connect(c) PROVE TypeOK'
  BY <1>6 DEF Connect, ring
<1>. QED
  BY <1>1, <1>2, <1>3, <1>4, <1>5, <1>6 DEF Next, Terminated

(***************************************************************************)
(* The state after thread_pool_create's assignments has the right types.   *)
(***************************************************************************)
LEMMA InitType == Init => TypeOK
<1>. SUFFICES ASSUME Init PROVE TypeOK
  OBVIOUS
<1>1. PCType(pc)
  BY Constants DEF Init, PCType, WorkerPC, MainPC
<1>2. /\ held \in [Threads -> Conns \cup {NoFd}]
      /\ frame \in [Threads -> FramePC]
      /\ net \in [Conns -> {"idle", "pending", "open"}]
      /\ ready \in SUBSET Listeners
  BY DEF Init, FramePC
<1>3. /\ queue \in [0..(QCap - 1) -> Conns \cup {NoFd}]
      /\ qhead \in 0..(QCap - 1)
      /\ qtail \in 0..(QCap - 1)
      /\ qlen \in 0..QCap
      /\ nsig \in 0..MaxSignals
  BY PoolAssumption DEF Init
<1>. QED
  BY <1>1, <1>2, <1>3 DEF Init, TypeOK, PCType

(***************************************************************************)
(* The variables of the pool and the accept loop keep their types; with    *)
(* the ring's indices this says that queue_push and queue_pop stay inside  *)
(* the array.                                                              *)
(***************************************************************************)
THEOREM TypeCorrect == Spec => []TypeOK
BY InitType, TypeStep, PTL DEF Spec
-----------------------------------------------------------------------------
(* The inductive invariant, conjunct by conjunct.                           *)

(* x has moved to p; of the others only waiters in S have moved, to "lock". *)
Moves(x, p, S) ==
  /\ pc'[x] = p
  /\ \A y \in Threads \ {x} :
       pc'[y] = pc[y] \/ (y \in S /\ pc[y] = "waiting" /\ pc'[y] = "lock")

(***************************************************************************)
(* What a step of one thread does to the program counters of the others:   *)
(* it can only wake them from pthread_cond_wait.                           *)
(***************************************************************************)
LEMMA MovesFacts ==
  ASSUME TypeOK, NEW x \in Threads, NEW p
  PROVE  /\ Goto(x, p) => Moves(x, p, {})
         /\ \A S : GotoAndWake(x, p, S) => Moves(x, p, S)
         /\ \A S : GotoAndSignal(x, p, S) => Moves(x, p, S)
BY DEF TypeOK, Moves, Goto, GotoAndWake, GotoAndSignal

(***************************************************************************)
(* Mutual exclusion is kept: the mutex is taken only when it is free and   *)
(* released only by the thread or the handler that is in the section.      *)
(***************************************************************************)
LEMMA LockStep ==
  ASSUME TypeOK, LockInv, [Next]_vars
  PROVE  LockInv'
<1>. USE Constants DEF LockInv, InCS
<1>1. CASE UNCHANGED vars
  BY <1>1 DEF vars
<1>2. ASSUME NEW x \in Threads, Sync(x) \/ SpuriousWakeup(x) PROVE LockInv'
  <2>1. CASE TakeLock(x)
    BY <2>1, MovesFacts DEF Moves, TakeLock, At, Acquire, TypeOK
  <2>2. CASE DecideToWait(x) \/ CondWait(x) \/ SpuriousWakeup(x)
    BY <2>2, MovesFacts
      DEF Moves, DecideToWait, CondWait, SpuriousWakeup, At, Release, TypeOK
  <2>. QED
    BY <1>2, <2>1, <2>2 DEF Sync
<1>3. ASSUME NEW w \in Workers, Worker(w) PROVE LockInv'
  <2>1. CASE WorkerExit(w) \/ Serve(w)
    BY <2>1, MovesFacts DEF Moves, WorkerExit, Serve, At, Release, TypeOK
  <2>2. CASE WorkerPop(w)
    <3>1. Moves(w, "serve", {Main})
      BY <2>2, MovesFacts DEF WorkerPop
    <3>. QED
      BY <2>2, <3>1 DEF Moves, WorkerPop, At, Release, TypeOK
  <2>. QED
    BY <1>3, <2>1, <2>2 DEF Worker
<1>4. CASE MainThread
  <2>1. ASSUME NEW w \in Workers, CreateWorker(w) PROVE LockInv'
    BY <2>1, MovesFacts DEF Moves, CreateWorker, At, TypeOK
  <2>2. CASE PoolCreated \/ CreateFails \/ FailFlag \/ LoopTop \/ AcceptDone
    BY <2>2, MovesFacts
      DEF Moves, PoolCreated, CreateFails, FailFlag, LoopTop, AcceptDone, At, TypeOK
  <2>3. CASE FailWake
    <3>1. Moves(Main, "failjoin", Workers)
      BY <2>3, MovesFacts DEF FailWake
    <3>. QED
      BY <2>3, <3>1 DEF Moves, FailWake, At, TypeOK
  <2>4. CASE Poll
    BY <2>4, MovesFacts DEF Moves, Poll, At, TypeOK
  <2>5. ASSUME NEW l \in Listeners, Accept(l) PROVE LockInv'
    BY <2>5, MovesFacts DEF Moves, Accept, At, TypeOK
  <2>6. CASE SubmitReject \/ CloseRejected
    BY <2>6, MovesFacts DEF Moves, SubmitReject, CloseRejected, At, Release, TypeOK
  <2>7. CASE SubmitPush
    <3>1. Moves(Main, "accept", Workers)
      BY <2>7, MovesFacts DEF SubmitPush
    <3>. QED
      BY <2>7, <3>1 DEF Moves, SubmitPush, At, Release, TypeOK
  <2>8. CASE DestroyLock
    BY <2>8, MovesFacts DEF Moves, DestroyLock, At, Acquire, TypeOK
  <2>9. CASE Shutdown
    <3>1. Moves(Main, "join", Workers)
      BY <2>9, MovesFacts DEF Shutdown
    <3>. QED
      BY <2>9, <3>1 DEF Moves, Shutdown, At, Release, TypeOK
  <2>10. CASE JoinAll
    BY <2>10, MovesFacts DEF Moves, JoinAll, At, TypeOK
  <2>. QED
    BY <1>4, <2>1, <2>2, <2>3, <2>4, <2>5, <2>6, <2>7, <2>8, <2>9,
       <2>10 DEF MainThread
<1>5. ASSUME NEW x \in Threads, Signal(x) \/ Handler(x) PROVE LockInv'
  <2>1. CASE Signal(x)
    <3>1. /\ pc' = pc /\ lock' = lock
          /\ frame' = [frame EXCEPT ![x] = "flag"]
      BY <2>1 DEF Signal
    <3>. QED
      BY <3>1 DEF TypeOK
  <2>2. CASE HandlerFlag(x)
    BY <2>2 DEF HandlerFlag, TypeOK
  <2>3. CASE HandlerLock(x)
    BY <2>3 DEF HandlerLock, Acquire, TypeOK
  <2>4. CASE HandlerBody(x)
    BY <2>4 DEF HandlerBody, Release, TypeOK
  <2>. QED
    BY <1>5, <2>1, <2>2, <2>3, <2>4 DEF Handler
<1>6. ASSUME NEW c \in Conns, Connect(c) PROVE LockInv'
  BY <1>6 DEF Connect
<1>. QED
  BY <1>1, <1>2, <1>3, <1>4, <1>5, <1>6 DEF Next, Terminated
(***************************************************************************)
(* What a worker takes from the queue is a connection.                     *)
(***************************************************************************)
LEMMA HeadIsConn ==
  ASSUME TypeOK, OneOwner, qlen > 0
  PROVE  queue[qhead] \in Conns
<1>1. 0 \in Used /\ Slot(0) = qhead
  BY PoolAssumption DEF TypeOK, Used, Slot, SlotFrom
<1>2. queue[qhead] # NoFd
  BY <1>1 DEF OneOwner
<1>. QED
  BY <1>2, PoolAssumption DEF TypeOK

(***************************************************************************)
(* The owner of a connection changes together with the place in the code.  *)
(***************************************************************************)
LEMMA HeldStep ==
  ASSUME TypeOK, OneOwner, HeldInv, [Next]_vars
  PROVE  HeldInv'
<1>. USE PoolAssumption, Constants DEF TypeOK, HeldInv
<1>1. CASE UNCHANGED vars
  BY <1>1 DEF vars, ring
<1>2. ASSUME NEW x \in Threads, Sync(x) \/ SpuriousWakeup(x) PROVE HeldInv'
  <2>1. CASE TakeLock(x)
    <3>1. Moves(x, "check", {})
      BY <2>1, MovesFacts DEF TakeLock
    <3>. QED
      BY <2>1, <3>1 DEF Moves, TakeLock, At, Acquire
  <2>2. CASE DecideToWait(x)
    <3>1. Moves(x, "sleep", {})
      BY <2>2, MovesFacts DEF DecideToWait
    <3>. QED
      BY <2>2, <3>1 DEF Moves, DecideToWait, At, MustWait
  <2>3. CASE CondWait(x)
    <3>1. Moves(x, "waiting", {})
      BY <2>3, MovesFacts DEF CondWait
    <3>. QED
      BY <2>3, <3>1 DEF Moves, CondWait, At, Release
  <2>4. CASE SpuriousWakeup(x)
    <3>1. Moves(x, "lock", {})
      BY <2>4, MovesFacts DEF SpuriousWakeup
    <3>. QED
      BY <2>4, <3>1 DEF Moves, SpuriousWakeup, At
  <2>. QED
    BY <1>2, <2>1, <2>2, <2>3, <2>4 DEF Sync
<1>3. ASSUME NEW w \in Workers, Worker(w) PROVE HeldInv'
  <2>1. CASE WorkerExit(w)
    <3>1. Moves(w, "exited", {})
      BY <2>1, MovesFacts DEF WorkerExit
    <3>. QED
      BY <2>1, <3>1 DEF Moves, WorkerExit, At, Release
  <2>2. CASE WorkerPop(w)
    <3>1. Moves(w, "serve", {Main})
      BY <2>2, MovesFacts DEF WorkerPop
    <3>. QED
      BY <2>2, <3>1, HeadIsConn DEF Moves, WorkerPop, At, queue_pop, Release
  <2>3. CASE Serve(w)
    <3>1. Moves(w, "lock", {})
      BY <2>3, MovesFacts DEF Serve
    <3>. QED
      BY <2>3, <3>1 DEF Moves, Serve, At
  <2>. QED
    BY <1>3, <2>1, <2>2, <2>3 DEF Worker
<1>4. CASE MainThread
  <2>1. ASSUME NEW w \in Workers, CreateWorker(w) PROVE HeldInv'
    <3>1. Moves(w, "lock", {})
      BY <2>1, MovesFacts DEF CreateWorker
    <3>. QED
      BY <2>1, <3>1 DEF Moves, CreateWorker, At
  <2>2. CASE PoolCreated
    <3>1. Moves(Main, "top", {})
      BY <2>2, MovesFacts DEF PoolCreated
    <3>. QED
      BY <2>2, <3>1 DEF Moves, PoolCreated, At
  <2>3. CASE CreateFails
    <3>1. Moves(Main, "failflag", {})
      BY <2>3, MovesFacts DEF CreateFails
    <3>. QED
      BY <2>3, <3>1 DEF Moves, CreateFails, At
  <2>4. CASE FailFlag
    <3>1. Moves(Main, "failwake", {})
      BY <2>4, MovesFacts DEF FailFlag
    <3>. QED
      BY <2>4, <3>1 DEF Moves, FailFlag, At
  <2>5. CASE FailWake
    <3>1. Moves(Main, "failjoin", Workers)
      BY <2>5, MovesFacts DEF FailWake
    <3>. QED
      BY <2>5, <3>1 DEF Moves, FailWake, At
  <2>6. CASE LoopTop
    BY <2>6, MovesFacts DEF Moves, LoopTop, At
  <2>7. CASE Poll
    BY <2>7, MovesFacts DEF Moves, Poll, At
  <2>8. ASSUME NEW l \in Listeners, Accept(l) PROVE HeldInv'
    BY <2>8, MovesFacts DEF Moves, Accept, At, Pending
  <2>9. CASE AcceptDone
    <3>1. Moves(Main, "top", {})
      BY <2>9, MovesFacts DEF AcceptDone
    <3>. QED
      BY <2>9, <3>1 DEF Moves, AcceptDone, At
  <2>10. CASE SubmitReject
    <3>1. Moves(Main, "reject", {})
      BY <2>10, MovesFacts DEF SubmitReject
    <3>. QED
      BY <2>10, <3>1 DEF Moves, SubmitReject, At, Release
  <2>11. CASE SubmitPush
    <3>1. Moves(Main, "accept", Workers)
      BY <2>11, MovesFacts DEF SubmitPush
    <3>. QED
      BY <2>11, <3>1 DEF Moves, SubmitPush, At, queue_push, Release
  <2>12. CASE CloseRejected
    <3>1. Moves(Main, "accept", {})
      BY <2>12, MovesFacts DEF CloseRejected
    <3>. QED
      BY <2>12, <3>1 DEF Moves, CloseRejected, At
  <2>13. CASE DestroyLock
    <3>1. Moves(Main, "shutdown", {})
      BY <2>13, MovesFacts DEF DestroyLock
    <3>. QED
      BY <2>13, <3>1 DEF Moves, DestroyLock, At, Acquire
  <2>14. CASE Shutdown
    <3>1. Moves(Main, "join", Workers)
      BY <2>14, MovesFacts DEF Shutdown
    <3>. QED
      BY <2>14, <3>1 DEF Moves, Shutdown, At, Release
  <2>15. CASE JoinAll
    <3>1. Moves(Main, "done", {})
      BY <2>15, MovesFacts DEF JoinAll
    <3>. QED
      BY <2>15, <3>1 DEF Moves, JoinAll, At
  <2>. QED
    BY <1>4, <2>1, <2>2, <2>3, <2>4, <2>5, <2>6, <2>7, <2>8, <2>9,
       <2>10, <2>11, <2>12, <2>13, <2>14, <2>15 DEF MainThread
<1>5. ASSUME NEW x \in Threads, Signal(x) \/ Handler(x) PROVE HeldInv'
  <2>1. CASE Signal(x)
    <3>1. pc' = pc /\ held' = held
      BY <2>1 DEF Signal
    <3>. QED
      BY <3>1
  <2>2. CASE HandlerFlag(x)
    BY <2>2 DEF HandlerFlag, ring
  <2>3. CASE HandlerLock(x)
    BY <2>3 DEF HandlerLock, ring
  <2>4. CASE HandlerBody(x)
    BY <2>4 DEF HandlerBody, ring
  <2>. QED
    BY <1>5, <2>1, <2>2, <2>3, <2>4 DEF Handler
<1>6. ASSUME NEW c \in Conns, Connect(c) PROVE HeldInv'
  BY <1>6 DEF Connect, ring
<1>. QED
  BY <1>1, <1>2, <1>3, <1>4, <1>5, <1>6 DEF Next, Terminated
(***************************************************************************)
(* What a thread saw under the mutex stays true until it waits: nobody else *)
(* can change the queue or, pool creation apart, the shutdown flag.        *)
(***************************************************************************)
LEMMA SleepStep ==
  ASSUME TypeOK, LockInv, LifeInv, SleepInv, [Next]_vars
  PROVE  SleepInv'
<1>. USE PoolAssumption, Constants DEF TypeOK, SleepInv, LockInv, InCS, FailPC
<1>1. CASE UNCHANGED vars
  BY <1>1 DEF vars, ring
<1>2. ASSUME NEW x \in Threads, Sync(x) \/ SpuriousWakeup(x) PROVE SleepInv'
  <2>1. CASE TakeLock(x)
    <3>1. Moves(x, "check", {})
      BY <2>1, MovesFacts DEF TakeLock
    <3>. QED
      BY <2>1, <3>1 DEF Moves, TakeLock, At, Acquire, ring
  <2>2. CASE DecideToWait(x)
    <3>1. Moves(x, "sleep", {})
      BY <2>2, MovesFacts DEF DecideToWait
    <3>. QED
      BY <2>2, <3>1 DEF Moves, DecideToWait, At, MustWait, ring
  <2>3. CASE CondWait(x)
    <3>1. Moves(x, "waiting", {})
      BY <2>3, MovesFacts DEF CondWait
    <3>. QED
      BY <2>3, <3>1 DEF Moves, CondWait, At, Release, ring
  <2>4. CASE SpuriousWakeup(x)
    <3>1. Moves(x, "lock", {})
      BY <2>4, MovesFacts DEF SpuriousWakeup
    <3>. QED
      BY <2>4, <3>1 DEF Moves, SpuriousWakeup, At, ring
  <2>. QED
    BY <1>2, <2>1, <2>2, <2>3, <2>4 DEF Sync
<1>3. ASSUME NEW w \in Workers, Worker(w) PROVE SleepInv'
  <2>1. CASE WorkerExit(w)
    <3>1. Moves(w, "exited", {})
      BY <2>1, MovesFacts DEF WorkerExit
    <3>. QED
      BY <2>1, <3>1 DEF Moves, WorkerExit, At, Release, ring
  <2>2. CASE WorkerPop(w)
    <3>1. Moves(w, "serve", {Main})
      BY <2>2, MovesFacts DEF WorkerPop
    <3>. QED
      BY <2>2, <3>1 DEF Moves, WorkerPop, At, queue_pop, Release, ring
  <2>3. CASE Serve(w)
    <3>1. Moves(w, "lock", {})
      BY <2>3, MovesFacts DEF Serve
    <3>. QED
      BY <2>3, <3>1 DEF Moves, Serve, At, ring
  <2>. QED
    BY <1>3, <2>1, <2>2, <2>3 DEF Worker
<1>4. CASE MainThread
  <2>1. ASSUME NEW w \in Workers, CreateWorker(w) PROVE SleepInv'
    <3>1. Moves(w, "lock", {})
      BY <2>1, MovesFacts DEF CreateWorker
    <3>. QED
      BY <2>1, <3>1 DEF Moves, CreateWorker, At, ring
  <2>2. CASE PoolCreated
    <3>1. Moves(Main, "top", {})
      BY <2>2, MovesFacts DEF PoolCreated
    <3>. QED
      BY <2>2, <3>1 DEF Moves, PoolCreated, At, ring
  <2>3. CASE CreateFails
    <3>1. Moves(Main, "failflag", {})
      BY <2>3, MovesFacts DEF CreateFails
    <3>. QED
      BY <2>3, <3>1 DEF Moves, CreateFails, At, ring
  <2>4. CASE FailFlag
    <3>1. Moves(Main, "failwake", {})
      BY <2>4, MovesFacts DEF FailFlag
    <3>. QED
      BY <2>4, <3>1 DEF Moves, FailFlag, At, ring
  <2>5. CASE FailWake
    <3>1. Moves(Main, "failjoin", Workers)
      BY <2>5, MovesFacts DEF FailWake
    <3>. QED
      BY <2>5, <3>1 DEF Moves, FailWake, At, ring
  <2>6. CASE LoopTop
    BY <2>6, MovesFacts DEF Moves, LoopTop, At, ring
  <2>7. CASE Poll
    BY <2>7, MovesFacts DEF Moves, Poll, At, ring
  <2>8. ASSUME NEW l \in Listeners, Accept(l) PROVE SleepInv'
    BY <2>8, MovesFacts DEF Moves, Accept, At, Pending, ring
  <2>9. CASE AcceptDone
    <3>1. Moves(Main, "top", {})
      BY <2>9, MovesFacts DEF AcceptDone
    <3>. QED
      BY <2>9, <3>1 DEF Moves, AcceptDone, At, ring
  <2>10. CASE SubmitReject
    <3>1. Moves(Main, "reject", {})
      BY <2>10, MovesFacts DEF SubmitReject
    <3>. QED
      BY <2>10, <3>1 DEF Moves, SubmitReject, At, Release, ring
  <2>11. CASE SubmitPush
    <3>1. Moves(Main, "accept", Workers)
      BY <2>11, MovesFacts DEF SubmitPush
    <3>. QED
      BY <2>11, <3>1 DEF Moves, SubmitPush, At, queue_push, Release, ring
  <2>12. CASE CloseRejected
    <3>1. Moves(Main, "accept", {})
      BY <2>12, MovesFacts DEF CloseRejected
    <3>. QED
      BY <2>12, <3>1 DEF Moves, CloseRejected, At, ring
  <2>13. CASE DestroyLock
    <3>1. Moves(Main, "shutdown", {})
      BY <2>13, MovesFacts DEF DestroyLock
    <3>. QED
      BY <2>13, <3>1 DEF Moves, DestroyLock, At, Acquire, ring
  <2>14. CASE Shutdown
    <3>1. Moves(Main, "join", Workers)
      BY <2>14, MovesFacts DEF Shutdown
    <3>. QED
      BY <2>14, <3>1 DEF Moves, Shutdown, At, Release, ring
  <2>15. CASE JoinAll
    <3>1. Moves(Main, "done", {})
      BY <2>15, MovesFacts DEF JoinAll
    <3>. QED
      BY <2>15, <3>1 DEF Moves, JoinAll, At, ring
  <2>. QED
    BY <1>4, <2>1, <2>2, <2>3, <2>4, <2>5, <2>6, <2>7, <2>8, <2>9,
       <2>10, <2>11, <2>12, <2>13, <2>14, <2>15 DEF MainThread
<1>5. ASSUME NEW x \in Threads, Signal(x) \/ Handler(x) PROVE SleepInv'
  <2>1. CASE Signal(x)
    <3>1. UNCHANGED <<pc, lock, ring, shutting_down>>
      BY <2>1 DEF Signal
    <3>. QED
      BY <3>1 DEF ring
  <2>2. CASE HandlerFlag(x)
    <3>1. UNCHANGED <<pc, lock, ring, shutting_down>>
      BY <2>2 DEF HandlerFlag
    <3>. QED
      BY <3>1 DEF ring
  <2>3. CASE HandlerLock(x)
    <3>1. UNCHANGED <<pc, ring, shutting_down>>
      BY <2>3 DEF HandlerLock
    <3>. QED
      BY <3>1 DEF ring
  <2>4. CASE HandlerBody(x)
    BY <2>4 DEF HandlerBody, ring
  <2>. QED
    BY <1>5, <2>1, <2>2, <2>3, <2>4 DEF Handler
<1>6. ASSUME NEW c \in Conns, Connect(c) PROVE SleepInv'
  BY <1>6 DEF Connect, ring
<1>. QED
  BY <1>1, <1>2, <1>3, <1>4, <1>5, <1>6 DEF Next, Terminated

(***************************************************************************)
(* The life of the pool: workers exist once main left thread_pool_create,  *)
(* they end only when the pool shuts down with an empty queue, which then  *)
(* stays empty, and main ends after them.                                  *)
(***************************************************************************)
LEMMA LifeStep ==
  ASSUME TypeOK, LifeInv, [Next]_vars
  PROVE  LifeInv'
<1>. USE PoolAssumption, Constants DEF TypeOK, LifeInv, FailPC
<1>1. CASE UNCHANGED vars
  BY <1>1 DEF vars, ring
<1>2. ASSUME NEW x \in Threads, Sync(x) \/ SpuriousWakeup(x) PROVE LifeInv'
  <2>1. CASE TakeLock(x)
    <3>1. Moves(x, "check", {})
      BY <2>1, MovesFacts DEF TakeLock
    <3>. QED
      BY <2>1, <3>1 DEF Moves, TakeLock, At, Acquire, ring
  <2>2. CASE DecideToWait(x)
    <3>1. Moves(x, "sleep", {})
      BY <2>2, MovesFacts DEF DecideToWait
    <3>. QED
      BY <2>2, <3>1 DEF Moves, DecideToWait, At, MustWait, ring
  <2>3. CASE CondWait(x)
    <3>1. Moves(x, "waiting", {})
      BY <2>3, MovesFacts DEF CondWait
    <3>. QED
      BY <2>3, <3>1 DEF Moves, CondWait, At, Release, ring
  <2>4. CASE SpuriousWakeup(x)
    <3>1. Moves(x, "lock", {})
      BY <2>4, MovesFacts DEF SpuriousWakeup
    <3>. QED
      BY <2>4, <3>1 DEF Moves, SpuriousWakeup, At, ring
  <2>. QED
    BY <1>2, <2>1, <2>2, <2>3, <2>4 DEF Sync
<1>3. ASSUME NEW w \in Workers, Worker(w) PROVE LifeInv'
  <2>1. CASE WorkerExit(w)
    <3>1. Moves(w, "exited", {})
      BY <2>1, MovesFacts DEF WorkerExit
    <3>. QED
      BY <2>1, <3>1 DEF Moves, WorkerExit, At, Release, ring
  <2>2. CASE WorkerPop(w)
    <3>1. Moves(w, "serve", {Main})
      BY <2>2, MovesFacts DEF WorkerPop
    <3>. QED
      BY <2>2, <3>1 DEF Moves, WorkerPop, At, queue_pop, Release, ring
  <2>3. CASE Serve(w)
    <3>1. Moves(w, "lock", {})
      BY <2>3, MovesFacts DEF Serve
    <3>. QED
      BY <2>3, <3>1 DEF Moves, Serve, At, ring
  <2>. QED
    BY <1>3, <2>1, <2>2, <2>3 DEF Worker
<1>4. CASE MainThread
  <2>1. ASSUME NEW w \in Workers, CreateWorker(w) PROVE LifeInv'
    <3>1. Moves(w, "lock", {})
      BY <2>1, MovesFacts DEF CreateWorker
    <3>. QED
      BY <2>1, <3>1 DEF Moves, CreateWorker, At, ring
  <2>2. CASE PoolCreated
    <3>1. Moves(Main, "top", {})
      BY <2>2, MovesFacts DEF PoolCreated
    <3>. QED
      BY <2>2, <3>1 DEF Moves, PoolCreated, At, ring
  <2>3. CASE CreateFails
    <3>1. Moves(Main, "failflag", {})
      BY <2>3, MovesFacts DEF CreateFails
    <3>. QED
      BY <2>3, <3>1 DEF Moves, CreateFails, At, ring
  <2>4. CASE FailFlag
    <3>1. Moves(Main, "failwake", {})
      BY <2>4, MovesFacts DEF FailFlag
    <3>. QED
      BY <2>4, <3>1 DEF Moves, FailFlag, At, ring
  <2>5. CASE FailWake
    <3>1. Moves(Main, "failjoin", Workers)
      BY <2>5, MovesFacts DEF FailWake
    <3>. QED
      BY <2>5, <3>1 DEF Moves, FailWake, At, ring
  <2>6. CASE LoopTop
    BY <2>6, MovesFacts DEF Moves, LoopTop, At, ring
  <2>7. CASE Poll
    BY <2>7, MovesFacts DEF Moves, Poll, At, ring
  <2>8. ASSUME NEW l \in Listeners, Accept(l) PROVE LifeInv'
    BY <2>8, MovesFacts DEF Moves, Accept, At, Pending, ring
  <2>9. CASE AcceptDone
    <3>1. Moves(Main, "top", {})
      BY <2>9, MovesFacts DEF AcceptDone
    <3>. QED
      BY <2>9, <3>1 DEF Moves, AcceptDone, At, ring
  <2>10. CASE SubmitReject
    <3>1. Moves(Main, "reject", {})
      BY <2>10, MovesFacts DEF SubmitReject
    <3>. QED
      BY <2>10, <3>1 DEF Moves, SubmitReject, At, Release, ring
  <2>11. CASE SubmitPush
    <3>1. Moves(Main, "accept", Workers)
      BY <2>11, MovesFacts DEF SubmitPush
    <3>. QED
      BY <2>11, <3>1 DEF Moves, SubmitPush, At, queue_push, Release, ring
  <2>12. CASE CloseRejected
    <3>1. Moves(Main, "accept", {})
      BY <2>12, MovesFacts DEF CloseRejected
    <3>. QED
      BY <2>12, <3>1 DEF Moves, CloseRejected, At, ring
  <2>13. CASE DestroyLock
    <3>1. Moves(Main, "shutdown", {})
      BY <2>13, MovesFacts DEF DestroyLock
    <3>. QED
      BY <2>13, <3>1 DEF Moves, DestroyLock, At, Acquire, ring
  <2>14. CASE Shutdown
    <3>1. Moves(Main, "join", Workers)
      BY <2>14, MovesFacts DEF Shutdown
    <3>. QED
      BY <2>14, <3>1 DEF Moves, Shutdown, At, Release, ring
  <2>15. CASE JoinAll
    <3>1. Moves(Main, "done", {})
      BY <2>15, MovesFacts DEF JoinAll
    <3>. QED
      BY <2>15, <3>1 DEF Moves, JoinAll, At, ring
  <2>. QED
    BY <1>4, <2>1, <2>2, <2>3, <2>4, <2>5, <2>6, <2>7, <2>8, <2>9,
       <2>10, <2>11, <2>12, <2>13, <2>14, <2>15 DEF MainThread
<1>5. ASSUME NEW x \in Threads, Signal(x) \/ Handler(x) PROVE LifeInv'
  <2>1. CASE Signal(x)
    <3>1. UNCHANGED <<pc, lock, ring, shutting_down>>
      BY <2>1 DEF Signal
    <3>. QED
      BY <3>1 DEF ring
  <2>2. CASE HandlerFlag(x)
    <3>1. UNCHANGED <<pc, lock, ring, shutting_down>>
      BY <2>2 DEF HandlerFlag
    <3>. QED
      BY <3>1 DEF ring
  <2>3. CASE HandlerLock(x)
    <3>1. UNCHANGED <<pc, ring, shutting_down>>
      BY <2>3 DEF HandlerLock
    <3>. QED
      BY <3>1 DEF ring
  <2>4. CASE HandlerBody(x)
    BY <2>4 DEF HandlerBody, ring
  <2>. QED
    BY <1>5, <2>1, <2>2, <2>3, <2>4 DEF Handler
<1>6. ASSUME NEW c \in Conns, Connect(c) PROVE LifeInv'
  BY <1>6 DEF Connect, ring
<1>. QED
  BY <1>1, <1>2, <1>3, <1>4, <1>5, <1>6 DEF Next, Terminated
(***************************************************************************)
(* No wakeup is missed: a pop signals main, a push signals a worker, and   *)
(* shutdown wakes everybody.                                               *)
(***************************************************************************)
LEMMA WakeupStep ==
  ASSUME TypeOK, SleepInv, LifeInv, NoMissedWakeup, [Next]_vars
  PROVE  NoMissedWakeup'
<1>. USE PoolAssumption, Constants DEF TypeOK, SleepInv, LifeInv, NoMissedWakeup, FailPC
<1>1. CASE UNCHANGED vars
  BY <1>1 DEF vars, ring
<1>2. ASSUME NEW x \in Threads, Sync(x) \/ SpuriousWakeup(x) PROVE NoMissedWakeup'
  <2>1. CASE TakeLock(x)
    <3>1. Moves(x, "check", {})
      BY <2>1, MovesFacts DEF TakeLock
    <3>. QED
      BY <2>1, <3>1 DEF Moves, TakeLock, At, Acquire, ring
  <2>2. CASE DecideToWait(x)
    <3>1. Moves(x, "sleep", {})
      BY <2>2, MovesFacts DEF DecideToWait
    <3>. QED
      BY <2>2, <3>1 DEF Moves, DecideToWait, At, MustWait, ring
  <2>3. CASE CondWait(x)
    <3>1. Moves(x, "waiting", {})
      BY <2>3, MovesFacts DEF CondWait
    <3>. QED
      BY <2>3, <3>1 DEF Moves, CondWait, At, Release, ring
  <2>4. CASE SpuriousWakeup(x)
    <3>1. Moves(x, "lock", {})
      BY <2>4, MovesFacts DEF SpuriousWakeup
    <3>. QED
      BY <2>4, <3>1 DEF Moves, SpuriousWakeup, At, ring
  <2>. QED
    BY <1>2, <2>1, <2>2, <2>3, <2>4 DEF Sync
<1>3. ASSUME NEW w \in Workers, Worker(w) PROVE NoMissedWakeup'
  <2>1. CASE WorkerExit(w)
    <3>1. Moves(w, "exited", {})
      BY <2>1, MovesFacts DEF WorkerExit
    <3>. QED
      BY <2>1, <3>1 DEF Moves, WorkerExit, At, Release, ring
  <2>2. CASE WorkerPop(w)
    <3>1. Moves(w, "serve", {Main})
      BY <2>2, MovesFacts DEF WorkerPop
    <3>2. pc'[Main] # "waiting"
      BY <2>2 DEF WorkerPop, GotoAndSignal, GotoAndWake, Goto
    <3>. QED
      BY <2>2, <3>1, <3>2 DEF Moves, WorkerPop, At, queue_pop
  <2>3. CASE Serve(w)
    <3>1. Moves(w, "lock", {})
      BY <2>3, MovesFacts DEF Serve
    <3>. QED
      BY <2>3, <3>1 DEF Moves, Serve, At, ring
  <2>. QED
    BY <1>3, <2>1, <2>2, <2>3 DEF Worker
<1>4. CASE MainThread
  <2>1. ASSUME NEW w \in Workers, CreateWorker(w) PROVE NoMissedWakeup'
    <3>1. Moves(w, "lock", {})
      BY <2>1, MovesFacts DEF CreateWorker
    <3>. QED
      BY <2>1, <3>1 DEF Moves, CreateWorker, At, ring
  <2>2. CASE PoolCreated
    <3>1. Moves(Main, "top", {})
      BY <2>2, MovesFacts DEF PoolCreated
    <3>. QED
      BY <2>2, <3>1 DEF Moves, PoolCreated, At, ring
  <2>3. CASE CreateFails
    <3>1. Moves(Main, "failflag", {})
      BY <2>3, MovesFacts DEF CreateFails
    <3>. QED
      BY <2>3, <3>1 DEF Moves, CreateFails, At, ring
  <2>4. CASE FailFlag
    <3>1. Moves(Main, "failwake", {})
      BY <2>4, MovesFacts DEF FailFlag
    <3>. QED
      BY <2>4, <3>1 DEF Moves, FailFlag, At, ring
  <2>5. CASE FailWake
    <3>1. Moves(Main, "failjoin", Workers)
      BY <2>5, MovesFacts DEF FailWake
    <3>. QED
      BY <2>5, <3>1 DEF Moves, FailWake, At, ring
  <2>6. CASE LoopTop
    BY <2>6, MovesFacts DEF Moves, LoopTop, At, ring
  <2>7. CASE Poll
    BY <2>7, MovesFacts DEF Moves, Poll, At, ring
  <2>8. ASSUME NEW l \in Listeners, Accept(l) PROVE NoMissedWakeup'
    BY <2>8, MovesFacts DEF Moves, Accept, At, Pending, ring
  <2>9. CASE AcceptDone
    <3>1. Moves(Main, "top", {})
      BY <2>9, MovesFacts DEF AcceptDone
    <3>. QED
      BY <2>9, <3>1 DEF Moves, AcceptDone, At, ring
  <2>10. CASE SubmitReject
    <3>1. Moves(Main, "reject", {})
      BY <2>10, MovesFacts DEF SubmitReject
    <3>. QED
      BY <2>10, <3>1 DEF Moves, SubmitReject, At, Release, ring
  <2>11. CASE SubmitPush
    <3>1. Moves(Main, "accept", Workers)
      BY <2>11, MovesFacts DEF SubmitPush
    <3>2. \E w \in Workers : pc'[w] # "waiting"
      <4>1. CASE \E y \in Workers : pc[y] = "waiting" /\ GotoAndWake(Main, "accept", {y})
        BY <4>1 DEF GotoAndWake
      <4>2. CASE (\A y \in Workers : pc[y] # "waiting") /\ Goto(Main, "accept")
        BY <4>2 DEF Goto
      <4>. QED
        BY <2>11, <4>1, <4>2 DEF SubmitPush, GotoAndSignal
    <3>. QED
      BY <2>11, <3>1, <3>2 DEF Moves, SubmitPush, At
  <2>12. CASE CloseRejected
    <3>1. Moves(Main, "accept", {})
      BY <2>12, MovesFacts DEF CloseRejected
    <3>. QED
      BY <2>12, <3>1 DEF Moves, CloseRejected, At, ring
  <2>13. CASE DestroyLock
    <3>1. Moves(Main, "shutdown", {})
      BY <2>13, MovesFacts DEF DestroyLock
    <3>. QED
      BY <2>13, <3>1 DEF Moves, DestroyLock, At, Acquire, ring
  <2>14. CASE Shutdown
    <3>1. Moves(Main, "join", Workers)
      BY <2>14, MovesFacts DEF Shutdown
    <3>2. \A w \in Workers : pc'[w] # "waiting"
      BY <2>14 DEF Shutdown, GotoAndWake
    <3>. QED
      BY <2>14, <3>1, <3>2 DEF Moves
  <2>15. CASE JoinAll
    <3>1. Moves(Main, "done", {})
      BY <2>15, MovesFacts DEF JoinAll
    <3>. QED
      BY <2>15, <3>1 DEF Moves, JoinAll, At, ring
  <2>. QED
    BY <1>4, <2>1, <2>2, <2>3, <2>4, <2>5, <2>6, <2>7, <2>8, <2>9,
       <2>10, <2>11, <2>12, <2>13, <2>14, <2>15 DEF MainThread
<1>5. ASSUME NEW x \in Threads, Signal(x) \/ Handler(x) PROVE NoMissedWakeup'
  <2>1. CASE Signal(x)
    <3>1. UNCHANGED <<pc, lock, ring, shutting_down>>
      BY <2>1 DEF Signal
    <3>. QED
      BY <3>1 DEF ring
  <2>2. CASE HandlerFlag(x)
    <3>1. UNCHANGED <<pc, lock, ring, shutting_down>>
      BY <2>2 DEF HandlerFlag
    <3>. QED
      BY <3>1 DEF ring
  <2>3. CASE HandlerLock(x)
    <3>1. UNCHANGED <<pc, ring, shutting_down>>
      BY <2>3 DEF HandlerLock
    <3>. QED
      BY <3>1 DEF ring
  <2>4. CASE HandlerBody(x)
    BY <2>4 DEF HandlerBody
  <2>. QED
    BY <1>5, <2>1, <2>2, <2>3, <2>4 DEF Handler
<1>6. ASSUME NEW c \in Conns, Connect(c) PROVE NoMissedWakeup'
  BY <1>6 DEF Connect, ring
<1>. QED
  BY <1>1, <1>2, <1>3, <1>4, <1>5, <1>6 DEF Next, Terminated

(***************************************************************************)
(* When main has joined the workers the queue is empty, since the worker   *)
(* that left last saw it empty, and nobody holds a connection.             *)
(***************************************************************************)
LEMMA LeftStep ==
  ASSUME TypeOK, LifeInv, HeldInv, OneOwner, NothingLeft, [Next]_vars
  PROVE  NothingLeft'
<1>. USE PoolAssumption, Constants DEF TypeOK, NothingLeft
<1>1. CASE UNCHANGED vars
  BY <1>1 DEF vars, ring
<1>2. ASSUME NEW x \in Threads, Sync(x) \/ SpuriousWakeup(x) PROVE NothingLeft'
  <2>1. CASE TakeLock(x)
    <3>1. Moves(x, "check", {})
      BY <2>1, MovesFacts DEF TakeLock
    <3>. QED
      BY <2>1, <3>1 DEF Moves, TakeLock, At, Acquire, ring, LifeInv
  <2>2. CASE DecideToWait(x)
    <3>1. Moves(x, "sleep", {})
      BY <2>2, MovesFacts DEF DecideToWait
    <3>. QED
      BY <2>2, <3>1 DEF Moves, DecideToWait, At, MustWait, ring, LifeInv
  <2>3. CASE CondWait(x)
    <3>1. Moves(x, "waiting", {})
      BY <2>3, MovesFacts DEF CondWait
    <3>. QED
      BY <2>3, <3>1 DEF Moves, CondWait, At, Release, ring, LifeInv
  <2>4. CASE SpuriousWakeup(x)
    <3>1. Moves(x, "lock", {})
      BY <2>4, MovesFacts DEF SpuriousWakeup
    <3>. QED
      BY <2>4, <3>1 DEF Moves, SpuriousWakeup, At, ring, LifeInv
  <2>. QED
    BY <1>2, <2>1, <2>2, <2>3, <2>4 DEF Sync
<1>3. ASSUME NEW w \in Workers, Worker(w) PROVE NothingLeft'
  <2>1. CASE WorkerExit(w)
    <3>1. Moves(w, "exited", {})
      BY <2>1, MovesFacts DEF WorkerExit
    <3>. QED
      BY <2>1, <3>1 DEF Moves, WorkerExit, At, Release, ring, LifeInv
  <2>2. CASE WorkerPop(w)
    <3>1. Moves(w, "serve", {Main})
      BY <2>2, MovesFacts DEF WorkerPop
    <3>. QED
      BY <2>2, <3>1
        DEF Moves, WorkerPop, At, queue_pop, Release, ring, LifeInv
  <2>3. CASE Serve(w)
    <3>1. Moves(w, "lock", {})
      BY <2>3, MovesFacts DEF Serve
    <3>. QED
      BY <2>3, <3>1 DEF Moves, Serve, At, ring, LifeInv
  <2>. QED
    BY <1>3, <2>1, <2>2, <2>3 DEF Worker
<1>4. CASE MainThread
  <2>1. ASSUME NEW w \in Workers, CreateWorker(w) PROVE NothingLeft'
    <3>1. Moves(w, "lock", {})
      BY <2>1, MovesFacts DEF CreateWorker
    <3>. QED
      BY <2>1, <3>1 DEF Moves, CreateWorker, At, ring, LifeInv
  <2>2. CASE PoolCreated
    <3>1. Moves(Main, "top", {})
      BY <2>2, MovesFacts DEF PoolCreated
    <3>. QED
      BY <2>2, <3>1 DEF Moves, PoolCreated, At, ring, LifeInv
  <2>3. CASE CreateFails
    <3>1. Moves(Main, "failflag", {})
      BY <2>3, MovesFacts DEF CreateFails
    <3>. QED
      BY <2>3, <3>1 DEF Moves, CreateFails, At, ring, LifeInv
  <2>4. CASE FailFlag
    <3>1. Moves(Main, "failwake", {})
      BY <2>4, MovesFacts DEF FailFlag
    <3>. QED
      BY <2>4, <3>1 DEF Moves, FailFlag, At, ring, LifeInv
  <2>5. CASE FailWake
    <3>1. Moves(Main, "failjoin", Workers)
      BY <2>5, MovesFacts DEF FailWake
    <3>. QED
      BY <2>5, <3>1 DEF Moves, FailWake, At, ring, LifeInv
  <2>6. CASE LoopTop
    BY <2>6, MovesFacts DEF Moves, LoopTop, At, ring, LifeInv
  <2>7. CASE Poll
    BY <2>7, MovesFacts DEF Moves, Poll, At, ring, LifeInv
  <2>8. ASSUME NEW l \in Listeners, Accept(l) PROVE NothingLeft'
    BY <2>8, MovesFacts DEF Moves, Accept, At, Pending, ring, LifeInv
  <2>9. CASE AcceptDone
    <3>1. Moves(Main, "top", {})
      BY <2>9, MovesFacts DEF AcceptDone
    <3>. QED
      BY <2>9, <3>1 DEF Moves, AcceptDone, At, ring, LifeInv
  <2>10. CASE SubmitReject
    <3>1. Moves(Main, "reject", {})
      BY <2>10, MovesFacts DEF SubmitReject
    <3>. QED
      BY <2>10, <3>1 DEF Moves, SubmitReject, At, Release, ring, LifeInv
  <2>11. CASE SubmitPush
    <3>1. Moves(Main, "accept", Workers)
      BY <2>11, MovesFacts DEF SubmitPush
    <3>. QED
      BY <2>11, <3>1
        DEF Moves, SubmitPush, At, queue_push, Release, ring, LifeInv
  <2>12. CASE CloseRejected
    <3>1. Moves(Main, "accept", {})
      BY <2>12, MovesFacts DEF CloseRejected
    <3>. QED
      BY <2>12, <3>1 DEF Moves, CloseRejected, At, ring, LifeInv
  <2>13. CASE DestroyLock
    <3>1. Moves(Main, "shutdown", {})
      BY <2>13, MovesFacts DEF DestroyLock
    <3>. QED
      BY <2>13, <3>1 DEF Moves, DestroyLock, At, Acquire, ring, LifeInv
  <2>14. CASE Shutdown
    <3>1. Moves(Main, "join", Workers)
      BY <2>14, MovesFacts DEF Shutdown
    <3>. QED
      BY <2>14, <3>1 DEF Moves, Shutdown, At, Release, ring, LifeInv
  <2>15. CASE JoinAll
    <3>1. Moves(Main, "done", {})
      BY <2>15, MovesFacts DEF JoinAll
    <3>2. qlen = 0
      <4>1. CASE pc[Main] = "failjoin"
        BY <4>1 DEF LifeInv, FailPC
      <4>2. CASE pc[Main] = "join"
        <5>1. pc[1] = "exited"
          BY <4>2, <2>15 DEF JoinAll, LifeInv, FailPC
        <5>. QED
          BY <5>1 DEF LifeInv
      <4>. QED
        BY <2>15, <4>1, <4>2 DEF JoinAll, At
    <3>3. \A x \in Threads : held[x] = NoFd
      BY <2>15 DEF JoinAll, At, HeldInv
    <3>4. \A c \in Conns : net[c] # "open"
      BY <3>2, <3>3 DEF OneOwner, Queued, Used
    <3>. QED
      BY <2>15, <3>2, <3>4 DEF JoinAll, ring
  <2>. QED
    BY <1>4, <2>1, <2>2, <2>3, <2>4, <2>5, <2>6, <2>7, <2>8, <2>9,
       <2>10, <2>11, <2>12, <2>13, <2>14, <2>15 DEF MainThread
<1>5. ASSUME NEW x \in Threads, Signal(x) \/ Handler(x) PROVE NothingLeft'
  <2>1. CASE Signal(x)
    <3>1. pc' = pc /\ net' = net /\ qlen' = qlen
      BY <2>1 DEF Signal, ring
    <3>. QED
      BY <3>1
  <2>2. CASE HandlerFlag(x)
    <3>1. pc' = pc /\ net' = net /\ qlen' = qlen
      BY <2>2 DEF HandlerFlag, ring
    <3>. QED
      BY <3>1
  <2>3. CASE HandlerLock(x)
    <3>1. pc' = pc /\ net' = net /\ qlen' = qlen
      BY <2>3 DEF HandlerLock, ring
    <3>. QED
      BY <3>1
  <2>4. CASE HandlerBody(x)
    BY <2>4 DEF HandlerBody, ring
  <2>. QED
    BY <1>5, <2>1, <2>2, <2>3, <2>4 DEF Handler
<1>6. ASSUME NEW c \in Conns, Connect(c) PROVE NothingLeft'
  BY <1>6 DEF Connect, ring
<1>. QED
  BY <1>1, <1>2, <1>3, <1>4, <1>5, <1>6 DEF Next, Terminated
-----------------------------------------------------------------------------
(* The queue and the owners of the connections.                             *)

(***************************************************************************)
(* Only thread_pool_submit and a worker's pop touch the ring buffer.       *)
(***************************************************************************)
LEMMA RingChanges ==
  ASSUME [Next]_vars
  PROVE  UNCHANGED ring \/ SubmitPush \/ \E w \in Workers : WorkerPop(w)
<1>1. CASE UNCHANGED vars
  BY <1>1 DEF vars
<1>2. ASSUME NEW x \in Threads,
             Sync(x) \/ SpuriousWakeup(x) \/ Signal(x) \/ Handler(x)
      PROVE  UNCHANGED ring
  BY <1>2 DEF Sync, TakeLock, DecideToWait, CondWait, SpuriousWakeup, Signal,
              Handler, HandlerFlag, HandlerLock, HandlerBody
<1>3. ASSUME NEW w \in Workers, Worker(w)
      PROVE  UNCHANGED ring \/ WorkerPop(w)
  BY <1>3 DEF Worker, WorkerExit, Serve
<1>4. ASSUME MainThread
      PROVE  UNCHANGED ring \/ SubmitPush
  BY <1>4 DEF MainThread, CreateWorker, PoolCreated, CreateFails, FailFlag,
              FailWake, LoopTop, Poll, Accept, AcceptDone, SubmitReject,
              CloseRejected, DestroyLock, Shutdown, JoinAll
<1>5. ASSUME NEW c \in Conns, Connect(c) PROVE UNCHANGED ring
  BY <1>5 DEF Connect
<1>. QED
  BY <1>1, <1>2, <1>3, <1>4, <1>5 DEF Next, Terminated

(***************************************************************************)
(* A push (queue_push) fills the slot after the last queued connection and *)
(* leaves the others where they are.                                       *)
(***************************************************************************)
LEMMA PushFacts ==
  ASSUME TypeOK, RingInv, SubmitPush
  PROVE  /\ qlen < QCap /\ qlen' = qlen + 1 /\ qhead' = qhead
         /\ queue'[Slot(qlen)] = held[Main]
         /\ \A i \in Used : queue'[Slot(i)] = queue[Slot(i)]
         /\ qtail' = Slot(qlen + 1)
<1>. USE PoolAssumption DEF TypeOK
<1>1. qlen < QCap /\ qlen' = qlen + 1 /\ qhead' = qhead
  BY DEF SubmitPush, queue_push
<1>2. queue' = [queue EXCEPT ![Slot(qlen)] = held[Main]]
  BY DEF SubmitPush, queue_push, RingInv
<1>3. queue'[Slot(qlen)] = held[Main]
  BY <1>1, <1>2, SlotFacts
<1>4. ASSUME NEW i \in Used PROVE queue'[Slot(i)] = queue[Slot(i)]
  <2>1. Slot(i) # Slot(qlen) /\ Slot(i) \in 0..(QCap - 1)
    BY <1>1, SlotFacts DEF Used
  <2>. QED
    BY <2>1, <1>2
<1>5. qtail' = Slot(qlen + 1)
  <2>1. qtail' = IF qtail + 1 < QCap THEN qtail + 1 ELSE 0
    BY Wrap DEF SubmitPush, queue_push
  <2>. QED
    BY <2>1, <1>1 DEF RingInv, Slot, SlotFrom
<1>. QED
  BY <1>1, <1>3, <1>4, <1>5

(***************************************************************************)
(* A pop (queue_pop) moves every remaining connection one place forward.   *)
(***************************************************************************)
LEMMA PopFacts ==
  ASSUME TypeOK, NEW w \in Workers, WorkerPop(w)
  PROVE  /\ qlen > 0 /\ qlen' = qlen - 1
         /\ \A i \in 0..(QCap - 1) : SlotFrom(qhead', i) = Slot(i + 1)
         /\ queue' = queue /\ qtail' = qtail
         /\ Slot(0) = qhead
<1>. USE PoolAssumption DEF TypeOK
<1>1. qhead' = IF qhead + 1 < QCap THEN qhead + 1 ELSE 0
  BY Wrap DEF WorkerPop, queue_pop
<1>. QED
  BY <1>1 DEF WorkerPop, queue_pop, Slot, SlotFrom

(***************************************************************************)
(* qtail stays the slot after the last queued connection.                  *)
(***************************************************************************)
LEMMA RingStep ==
  ASSUME TypeOK, RingInv, [Next]_vars
  PROVE  RingInv'
<1>1. CASE UNCHANGED ring
  BY <1>1 DEF RingInv, Slot, ring
<1>2. CASE SubmitPush
  BY <1>2, PushFacts DEF RingInv, Slot
<1>3. ASSUME NEW w \in Workers, WorkerPop(w) PROVE RingInv'
  <2>1. qlen' \in 0..(QCap - 1) /\ qlen' + 1 = qlen
    BY <1>3, PopFacts, PoolAssumption DEF TypeOK
  <2>. QED
    BY <1>3, <2>1, PopFacts DEF RingInv, Slot
<1>. QED
  BY RingChanges, <1>1, <1>2, <1>3

(***************************************************************************)
(* The contents of the queue after a push: those before and the connection *)
(* main held.                                                              *)
(***************************************************************************)
LEMMA PushContents ==
  ASSUME TypeOK, RingInv, SubmitPush
  PROVE  /\ Used' = Used \cup {qlen} /\ qlen \notin Used
         /\ \A i \in Used : queue'[SlotFrom(qhead', i)] = queue[Slot(i)]
         /\ queue'[SlotFrom(qhead', qlen)] = held[Main]
<1>1. Used' = Used \cup {qlen} /\ qlen \notin Used
  BY PushFacts, PoolAssumption DEF TypeOK, Used
<1>. QED
  BY <1>1, PushFacts DEF Slot

(***************************************************************************)
(* The contents of the queue after a pop: those before without the first.  *)
(***************************************************************************)
LEMMA PopContents ==
  ASSUME TypeOK, NEW w \in Workers, WorkerPop(w)
  PROVE  /\ 0 \in Used /\ Used \subseteq Nat /\ Used' \subseteq Nat
         /\ \A i \in Used' : i + 1 \in Used
         /\ \A i \in Used : i = 0 \/ i - 1 \in Used'
         /\ \A i \in Used' : queue'[SlotFrom(qhead', i)] = queue[Slot(i + 1)]
         /\ queue[Slot(0)] = queue[qhead]
<1>1. /\ Used' \subseteq 0..(QCap - 1)
      /\ Used \subseteq Nat
      /\ \A i \in Used' : i + 1 \in Used
      /\ \A i \in Used : i = 0 \/ i - 1 \in Used'
      /\ 0 \in Used
  BY PopFacts, PoolAssumption DEF TypeOK, Used
<1>2. Used' \subseteq Nat
  BY <1>1, PoolAssumption
<1>3. \A i \in Used' : queue'[SlotFrom(qhead', i)] = queue[Slot(i + 1)]
  BY <1>1, PopFacts
<1>4. queue[Slot(0)] = queue[qhead]
  BY PopFacts
<1>. QED
  BY <1>1, <1>2, <1>3, <1>4

(***************************************************************************)
(* A push hands the connection from main to the queue.                     *)
(***************************************************************************)
LEMMA OwnerPush ==
  ASSUME TypeOK, RingInv, HeldInv, OneOwner, SubmitPush
  PROVE  OneOwner'
<1>. DEFINE d == held[Main]
<1>1. /\ held' = [held EXCEPT ![Main] = NoFd]
      /\ net' = net
      /\ d \in Conns
  BY PoolAssumption, Constants DEF SubmitPush, At, HeldInv, TypeOK
<1>2. ~Queued(d)
  BY <1>1, Constants, PoolAssumption DEF OneOwner
<1>3. ASSUME NEW c PROVE Queued(c)' <=> Queued(c) \/ c = d
  BY PushContents DEF Queued, Slot
<1>4. \A c \in Conns :
        net'[c] = "open" <=> Queued(c)' \/ \E x \in Threads : held'[x] = c
  <2>. SUFFICES ASSUME NEW c \in Conns
                PROVE  net'[c] = "open" <=>
                         Queued(c)' \/ \E x \in Threads : held'[x] = c
    OBVIOUS
  <2>1. CASE c = d
    BY <2>1, <1>1, <1>3, Constants DEF OneOwner
  <2>2. CASE c # d
    <3>1. (\E x \in Threads : held'[x] = c) <=> (\E x \in Threads : held[x] = c)
      BY <2>2, <1>1, Constants, PoolAssumption DEF TypeOK
    <3>. QED
      BY <2>2, <3>1, <1>1, <1>3 DEF OneOwner
  <2>. QED
    BY <2>1, <2>2
<1>5. \A c \in Conns, x \in Threads : held'[x] = c => ~Queued(c)'
  <2>. SUFFICES ASSUME NEW c \in Conns, NEW x \in Threads, held'[x] = c
                PROVE  ~Queued(c)'
    OBVIOUS
  <2>1. x # Main /\ held[x] = c /\ c # d
    BY <1>1, Constants, PoolAssumption DEF OneOwner, TypeOK
  <2>. QED
    BY <2>1, <1>3 DEF OneOwner
<1>6. \A x, y \in Threads : held'[x] = held'[y] /\ held'[x] # NoFd => x = y
  BY <1>1, Constants DEF OneOwner, TypeOK
<1>7. /\ \A i, j \in Used' :
           queue'[SlotFrom(qhead', i)] = queue'[SlotFrom(qhead', j)] => i = j
      /\ \A i \in Used' : queue'[SlotFrom(qhead', i)] # NoFd
  BY <1>1, <1>2, PushContents, PoolAssumption DEF OneOwner, Queued
<1>. QED
  BY <1>4, <1>5, <1>6, <1>7 DEF OneOwner, Slot

(***************************************************************************)
(* A pop hands the first connection of the queue to the worker.            *)
(***************************************************************************)
LEMMA OwnerPop ==
  ASSUME TypeOK, HeldInv, OneOwner, NEW w \in Workers, WorkerPop(w)
  PROVE  OneOwner'
<1>. DEFINE d == queue[qhead]
<1>1. /\ held' = [held EXCEPT ![w] = d]
      /\ net' = net
      /\ held[w] = NoFd
      /\ d \in Conns
  BY HeadIsConn, Constants DEF WorkerPop, At, HeldInv
<1>2. Queued(d)
  BY PopContents DEF Queued
<1>3. ASSUME NEW c PROVE Queued(c)' <=> Queued(c) /\ c # d
  <2>1. ASSUME Queued(c)' PROVE Queued(c) /\ c # d
    <3>1. PICK i \in Used' : queue'[SlotFrom(qhead', i)] = c
      BY <2>1 DEF Queued, Slot
    <3>2. i + 1 \in Used /\ queue[Slot(i + 1)] = c /\ i + 1 # 0
      BY <3>1, PopContents
    <3>. QED
      BY <3>2, PopContents DEF Queued, OneOwner
  <2>2. ASSUME Queued(c), c # d PROVE Queued(c)'
    <3>1. PICK i \in Used : queue[Slot(i)] = c
      BY <2>2 DEF Queued
    <3>2. i # 0 /\ i \in Nat /\ i - 1 \in Used' /\ (i - 1) + 1 = i
      BY <3>1, <2>2, PopContents
    <3>3. queue'[SlotFrom(qhead', i - 1)] = c
      BY <3>1, <3>2, PopContents
    <3>. QED
      BY <3>2, <3>3 DEF Queued, Slot
  <2>. QED
    BY <2>1, <2>2
<1>4. \A c \in Conns :
        net'[c] = "open" <=> Queued(c)' \/ \E x \in Threads : held'[x] = c
  <2>. SUFFICES ASSUME NEW c \in Conns
                PROVE  net'[c] = "open" <=>
                         Queued(c)' \/ \E x \in Threads : held'[x] = c
    OBVIOUS
  <2>1. CASE c = d
    BY <2>1, <1>1, <1>2, Constants DEF OneOwner, TypeOK
  <2>2. CASE c # d
    <3>1. (\E x \in Threads : held'[x] = c) <=> (\E x \in Threads : held[x] = c)
      BY <2>2, <1>1, Constants, PoolAssumption DEF TypeOK
    <3>. QED
      BY <2>2, <3>1, <1>1, <1>3 DEF OneOwner
  <2>. QED
    BY <2>1, <2>2
<1>5. \A c \in Conns, x \in Threads : held'[x] = c => ~Queued(c)'
  <2>. SUFFICES ASSUME NEW c \in Conns, NEW x \in Threads, held'[x] = c
                PROVE  ~Queued(c)'
    OBVIOUS
  <2>1. CASE x = w
    BY <2>1, <1>1, <1>3, Constants DEF TypeOK
  <2>2. CASE x # w
    BY <2>2, <1>1, <1>3, Constants DEF OneOwner, TypeOK
  <2>. QED
    BY <2>1, <2>2
<1>6. \A x, y \in Threads : held'[x] = held'[y] /\ held'[x] # NoFd => x = y
  BY <1>1, <1>2, Constants DEF OneOwner, TypeOK
<1>7. /\ \A i, j \in Used' :
           queue'[SlotFrom(qhead', i)] = queue'[SlotFrom(qhead', j)] => i = j
      /\ \A i \in Used' : queue'[SlotFrom(qhead', i)] # NoFd
  BY PopContents DEF OneOwner
<1>. QED
  BY <1>4, <1>5, <1>6, <1>7 DEF OneOwner, Slot
(***************************************************************************)
(* The owners while the queue stays as it is and no connection is opened   *)
(* or closed.                                                              *)
(***************************************************************************)
LEMMA OwnerSame ==
  ASSUME OneOwner, UNCHANGED ring, held' = held,
         \A c \in Conns : net'[c] = "open" <=> net[c] = "open"
  PROVE  OneOwner'
<1>1. /\ \A c : Queued(c)' <=> Queued(c)
      /\ Used' = Used /\ queue' = queue
      /\ \A i : SlotFrom(qhead', i) = SlotFrom(qhead, i)
  BY DEF Queued, Used, Slot, ring
<1>. QED
  BY <1>1 DEF OneOwner, Slot

(***************************************************************************)
(* A thread closes the connection it owns, after serving or refusing it.   *)
(***************************************************************************)
LEMMA OwnerClose ==
  ASSUME TypeOK, OneOwner, UNCHANGED ring, NEW x \in Threads,
         held[x] \in Conns,
         held' = [held EXCEPT ![x] = NoFd],
         net' = [net EXCEPT ![held[x]] = "idle"]
  PROVE  OneOwner'
<1>1. /\ \A c : Queued(c)' <=> Queued(c)
      /\ Used' = Used /\ queue' = queue
      /\ \A i : SlotFrom(qhead', i) = SlotFrom(qhead, i)
  BY DEF Queued, Used, Slot, ring
<1>2. ASSUME NEW c \in Conns
      PROVE  net'[c] = "open" <=> Queued(c)' \/ \E y \in Threads : held'[y] = c
  <2>1. CASE c = held[x]
    BY <2>1, <1>1, PoolAssumption DEF OneOwner, TypeOK
  <2>2. CASE c # held[x]
    <3>1. (\E y \in Threads : held'[y] = c) <=> (\E y \in Threads : held[y] = c)
      BY <2>2, PoolAssumption DEF TypeOK
    <3>. QED
      BY <2>2, <3>1, <1>1 DEF OneOwner, TypeOK
  <2>. QED
    BY <2>1, <2>2
<1>3. /\ \A c \in Conns, y \in Threads : held'[y] = c => ~Queued(c)'
      /\ \A y, z \in Threads : held'[y] = held'[z] /\ held'[y] # NoFd => y = z
  BY <1>1, PoolAssumption DEF OneOwner, TypeOK
<1>. QED
  BY <1>1, <1>2, <1>3 DEF OneOwner, Slot

(***************************************************************************)
(* accept gives main a connection nobody owns.                             *)
(***************************************************************************)
LEMMA OwnerAccept ==
  ASSUME TypeOK, OneOwner, UNCHANGED ring, held[Main] = NoFd,
         NEW d \in Conns, net[d] = "pending",
         held' = [held EXCEPT ![Main] = d],
         net' = [net EXCEPT ![d] = "open"]
  PROVE  OneOwner'
<1>1. /\ \A c : Queued(c)' <=> Queued(c)
      /\ Used' = Used /\ queue' = queue
      /\ \A i : SlotFrom(qhead', i) = SlotFrom(qhead, i)
  BY DEF Queued, Used, Slot, ring
<1>2. ~Queued(d) /\ \A y \in Threads : held[y] # d
  BY DEF OneOwner
<1>3. ASSUME NEW c \in Conns
      PROVE  net'[c] = "open" <=> Queued(c)' \/ \E y \in Threads : held'[y] = c
  <2>1. CASE c = d
    BY <2>1, Constants DEF TypeOK
  <2>2. CASE c # d
    <3>1. (\E y \in Threads : held'[y] = c) <=> (\E y \in Threads : held[y] = c)
      BY <2>2, PoolAssumption, Constants DEF TypeOK
    <3>. QED
      BY <2>2, <3>1, <1>1 DEF OneOwner, TypeOK
  <2>. QED
    BY <2>1, <2>2
<1>4. /\ \A c \in Conns, y \in Threads : held'[y] = c => ~Queued(c)'
      /\ \A y, z \in Threads : held'[y] = held'[z] /\ held'[y] # NoFd => y = z
  BY <1>1, <1>2, Constants DEF OneOwner, TypeOK
<1>. QED
  BY <1>1, <1>3, <1>4 DEF OneOwner, Slot

(***************************************************************************)
(* Every step keeps every open connection with exactly one owner.          *)
(***************************************************************************)
LEMMA OwnerStep ==
  ASSUME TypeOK, RingInv, HeldInv, OneOwner, [Next]_vars
  PROVE  OneOwner'
<1>1. CASE UNCHANGED <<held, ring, net>>
  BY <1>1, OwnerSame
<1>2. ASSUME NEW x \in Threads,
             Sync(x) \/ SpuriousWakeup(x) \/ Signal(x) \/ Handler(x)
      PROVE  OneOwner'
  BY <1>1, <1>2 DEF Sync, TakeLock, DecideToWait, CondWait, SpuriousWakeup,
                    Signal, Handler, HandlerFlag, HandlerLock, HandlerBody
<1>3. ASSUME NEW w \in Workers, Worker(w) PROVE OneOwner'
  <2>1. CASE WorkerExit(w)
    BY <2>1, <1>1 DEF WorkerExit
  <2>2. CASE WorkerPop(w)
    BY <2>2, OwnerPop
  <2>3. CASE Serve(w)
    <3>1. held[w] \in Conns
      BY <2>3, Constants DEF Serve, At, HeldInv, TypeOK
    <3>. QED
      BY <2>3, <3>1, OwnerClose, Constants DEF Serve
  <2>. QED
    BY <1>3, <2>1, <2>2, <2>3 DEF Worker
<1>4. CASE MainThread
  <2>1. CASE SubmitPush
    BY <2>1, OwnerPush
  <2>2. CASE CloseRejected
    <3>1. held[Main] \in Conns
      BY <2>2, Constants DEF CloseRejected, At, HeldInv, TypeOK
    <3>. QED
      BY <2>2, <3>1, OwnerClose, Constants DEF CloseRejected
  <2>3. ASSUME NEW l \in Listeners, Accept(l) PROVE OneOwner'
    <3>1. CASE UNCHANGED <<net, held, pc>>
      BY <3>1, <2>3, <1>1 DEF Accept
    <3>2. ASSUME NEW c \in Pending(l),
                 net' = [net EXCEPT ![c] = "open"],
                 held' = [held EXCEPT ![Main] = c]
          PROVE  OneOwner'
      <4>1. c \in Conns /\ net[c] = "pending"
        BY DEF Pending
      <4>2. held[Main] = NoFd /\ UNCHANGED ring
        BY <2>3 DEF Accept, At, HeldInv
      <4>. QED
        BY <3>2, <4>1, <4>2, OwnerAccept
    <3>. QED
      BY <2>3, <3>1, <3>2 DEF Accept
  <2>4. CASE JoinAll
    <3>1. \A c \in Conns : net'[c] = "open" <=> net[c] = "open"
      BY <2>4 DEF JoinAll
    <3>. QED
      BY <2>4, <3>1, OwnerSame DEF JoinAll
  <2>5. CASE \/ \E w \in Workers : CreateWorker(w)
             \/ PoolCreated \/ CreateFails \/ FailFlag \/ FailWake
             \/ LoopTop \/ Poll \/ AcceptDone \/ SubmitReject
             \/ DestroyLock \/ Shutdown
    BY <2>5, <1>1
      DEF CreateWorker, PoolCreated, CreateFails, FailFlag, FailWake, LoopTop,
          Poll, AcceptDone, SubmitReject, DestroyLock, Shutdown
  <2>. QED
    BY <1>4, <2>1, <2>2, <2>3, <2>4, <2>5 DEF MainThread
<1>5. ASSUME NEW c \in Conns, Connect(c) PROVE OneOwner'
  <2>1. \A e \in Conns : net'[e] = "open" <=> net[e] = "open"
    BY <1>5 DEF Connect, TypeOK
  <2>. QED
    BY <1>5, <2>1, OwnerSame DEF Connect
<1>6. CASE UNCHANGED vars
  BY <1>6, <1>1 DEF vars
<1>. QED
  BY <1>2, <1>3, <1>4, <1>5, <1>6 DEF Next, Terminated

-----------------------------------------------------------------------------
(* The theorems.                                                            *)

(***************************************************************************)
(* The invariant holds in every reachable state of the server.             *)
(***************************************************************************)
THEOREM Invariant == Spec => []IInv
<1>1. Init => IInv
  <2>. SUFFICES ASSUME Init PROVE IInv
    OBVIOUS
  <2>1. TypeOK
    BY InitType
  <2>2. Used = {} /\ qlen = 0
    BY DEF Init, Used
  <2>3. pc[Main] = "create" /\ \A w \in Workers : pc[w] = "none"
    BY Constants DEF Init
  <2>4. LockInv
    BY Constants DEF Init, LockInv, InCS
  <2>5. HeldInv
    BY <2>3, Constants DEF Init, HeldInv
  <2>6. RingInv
    BY PoolAssumption DEF Init, RingInv, Slot, SlotFrom
  <2>7. OneOwner
    BY <2>2, PoolAssumption DEF Init, OneOwner, Queued
  <2>. QED
    BY <2>1, <2>2, <2>3, <2>4, <2>5, <2>6, <2>7
      DEF IInv, SleepInv, LifeInv, NoMissedWakeup, NothingLeft, FailPC
<1>2. IInv /\ [Next]_vars => IInv'
  BY TypeStep, LockStep, HeldStep, RingStep, SleepStep, LifeStep, OwnerStep,
     WakeupStep, LeftStep
    DEF IInv
<1>. QED
  BY <1>1, <1>2, PTL DEF Spec

(***************************************************************************)
(* Every accepted connection has exactly one owner at all times, for any   *)
(* number of threads and connections: none is leaked, closed twice or      *)
(* served twice (thread_pool_submit, worker_thread, server_run).           *)
(***************************************************************************)
THEOREM Ownership == Spec => []OneOwner
<1>1. IInv => OneOwner
  BY DEF IInv
<1>. QED
  BY <1>1, Invariant, PTL

(***************************************************************************)
(* No thread sleeps through a wakeup, although push and pop use            *)
(* pthread_cond_signal and not broadcast.                                  *)
(***************************************************************************)
THEOREM Wakeups == Spec => []NoMissedWakeup
<1>1. IInv => NoMissedWakeup
  BY DEF IInv
<1>. QED
  BY <1>1, Invariant, PTL

(***************************************************************************)
(* server_destroy leaves no connection open and none in the queue.         *)
(***************************************************************************)
THEOREM CleanEnd == Spec => []NothingLeft
<1>1. IInv => NothingLeft
  BY DEF IInv
<1>. QED
  BY <1>1, Invariant, PTL
(***************************************************************************)
(* The shutdown flag is set and never cleared.                             *)
(***************************************************************************)
LEMMA FlagStep ==
  ASSUME [Next]_vars
  PROVE  shutting_down' = shutting_down \/ shutting_down' = TRUE
<1>1. CASE UNCHANGED vars
  BY <1>1 DEF vars
<1>2. ASSUME NEW x \in Threads,
             Sync(x) \/ SpuriousWakeup(x) \/ Signal(x) \/ Handler(x)
      PROVE  shutting_down' = shutting_down \/ shutting_down' = TRUE
  BY <1>2 DEF Sync, TakeLock, DecideToWait, CondWait, SpuriousWakeup, Signal,
              Handler, HandlerFlag, HandlerLock, HandlerBody
<1>3. ASSUME NEW w \in Workers, Worker(w) PROVE shutting_down' = shutting_down
  BY <1>3 DEF Worker, WorkerExit, WorkerPop, Serve
<1>4. ASSUME MainThread
      PROVE  shutting_down' = shutting_down \/ shutting_down' = TRUE
  BY <1>4 DEF MainThread, CreateWorker, PoolCreated, CreateFails, FailFlag,
              FailWake, LoopTop, Poll, Accept, AcceptDone, SubmitReject,
              SubmitPush, CloseRejected, DestroyLock, Shutdown, JoinAll
<1>5. ASSUME NEW c \in Conns, Connect(c) PROVE shutting_down' = shutting_down
  BY <1>5 DEF Connect
<1>. QED
  BY <1>1, <1>2, <1>3, <1>4, <1>5 DEF Next, Terminated

(***************************************************************************)
(* The mapped queue is a sequence of connections.                          *)
(***************************************************************************)
LEMMA ContentsType ==
  ASSUME TypeOK, OneOwner
  PROVE  Contents \in Seq(Conns) /\ Len(Contents) = qlen
<1>1. ASSUME NEW i \in 1..qlen PROVE queue[Slot(i - 1)] \in Conns
  <2>1. i - 1 \in Used /\ i - 1 \in 0..QCap
    BY PoolAssumption DEF Used, TypeOK
  <2>2. Slot(i - 1) \in 0..(QCap - 1) /\ queue[Slot(i - 1)] # NoFd
    BY <2>1, SlotFacts DEF OneOwner, TypeOK
  <2>. QED
    BY <2>2 DEF TypeOK
<1>. QED
  BY <1>1 DEF Contents, TypeOK

(***************************************************************************)
(* The ring buffer, its mutex and the shutdown flag implement a bounded    *)
(* first-in first-out queue that takes nothing after it is closed, for     *)
(* every capacity, number of workers and interleaving of signals: a push   *)
(* is a Put, a pop is a Get, a shutdown is a Close and everything else     *)
(* leaves the queue alone.                                                 *)
(***************************************************************************)
THEOREM Implements == Spec => ImplementsQueue
<1>1. Init => BQ!QInit
  BY DEF Init, BQ!QInit, Contents
<1>2. ASSUME IInv, [Next]_vars PROVE [BQ!QNext]_(BQ!qvars)
  <2>0. TypeOK /\ RingInv /\ HeldInv /\ OneOwner
    BY <1>2 DEF IInv
  <2>. USE <1>2, <2>0
  <2>1. CASE SubmitPush
    <3>1. held[Main] \in Conns /\ ~shutting_down /\ UNCHANGED shutting_down
      BY <2>1, Constants DEF SubmitPush, At, HeldInv, TypeOK
    <3>2. Contents' = Append(Contents, held[Main])
      <4>1. qlen \in Nat /\ qlen' = qlen + 1
        BY <2>1, PushFacts DEF TypeOK
      <4>2. \A i \in 1..qlen : queue'[SlotFrom(qhead', i - 1)] = Contents[i]
        <5>. SUFFICES ASSUME NEW i \in 1..qlen
                      PROVE  queue'[SlotFrom(qhead', i - 1)] = Contents[i]
          OBVIOUS
        <5>1. i - 1 \in Used
          BY <4>1 DEF Used
        <5>. QED
          BY <2>1, <5>1, PushContents DEF Contents
      <4>3. queue'[SlotFrom(qhead', (qlen + 1) - 1)] = held[Main]
        BY <2>1, <4>1, PushContents
      <4>4. Contents' = [i \in 1..(qlen + 1) |-> queue'[SlotFrom(qhead', i - 1)]]
        BY <4>1 DEF Contents, Slot
      <4>. QED
        BY <3>1, <4>1, <4>2, <4>3, <4>4, ContentsType
    <3>3. Len(Contents) < QCap
      BY <2>1, PushFacts, ContentsType
    <3>. QED
      BY <3>1, <3>2, <3>3 DEF BQ!QNext, BQ!Put
  <2>2. ASSUME NEW w \in Workers, WorkerPop(w) PROVE BQ!Get
    <3>0. UNCHANGED shutting_down
      BY <2>2 DEF WorkerPop
    <3>1. qlen \in Nat /\ qlen > 0 /\ qlen' = qlen - 1
      BY <2>2, PopFacts DEF TypeOK
    <3>2. Contents # <<>>
      BY <3>1, ContentsType
    <3>3. ASSUME NEW i \in 1..(qlen - 1)
          PROVE  queue'[SlotFrom(qhead', i - 1)] = Contents[i + 1]
      <4>1. i - 1 \in Used' /\ (i - 1) + 1 = i /\ (i + 1) - 1 = i
            /\ i + 1 \in 1..qlen
        BY <3>1 DEF Used
      <4>2. queue'[SlotFrom(qhead', i - 1)] = queue[Slot(i)]
        BY <2>2, <4>1, PopContents
      <4>. QED
        BY <4>1, <4>2 DEF Contents
    <3>4. Contents' = [i \in 1..(qlen - 1) |-> queue'[SlotFrom(qhead', i - 1)]]
      BY <3>1 DEF Contents, Slot
    <3>5. \A i \in 1..(qlen - 1) : Contents'[i] = Contents[i + 1]
      BY <3>3, <3>4
    <3>6. Contents' = Tail(Contents)
      <4>1. Contents \in Seq(Conns) /\ Len(Contents) = qlen
        BY ContentsType
      <4>2. Contents' \in Seq(Conns) /\ Len(Contents') = qlen - 1
        BY <3>1, <3>4, <3>5, <4>1
      <4>3. /\ Tail(Contents) \in Seq(Conns)
            /\ Len(Tail(Contents)) = qlen - 1
            /\ \A i \in 1..(qlen - 1) : Tail(Contents)[i] = Contents[i + 1]
        BY <3>2, <4>1, HeadTailProperties
      <4>. QED
        BY <3>5, <4>2, <4>3, SeqEqual
    <3>. QED
      BY <3>0, <3>2, <3>6 DEF BQ!Get
  <2>3. CASE UNCHANGED ring
    <3>1. UNCHANGED Contents
      BY <2>3 DEF Contents, Slot, ring
    <3>2. shutting_down' = shutting_down \/ shutting_down' = TRUE
      BY FlagStep
    <3>. QED
      BY <3>1, <3>2 DEF BQ!QNext, BQ!Close, BQ!qvars
  <2>. QED
    BY RingChanges, <1>2, <2>1, <2>2, <2>3 DEF BQ!QNext
<1>. QED
  BY <1>1, <1>2, Invariant, PTL DEF Spec, ImplementsQueue, BQ!QSpec
=============================================================================
