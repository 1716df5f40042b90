------------------------------- MODULE Startup -------------------------------
(***************************************************************************)
(* The life of a server process (src/src/main.c): main, the objects it     *)
(* creates and destroys, the listeners of src/src/api/server.c, and the    *)
(* signals that end it.                                                    *)
(*                                                                         *)
(* Several instances are started with the same TCP port and the same       *)
(* socket path, one after the other or next to each other, and may die at  *)
(* any point.  The kernel keeps who listens on the port and what the path  *)
(* stands for; the path outlives the process that made it.  The sockets    *)
(* are not close-on-exec, so a task that a worker has spawned holds the    *)
(* port too, also after the server has closed it or died.                  *)
(*                                                                         *)
(* A failed system call or allocation, a crash, a signal and a request     *)
(* that kills the process are events, at most MaxEvents of them.           *)
(***************************************************************************)
EXTENDS Naturals, Sequences

CONSTANTS Instances,   \* processes
          Configs,     \* command lines and environments
          MaxEvents    \* bound on failures, signals and deaths

(***************************************************************************)
(* The command line and the environment as main tells them apart: an       *)
(* argument that parse_flags does not know ("junk"), the role and the id,  *)
(* the variables a worker needs ("env"), the token, a socket path.         *)
(***************************************************************************)
Config == [junk : BOOLEAN, role : {"none", "worker", "manager"}, id : Nat,
           env : BOOLEAN, token : BOOLEAN, unix : BOOLEAN]

Nobody == "nobody"
Stale == "stale"     \* a socket file no server accepts from
Task == "task"       \* a task whose server has closed the port

ASSUME StartupAssumption ==
  /\ Configs \subseteq Config
  /\ {Nobody, Stale, Task} \cap Instances = {}
  /\ MaxEvents \in Nat

VARIABLES proc,     \* each process
          port,     \* who listens on the TCP port
          path,     \* whose socket the path stands for
          events    \* how many events have happened

vars == <<proc, port, path, events>>

PC == {"off", "site", "logger", "pyoneer", "token", "server", "listen",
       "pool", "policy", "run", "cleanup", "destroy", "close", "unlink",
       "release", "hung"}

Resources == {"site", "logger", "pyoneer", "server"}

(***************************************************************************)
(* fd "zero" is descriptor 0, which calloc leaves in a listener that was   *)
(* never opened; its kind is then EP_UNIX without a path.                  *)
(***************************************************************************)
Listener == [kind : {"tcp", "unix", "blank"}, fd : {"none", "zero", "open"}]
Blank == [kind |-> "blank", fd |-> "zero"]

NoConfig == [junk |-> FALSE, role |-> "none", id |-> 0, env |-> FALSE,
             token |-> FALSE, unix |-> FALSE]

Off == [pc |-> "off", cfg |-> NoConfig, owned |-> {}, worker |-> FALSE,
        lis |-> <<>>, at |-> 1, pool |-> "unset", handler |-> FALSE,
        stop |-> FALSE, stdin |-> TRUE, task |-> FALSE]

(* Nothing is created for a command line that parse_flags turns down.       *)
TypeOK ==
  /\ proc \in [Instances ->
       [pc : PC, cfg : Configs \cup {NoConfig}, owned : SUBSET Resources,
        worker : BOOLEAN, lis : Seq(Listener), at : Nat,
        pool : {"unset", "null", "set"}, handler : BOOLEAN, stop : BOOLEAN,
        stdin : BOOLEAN, task : BOOLEAN]]
  /\ \A i \in Instances : proc[i].pc # "off" =>
       ~proc[i].cfg.junk /\ proc[i].cfg.role # "none" /\ proc[i].cfg.id # 0
  /\ port \in Instances \cup {Nobody, Task}
  /\ path \in Instances \cup {Nobody, Stale}
  /\ events \in 0..MaxEvents

Init ==
  /\ proc = [i \in Instances |-> Off]
  /\ port = Nobody
  /\ path = Nobody
  /\ events = 0

At(i, p) == proc[i].pc = p

Goto(i, p) == proc' = [proc EXCEPT ![i].pc = p]

Event == events < MaxEvents /\ events' = events + 1

(* What is left of the port when process i no longer holds it.              *)
ClosePort(i) == IF proc[i].task THEN Task ELSE Nobody

(* The process is gone: the kernel closes its sockets, the path stays.      *)
Die(i) ==
  /\ proc' = [proc EXCEPT ![i] = Off]
  /\ port' = IF port = i THEN ClosePort(i) ELSE port
  /\ path' = IF path = i THEN Stale ELSE path

(* An object is created, or main goes to its cleanup.                       *)
Create(i, r, next) ==
  /\ \/ /\ proc' = [proc EXCEPT ![i].pc = next, ![i].owned = @ \cup {r}]
        /\ UNCHANGED events
     \/ Goto(i, "cleanup") /\ Event
  /\ UNCHANGED <<port, path>>

-----------------------------------------------------------------------------
(* main up to server_create.                                                *)

(* Fault: an id that is missing is taken for 0.                             *)
FaultParseFlags(c) == ~c.junk /\ c.role # "none"

ParseFlags(c) == ~c.junk /\ c.role # "none" /\ c.id # 0

(***************************************************************************)
(* Who starts instances does not start one while another one is on its way *)
(* up or down.  One that runs is no obstacle.                              *)
(***************************************************************************)
MayStart(i) == \A j \in Instances \ {i} : proc[j].pc \in {"off", "run", "hung"}

Start(i, c) ==
  /\ At(i, "off")
  /\ MayStart(i)
  /\ proc' = IF ParseFlags(c)
             THEN [proc EXCEPT ![i].pc = "site", ![i].cfg = c]
             ELSE proc
  /\ UNCHANGED <<port, path, events>>

(* Only a worker has a site.  site_create does not look at what its three   *)
(* mallocs for strings return.                                              *)
SiteCreate(i) ==
  /\ At(i, "site")
  /\ \/ /\ proc[i].cfg.role = "manager"
        /\ Goto(i, "logger")
        /\ UNCHANGED <<port, path, events>>
     \/ /\ proc[i].cfg.role = "worker" /\ ~proc[i].cfg.env
        /\ Goto(i, "cleanup")
        /\ UNCHANGED <<port, path, events>>
     \/ /\ proc[i].cfg.role = "worker" /\ proc[i].cfg.env
        /\ Create(i, "site", "logger") \/ (Die(i) /\ Event)

LoggerCreate(i) == At(i, "logger") /\ Create(i, "logger", "pyoneer")

(***************************************************************************)
(* pyoneer_create does not look at what worker_create returns: NULL for an *)
(* id up to 1 and on failure.  For a manager it sets nothing at all.       *)
(***************************************************************************)
PyoneerCreate(i) ==
  /\ At(i, "pyoneer")
  /\ \/ /\ proc' = [proc EXCEPT ![i].pc = "token",
                                ![i].owned = @ \cup {"pyoneer"},
                                ![i].worker = /\ proc[i].cfg.role = "worker"
                                              /\ proc[i].cfg.id > 1]
        /\ UNCHANGED events
     \/ /\ proc' = [proc EXCEPT ![i].pc = "token",
                                ![i].owned = @ \cup {"pyoneer"}]
        /\ Event
     \/ Goto(i, "cleanup") /\ Event
  /\ UNCHANGED <<port, path>>

Token(i) ==
  /\ At(i, "token")
  /\ Goto(i, IF proc[i].cfg.token THEN "server" ELSE "cleanup")
  /\ UNCHANGED <<port, path, events>>

-----------------------------------------------------------------------------
(* server_create.                                                           *)

(* Fault: the socket path is opened before the port.                        *)
FaultEndpoints(c) == IF c.unix THEN <<"unix", "tcp">> ELSE <<"tcp">>

Endpoints(c) == IF c.unix THEN <<"tcp", "unix">> ELSE <<"tcp">>

(***************************************************************************)
(* The Server and its array of zeroed listeners; s->pool is not set.  If   *)
(* there is no memory for the array, server_destroy finds no listener.     *)
(***************************************************************************)
ServerAlloc(i) ==
  /\ At(i, "server")
  /\ \/ /\ proc' = [proc EXCEPT
             ![i].pc = "listen", ![i].owned = @ \cup {"server"}, ![i].at = 1,
             ![i].lis = [k \in DOMAIN Endpoints(proc[i].cfg) |-> Blank]]
        /\ UNCHANGED events
     \/ /\ proc' = [proc EXCEPT ![i].pc = "destroy",
                                ![i].owned = @ \cup {"server"}]
        /\ Event
     \/ Goto(i, "cleanup") /\ Event
  /\ UNCHANGED <<port, path>>

(* The listener at hand gets its endpoint and a descriptor, or -1.          *)
SetListener(i, fd, next) ==
  LET k == proc[i].at
  IN  proc' = [proc EXCEPT ![i].pc = next, ![i].at = k + 1,
                 ![i].lis[k] = [kind |-> Endpoints(proc[i].cfg)[k], fd |-> fd]]

Listening(i) ==
  SetListener(i, "open",
    IF proc[i].at = Len(proc[i].lis) THEN "pool" ELSE "listen")

(* make_tcp_listener: SO_REUSEADDR allows no second listener.               *)
OpenTcp(i) ==
  /\ At(i, "listen")
  /\ Endpoints(proc[i].cfg)[proc[i].at] = "tcp"
  /\ \/ port = Nobody /\ port' = i /\ Listening(i) /\ UNCHANGED events
     \/ /\ IF port = Nobody THEN Event ELSE UNCHANGED events
        /\ SetListener(i, "none", "destroy")
        /\ UNCHANGED port
  /\ UNCHANGED path

(* make_unix_listener: bind fails on a path that exists, whatever it stands *)
(* for.  A path whose listen fails stays bound.                             *)
OpenUnix(i) ==
  /\ At(i, "listen")
  /\ Endpoints(proc[i].cfg)[proc[i].at] = "unix"
  /\ \/ path = Nobody /\ path' = i /\ Listening(i) /\ UNCHANGED events
     \/ /\ path # Nobody
        /\ SetListener(i, "none", "destroy")
        /\ UNCHANGED <<path, events>>
     \/ /\ path = Nobody
        /\ Event
        /\ SetListener(i, "none", "destroy")
        /\ path' \in {Nobody, Stale}
  /\ UNCHANGED port

(***************************************************************************)
(* thread_pool_create: a pool, NULL, or a process that hangs because a     *)
(* worker misses the broadcast of the failure path (module ThreadPool).    *)
(***************************************************************************)
PoolCreate(i) ==
  /\ At(i, "pool")
  /\ \/ /\ proc' = [proc EXCEPT ![i].pc = "policy", ![i].pool = "set"]
        /\ UNCHANGED events
     \/ /\ proc' = [proc EXCEPT ![i].pc = "destroy", ![i].pool = "null"]
        /\ Event
     \/ Goto(i, "hung") /\ Event
  /\ UNCHANGED <<port, path>>

-----------------------------------------------------------------------------
(* The server runs.                                                         *)

(* policy_init sets SERVER and installs the handlers, if it fails one of    *)
(* them or none.                                                            *)
PolicyInit(i) ==
  /\ At(i, "policy")
  /\ \/ /\ proc' = [proc EXCEPT ![i].pc = "run", ![i].handler = TRUE]
        /\ UNCHANGED events
     \/ /\ \E h \in BOOLEAN :
             proc' = [proc EXCEPT ![i].pc = "cleanup", ![i].handler = h]
        /\ Event
  /\ UNCHANGED <<port, path>>

(* A request makes the worker spawn a task; later it ends.                  *)
TaskRuns(i) ==
  /\ At(i, "run")
  /\ proc[i].worker
  /\ proc' = [proc EXCEPT ![i].task = ~@]
  /\ UNCHANGED <<port, path, events>>

(* A task that its server has left ends by itself, or pyoneer_destroy       *)
(* stops it.                                                                *)
TaskEnds ==
  /\ port = Task
  /\ port' = Nobody
  /\ UNCHANGED <<proc, path, events>>

(* server_run returns after a stop, or because calloc or poll fails.        *)
RunEnds(i) ==
  /\ At(i, "run")
  /\ IF proc[i].stop THEN UNCHANGED events ELSE Event
  /\ Goto(i, "cleanup")
  /\ UNCHANGED <<port, path>>

(* A request dereferences the worker that pyoneer_create did not get.       *)
BadRequest(i) ==
  /\ At(i, "run")
  /\ ~proc[i].worker
  /\ Event
  /\ Die(i)

(***************************************************************************)
(* SIGINT or SIGTERM: the default action before policy_init, then the stop *)
(* flag.  SERVER is never cleared: once server_destroy has begun to free   *)
(* what it points to, the handler does nothing or kills the process.       *)
(***************************************************************************)
Signal(i) ==
  /\ ~At(i, "off")
  /\ Event
  /\ \/ ~proc[i].handler /\ Die(i)
     \/ /\ proc[i].handler /\ "server" \in proc[i].owned
        /\ proc' = [proc EXCEPT ![i].stop = TRUE]
        /\ UNCHANGED <<port, path>>
     \/ /\ proc[i].handler
        /\ proc[i].pc \in {"destroy", "close", "unlink", "release"}
        /\ Die(i) \/ UNCHANGED <<proc, port, path>>

(* SIGKILL, or a crash.                                                     *)
Kill(i) == ~At(i, "off") /\ Event /\ Die(i)

(* A process that hangs is killed in the end.                               *)
KillHung(i) == At(i, "hung") /\ Die(i) /\ UNCHANGED events

-----------------------------------------------------------------------------
(* The cleanup of main, and server_destroy, also from server_create.        *)

(* Fault: the server is left to the end of the process.                     *)
FaultCleanup(i) ==
  /\ At(i, "cleanup")
  /\ Goto(i, "release")
  /\ UNCHANGED <<port, path, events>>

Cleanup(i) ==
  /\ At(i, "cleanup")
  /\ Goto(i, IF "server" \in proc[i].owned THEN "destroy" ELSE "release")
  /\ UNCHANGED <<port, path, events>>

(* thread_pool_destroy, if s->pool is not NULL; what an unset pointer is,   *)
(* is up to malloc.                                                         *)
PoolDestroy(i) ==
  /\ At(i, "destroy")
  /\ \/ /\ proc' = [proc EXCEPT ![i].pc = "close", ![i].at = 1,
                                ![i].pool = "null"]
        /\ UNCHANGED <<port, path, events>>
     \/ proc[i].pool = "unset" /\ Die(i) /\ Event

(* Fault: the loop ends before the last listener.                           *)
FaultMore(i) == proc[i].at < Len(proc[i].lis)

More(i) == proc[i].at <= Len(proc[i].lis)

(* server_listeners_destroy closes a listener ...                           *)
CloseListener(i) ==
  /\ At(i, "close")
  /\ IF More(i)
     THEN LET fd == proc[i].lis[proc[i].at].fd
          IN  /\ proc' = [proc EXCEPT ![i].pc = "unlink",
                             ![i].stdin = @ /\ fd # "zero",
                             ![i].lis[proc[i].at].fd = "none"]
              /\ port' = IF fd = "open" /\ proc[i].lis[proc[i].at].kind = "tcp"
                         THEN ClosePort(i) ELSE port
     ELSE proc' = [proc EXCEPT ![i].pc = "release", ![i].lis = <<>>,
                               ![i].owned = @ \ {"server"}] /\ UNCHANGED port
  /\ UNCHANGED <<path, events>>

(* Fault: only a path that this server has bound is unlinked.               *)
FaultUnlink(i) ==
  /\ At(i, "unlink")
  /\ path' = IF path = i /\ proc[i].lis[proc[i].at].kind = "unix"
             THEN Nobody ELSE path
  /\ proc' = [proc EXCEPT ![i].pc = "close", ![i].at = @ + 1]
  /\ UNCHANGED <<port, events>>

(* ... and unlinks its path, whoever has bound it.                          *)
Unlink(i) ==
  /\ At(i, "unlink")
  /\ path' = IF proc[i].lis[proc[i].at].kind = "unix" THEN Nobody ELSE path
  /\ proc' = [proc EXCEPT ![i].pc = "close", ![i].at = @ + 1]
  /\ UNCHANGED <<port, events>>

(* Fault: the site is destroyed before the worker that uses it.             *)
FaultReleaseOrder == <<"site", "pyoneer", "logger">>

ReleaseOrder == <<"pyoneer", "logger", "site">>

(* What is destroyed next: the first of them that was created.             *)
Released(i, r) ==
  /\ r \in proc[i].owned
  /\ \E n \in DOMAIN ReleaseOrder :
       /\ r = ReleaseOrder[n]
       /\ \A m \in 1..(n - 1) : ReleaseOrder[m] \notin proc[i].owned

(***************************************************************************)
(* pyoneer_destroy, logger_destroy, site_destroy, then the end.  For a     *)
(* manager, pyoneer_destroy switches on a role that was never set and may  *)
(* destroy a worker that does not exist.                                   *)
(***************************************************************************)
Release(i) ==
  /\ At(i, "release")
  /\ \/ \E r \in Resources :
          /\ Released(i, r)
          /\ \/ /\ proc' = [proc EXCEPT ![i].owned = @ \ {r}]
                /\ UNCHANGED <<port, path, events>>
             \/ /\ r = "pyoneer" /\ proc[i].cfg.role = "manager"
                /\ Die(i) /\ Event
     \/ /\ \A r \in Resources : ~Released(i, r)
        /\ proc' = [proc EXCEPT ![i] = Off]
        /\ UNCHANGED <<port, path, events>>

-----------------------------------------------------------------------------

Step(i) ==
  \/ SiteCreate(i) \/ LoggerCreate(i) \/ PyoneerCreate(i) \/ Token(i)
  \/ ServerAlloc(i) \/ OpenTcp(i) \/ OpenUnix(i) \/ PoolCreate(i)
  \/ PolicyInit(i) \/ RunEnds(i) \/ Cleanup(i) \/ PoolDestroy(i)
  \/ CloseListener(i) \/ Unlink(i) \/ Release(i)

Next ==
  \/ TaskEnds
  \/ \E i \in Instances :
       \/ \E c \in Configs : Start(i, c)
       \/ Step(i)
       \/ TaskRuns(i) \/ BadRequest(i) \/ Signal(i) \/ Kill(i) \/ KillHung(i)

Spec == Init /\ [][Next]_vars

(***************************************************************************)
(* Processes are scheduled, tasks end, a hung server is killed, and a      *)
(* complete configuration with a socket path is tried again and again.     *)
(***************************************************************************)
Complete(c) ==
  ParseFlags(c) /\ c.role = "worker" /\ c.id > 1 /\ c.env /\ c.token /\ c.unix

Fairness ==
  /\ \A i \in Instances : WF_vars(Step(i)) /\ WF_vars(KillHung(i))
  /\ WF_vars(TaskEnds)
  /\ SF_vars(\E i \in Instances, c \in Configs : Complete(c) /\ Start(i, c))

FairSpec == Spec /\ Fairness

-----------------------------------------------------------------------------
(* Properties.                                                              *)

(***************************************************************************)
(* The port and the path of a server that accepts connections lead to it,  *)
(* although a second instance with the same port and path that fails to    *)
(* start unlinks paths it has not bound: server_listeners_init opens the   *)
(* port first, and a listener that was not reached has no path to unlink.  *)
(***************************************************************************)
RunningIsReachable ==
  \A i \in Instances :
    At(i, "run") => port = i /\ (proc[i].cfg.unix => path = i)

(***************************************************************************)
(* A socket file left behind by a process that died, at whatever point,    *)
(* does not keep the service down: a start that finds the port free fails  *)
(* on it, and its server_destroy unlinks it for the one after.             *)
(***************************************************************************)
RecoversFromStalePath ==
  (path = Stale) ~> (\E i \in Instances : At(i, "run"))

(***************************************************************************)
(* A process that ends by itself, after a stop or after a failure of any   *)
(* step of main or server_create, holds neither the port nor the path once *)
(* server_destroy has returned.                                            *)
(***************************************************************************)
NothingLeftBehind ==
  \A i \in Instances :
    proc[i].pc \in {"off", "release"} => port # i /\ path # i

(***************************************************************************)
(* Of the four objects main creates, none is destroyed before one that     *)
(* uses it, on every path through the cleanup: the Server, whose pool      *)
(* threads log and call the Pyoneer, goes before both, and the Pyoneer of  *)
(* a worker, which stops the job threads that run in the Site when it is   *)
(* destroyed, before the Site.  This is about the objects and not about    *)
(* every thread: a job thread that worker_destroy misses (DestroyStopsWork *)
(* of module Worker) may use the Site after it is gone, and a signal       *)
(* handler the Server (Signal above).                                      *)
(***************************************************************************)
Outlive ==
  \A i \in Instances :
    /\ "server" \in proc[i].owned => {"pyoneer", "logger"} \subseteq proc[i].owned
    /\ "pyoneer" \in proc[i].owned /\ proc[i].cfg.role = "worker" =>
         "site" \in proc[i].owned
=============================================================================
