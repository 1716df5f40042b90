---------------------------- MODULE StartupProofs ----------------------------
(***************************************************************************)
(* Proofs about Startup, for any set of processes and configurations and   *)
(* any number of failures, signals and deaths.                             *)
(***************************************************************************)
EXTENDS Startup, SequenceTheorems, TLAPS

(* On its way up: from parse_flags to the call of server_run.               *)
StartPC == {"site", "logger", "pyoneer", "token", "server", "listen", "pool",
            "policy"}

(* All listeners are open.                                                  *)
ServingPC == {"pool", "policy", "run", "hung"}

TcpOpen(p) == p.lis # <<>> /\ p.lis[1].kind = "tcp" /\ p.lis[1].fd = "open"

(* server_destroy has a path to unlink, or will have.                       *)
HasPath(p) ==
  /\ Len(p.lis) = 2
  /\ p.lis[2].kind = "unix"
  /\ p.pc \in {"close", "unlink"} => p.at <= 2

(***************************************************************************)
(* What a process owns at each place, and that it owns nothing whose user  *)
(* might outlive it.                                                       *)
(***************************************************************************)
OwnsInv(p) ==
  /\ p.pc = "off" => p = Off
  /\ p.pc = "site" => p.owned = {}
  /\ p.pc = "logger" => p.owned \subseteq {"site"}
  /\ p.pc = "pyoneer" => /\ "logger" \in p.owned
                         /\ p.owned \subseteq {"site", "logger"}
  /\ p.pc \in {"token", "server"} => {"pyoneer", "logger"} \subseteq p.owned
  /\ p.pc \in {"token", "server", "release"} => "server" \notin p.owned
  /\ p.pc \in {"listen", "destroy", "close", "unlink"} \cup ServingPC =>
       "server" \in p.owned
  /\ p.pc \in {"logger", "pyoneer", "token", "server"} /\ p.cfg.role = "worker" =>
       "site" \in p.owned
  /\ "server" \in p.owned => {"pyoneer", "logger"} \subseteq p.owned
  /\ "pyoneer" \in p.owned => "logger" \in p.owned
  /\ "pyoneer" \in p.owned /\ p.cfg.role = "worker" => "site" \in p.owned

(***************************************************************************)
(* How far the listeners are at each place: opened in the order of the     *)
(* endpoints, closed in the same order.                                    *)
(***************************************************************************)
ListenInv(p) ==
  /\ "server" \notin p.owned => p.lis = <<>>
  /\ p.at # 0
  /\ p.lis # <<>> => /\ Len(p.lis) = IF p.cfg.unix THEN 2 ELSE 1
                     /\ p.lis[1].kind # "unix"
                     /\ Len(p.lis) = 2 => p.lis[2].kind # "tcp"
  /\ p.pc = "listen" => /\ p.lis # <<>>
                        /\ p.at <= Len(p.lis)
                        /\ p.at = 1 => p.lis[1].kind = "blank"
                        /\ p.at = 2 => TcpOpen(p)
                        /\ Len(p.lis) = 2 => p.lis[2].kind = "blank"
  /\ p.pc \in ServingPC => TcpOpen(p)
  /\ p.pc \in {"close", "unlink"} /\ p.lis # <<>> /\ p.at > 1 =>
       p.lis[1].fd # "open"
  /\ p.pc = "unlink" => p.at <= Len(p.lis) /\ p.lis[p.at].fd # "open"

LocalInv == \A i \in Instances : OwnsInv(proc[i]) /\ ListenInv(proc[i])

(* The kernel and the process agree on who has the port.                    *)
PortInv == \A i \in Instances : port = i <=> TcpOpen(proc[i])

PathInv == \A i \in Instances : path = i => HasPath(proc[i])

OneStarter ==
  \A i, j \in Instances :
    proc[i].pc \in StartPC /\ proc[j].pc \in StartPC => i = j

(***************************************************************************)
(* While a process is on its way up, another one that will unlink the path *)
(* is the one that has bound it: it was running when the start began.      *)
(***************************************************************************)
UnlinksItsOwn ==
  \A i, j \in Instances :
    i # j /\ proc[i].pc \in StartPC /\ HasPath(proc[j]) => path = j

(* A server with a socket path has bound it, and no other process is going  *)
(* to unlink it.                                                            *)
PathIsSafe ==
  \A i \in Instances : proc[i].pc \in ServingPC /\ proc[i].cfg.unix =>
    /\ path = i
    /\ \A j \in Instances \ {i} : ~HasPath(proc[j])

GlobalInv ==
  PortInv /\ PathInv /\ OneStarter /\ UnlinksItsOwn /\ PathIsSafe

IInv == TypeOK /\ LocalInv /\ GlobalInv

-----------------------------------------------------------------------------
(* Type correctness and what each process knows of itself.                  *)

ProcType ==
  [pc : PC, cfg : Configs \cup {NoConfig}, owned : SUBSET Resources,
   worker : BOOLEAN, lis : Seq(Listener), at : Nat,
   pool : {"unset", "null", "set"}, handler : BOOLEAN, stop : BOOLEAN,
   stdin : BOOLEAN, task : BOOLEAN]

Accepted(p) ==
  p.pc # "off" => ~p.cfg.junk /\ p.cfg.role # "none" /\ p.cfg.id # 0

(* A well-formed process.                                                   *)
ProcInv(p) == p \in ProcType /\ Accepted(p) /\ OwnsInv(p) /\ ListenInv(p)

(* Process i has moved, the others have not, and it is well-formed.         *)
Moves(i) ==
  /\ proc' \in [Instances -> ProcType]
  /\ \A j \in Instances \ {i} : proc'[j] = proc[j]
  /\ ProcInv(proc'[i])

(* As far as the other processes can tell, nothing has happened: the        *)
(* listeners hold what they held, and the process is not newly on its way   *)
(* up or serving.                                                           *)
Quiet(p, q) ==
  /\ TcpOpen(q) <=> TcpOpen(p)
  /\ HasPath(q) <=> HasPath(p)
  /\ q.pc \in StartPC => p.pc \in StartPC
  /\ q.pc \in ServingPC /\ q.cfg.unix => p.pc \in ServingPC /\ p.cfg.unix

QuietMoves(i) == Moves(i) /\ Quiet(proc[i], proc'[i])

(***************************************************************************)
(* No process at all: nothing owned, nothing open.                         *)
(***************************************************************************)
LEMMA OffFacts == ProcInv(Off) /\ ~TcpOpen(Off) /\ ~HasPath(Off)
<1>1. Off \in ProcType
  BY DEF ProcType, Off, PC
<1>2. Accepted(Off)
  BY DEF Off, Accepted
<1>3. OwnsInv(Off)
  BY DEF Off, OwnsInv, ServingPC
<1>4. ListenInv(Off)
  BY DEF Off, ListenInv, ServingPC
<1>5. ~TcpOpen(Off) /\ ~HasPath(Off)
  BY DEF Off, TcpOpen, HasPath
<1>. QED
  BY <1>1, <1>2, <1>3, <1>4, <1>5 DEF ProcInv

(***************************************************************************)
(* The invariant in terms of well-formed processes.                        *)
(***************************************************************************)
LEMMA Split ==
  ASSUME TypeOK, LocalInv
  PROVE  /\ \A i \in Instances : ProcInv(proc[i])
         /\ proc \in [Instances -> ProcType]
BY DEF TypeOK, LocalInv, ProcInv, ProcType, Accepted

(***************************************************************************)
(* ... and back, after the step of one process.                            *)
(***************************************************************************)
LEMMA Join ==
  ASSUME TypeOK, LocalInv, NEW i \in Instances, Moves(i),
         port' \in Instances \cup {Nobody, Task},
         path' \in Instances \cup {Nobody, Stale},
         events' \in 0..MaxEvents
  PROVE  TypeOK' /\ LocalInv'
BY DEF TypeOK, LocalInv, Moves, ProcInv, ProcType, Accepted

(***************************************************************************)
(* One process takes its next state.                                       *)
(***************************************************************************)
LEMMA Move ==
  ASSUME TypeOK, LocalInv, NEW i \in Instances, NEW q, ProcInv(q),
         proc' = [proc EXCEPT ![i] = q]
  PROVE  Moves(i) /\ (Quiet(proc[i], q) => QuietMoves(i))
BY Split DEF Moves, QuietMoves, ProcInv

(***************************************************************************)
(* What a process owns and listens to depends on four of its fields, and   *)
(* at the cleanup of main nothing more is asked of them.                   *)
(***************************************************************************)
LEMMA ToCleanup ==
  ASSUME NEW p, ProcInv(p), p.pc # "off",
         NEW q \in ProcType, q.pc \in {"cleanup", p.pc}, q.cfg = p.cfg,
         p.pc \in {"close", "unlink"} => q.pc = p.pc,
         q.owned = p.owned, q.lis = p.lis, q.at = p.at
  PROVE  ProcInv(q) /\ Quiet(p, q)
<1>1. CASE q.pc = p.pc
  BY <1>1 DEF ProcInv, Accepted, OwnsInv, ListenInv, TcpOpen, Quiet, HasPath
<1>2. CASE q.pc = "cleanup"
  <2>1. ProcInv(q)
    BY <1>2 DEF ProcInv, Accepted, OwnsInv, ListenInv, ServingPC
  <2>2. Quiet(p, q)
    BY <1>2 DEF Quiet, TcpOpen, HasPath, StartPC, ServingPC
  <2>. QED
    BY <2>1, <2>2
<1>. QED
  BY <1>1, <1>2

(***************************************************************************)
(* A process that dies is off.                                             *)
(***************************************************************************)
LEMMA DieMoves ==
  ASSUME TypeOK, LocalInv, NEW i \in Instances, Die(i)
  PROVE  Moves(i) /\ proc'[i] = Off
<1>1. Moves(i)
  BY Move, OffFacts DEF Die
<1>. QED
  BY <1>1, Split DEF Die

(***************************************************************************)
(* site_create, for a worker only.                                         *)
(***************************************************************************)
LEMMA SiteMoves ==
  ASSUME TypeOK, LocalInv, NEW i \in Instances, SiteCreate(i), ~Die(i)
  PROVE  QuietMoves(i)
<1>. DEFINE p == proc[i]
<1>1. ProcInv(p) /\ proc \in [Instances -> ProcType]
  BY Split
<1>2. p.pc = "site"
  BY DEF SiteCreate, At
<1>3. CASE p.cfg.role = "manager" /\ Goto(i, "logger")
  <2>. DEFINE q == [p EXCEPT !.pc = "logger"]
  <2>1. proc' = [proc EXCEPT ![i] = q]
    BY <1>3 DEF Goto
  <2>2. q \in ProcType
    BY <1>1, <1>3 DEF ProcInv, ProcType, PC, Resources
  <2>3. /\ q.pc = "logger" /\ q.owned = p.owned
        /\ q.cfg = p.cfg /\ q.lis = p.lis /\ q.at = p.at
    BY <1>1 DEF ProcInv, ProcType
  <2>4. ProcInv(q)
    BY <1>1, <1>2, <2>2, <2>3, <1>3
      DEF ProcInv, Accepted, OwnsInv, ListenInv, TcpOpen, ServingPC
  <2>5. Quiet(p, q)
    BY <1>1, <1>2, <2>3 DEF Quiet, TcpOpen, HasPath, StartPC, ServingPC
  <2>. QED
    BY <2>1, <2>4, <2>5, Move
<1>4. CASE Goto(i, "cleanup")
  <2>. DEFINE q == [p EXCEPT !.pc = "cleanup"]
  <2>1. proc' = [proc EXCEPT ![i] = q]
    BY <1>4 DEF Goto
  <2>2. /\ q \in ProcType /\ q.pc \in {"cleanup", p.pc} /\ q.cfg = p.cfg
        /\ q.owned = p.owned /\ q.lis = p.lis /\ q.at = p.at
    BY <1>1 DEF ProcInv, ProcType, PC
  <2>3. ProcInv(q) /\ Quiet(p, q)
    BY <1>1, <1>2, <2>2, ToCleanup
  <2>. QED
    BY <2>1, <2>3, Move
<1>5. CASE proc' = [proc EXCEPT ![i].pc = "logger", ![i].owned = @ \cup {"site"}]
  <2>. DEFINE q == [p EXCEPT !.pc = "logger", !.owned = @ \cup {"site"}]
  <2>1. proc' = [proc EXCEPT ![i] = q]
    BY <1>5
  <2>2. q \in ProcType
    BY <1>1 DEF ProcInv, ProcType, PC, Resources
  <2>3. /\ q.pc = "logger" /\ q.owned = p.owned \cup {"site"}
        /\ q.cfg = p.cfg /\ q.lis = p.lis /\ q.at = p.at
    BY <1>1 DEF ProcInv, ProcType
  <2>4. ProcInv(q)
    BY <1>1, <1>2, <2>2, <2>3
      DEF ProcInv, Accepted, OwnsInv, ListenInv, TcpOpen, ServingPC
  <2>5. Quiet(p, q)
    BY <1>1, <1>2, <2>3 DEF Quiet, TcpOpen, HasPath, StartPC, ServingPC
  <2>. QED
    BY <2>1, <2>4, <2>5, Move
<1>. QED
  BY <1>3, <1>4, <1>5 DEF SiteCreate, Create

(***************************************************************************)
(* logger_create.                                                          *)
(***************************************************************************)
LEMMA LoggerMoves ==
  ASSUME TypeOK, LocalInv, NEW i \in Instances, LoggerCreate(i)
  PROVE  QuietMoves(i)
<1>. DEFINE p == proc[i]
<1>1. ProcInv(p) /\ proc \in [Instances -> ProcType]
  BY Split
<1>2. p.pc = "logger"
  BY DEF LoggerCreate, At
<1>3. CASE Goto(i, "cleanup")
  <2>. DEFINE q == [p EXCEPT !.pc = "cleanup"]
  <2>1. proc' = [proc EXCEPT ![i] = q]
    BY <1>3 DEF Goto
  <2>2. /\ q \in ProcType /\ q.pc \in {"cleanup", p.pc} /\ q.cfg = p.cfg
        /\ q.owned = p.owned /\ q.lis = p.lis /\ q.at = p.at
    BY <1>1 DEF ProcInv, ProcType, PC
  <2>3. ProcInv(q) /\ Quiet(p, q)
    BY <1>1, <1>2, <2>2, ToCleanup
  <2>. QED
    BY <2>1, <2>3, Move
<1>4. CASE proc' = [proc EXCEPT ![i].pc = "pyoneer", ![i].owned = @ \cup {"logger"}]
  <2>. DEFINE q == [p EXCEPT !.pc = "pyoneer", !.owned = @ \cup {"logger"}]
  <2>1. proc' = [proc EXCEPT ![i] = q]
    BY <1>4
  <2>2. q \in ProcType
    BY <1>1 DEF ProcInv, ProcType, PC, Resources
  <2>3. /\ q.pc = "pyoneer" /\ q.owned = p.owned \cup {"logger"}
        /\ q.cfg = p.cfg /\ q.lis = p.lis /\ q.at = p.at
    BY <1>1 DEF ProcInv, ProcType
  <2>4. ProcInv(q)
    BY <1>1, <1>2, <2>2, <2>3
      DEF ProcInv, Accepted, OwnsInv, ListenInv, TcpOpen, ServingPC
  <2>5. Quiet(p, q)
    BY <1>1, <1>2, <2>3 DEF Quiet, TcpOpen, HasPath, StartPC, ServingPC
  <2>. QED
    BY <2>1, <2>4, <2>5, Move
<1>. QED
  BY <1>3, <1>4 DEF LoggerCreate, Create

(***************************************************************************)
(* pyoneer_create, with or without the worker it asked for.                *)
(***************************************************************************)
LEMMA PyoneerMoves ==
  ASSUME TypeOK, LocalInv, NEW i \in Instances, PyoneerCreate(i)
  PROVE  QuietMoves(i)
<1>. DEFINE p == proc[i]
<1>1. ProcInv(p) /\ proc \in [Instances -> ProcType]
  BY Split
<1>2. p.pc = "pyoneer"
  BY DEF PyoneerCreate, At
<1>3. CASE Goto(i, "cleanup")
  <2>. DEFINE q == [p EXCEPT !.pc = "cleanup"]
  <2>1. proc' = [proc EXCEPT ![i] = q]
    BY <1>3 DEF Goto
  <2>2. /\ q \in ProcType /\ q.pc \in {"cleanup", p.pc} /\ q.cfg = p.cfg
        /\ q.owned = p.owned /\ q.lis = p.lis /\ q.at = p.at
    BY <1>1 DEF ProcInv, ProcType, PC
  <2>3. ProcInv(q) /\ Quiet(p, q)
    BY <1>1, <1>2, <2>2, ToCleanup
  <2>. QED
    BY <2>1, <2>3, Move
<1>4. ASSUME NEW w \in BOOLEAN,
             proc' = [proc EXCEPT ![i].pc = "token",
                                  ![i].owned = @ \cup {"pyoneer"},
                                  ![i].worker = w]
      PROVE  QuietMoves(i)
  <2>. DEFINE q == [p EXCEPT !.pc = "token", !.owned = @ \cup {"pyoneer"},
                             !.worker = w]
  <2>1. proc' = [proc EXCEPT ![i] = q]
    BY <1>4
  <2>2. q \in ProcType
    BY <1>1 DEF ProcInv, ProcType, PC, Resources
  <2>3. /\ q.pc = "token" /\ q.owned = p.owned \cup {"pyoneer"}
        /\ q.cfg = p.cfg /\ q.lis = p.lis /\ q.at = p.at
    BY <1>1 DEF ProcInv, ProcType
  <2>4. ProcInv(q)
    BY <1>1, <1>2, <2>2, <2>3
      DEF ProcInv, Accepted, OwnsInv, ListenInv, TcpOpen, ServingPC
  <2>5. Quiet(p, q)
    BY <1>1, <1>2, <2>3 DEF Quiet, TcpOpen, HasPath, StartPC, ServingPC
  <2>. QED
    BY <2>1, <2>4, <2>5, Move
<1>5. CASE proc' = [proc EXCEPT ![i].pc = "token",
                                ![i].owned = @ \cup {"pyoneer"}]
  <2>. DEFINE q == [p EXCEPT !.pc = "token", !.owned = @ \cup {"pyoneer"}]
  <2>1. proc' = [proc EXCEPT ![i] = q]
    BY <1>5
  <2>2. q \in ProcType
    BY <1>1 DEF ProcInv, ProcType, PC, Resources
  <2>3. /\ q.pc = "token" /\ q.owned = p.owned \cup {"pyoneer"}
        /\ q.cfg = p.cfg /\ q.lis = p.lis /\ q.at = p.at
    BY <1>1 DEF ProcInv, ProcType
  <2>4. ProcInv(q)
    BY <1>1, <1>2, <2>2, <2>3
      DEF ProcInv, Accepted, OwnsInv, ListenInv, TcpOpen, ServingPC
  <2>5. Quiet(p, q)
    BY <1>1, <1>2, <2>3 DEF Quiet, TcpOpen, HasPath, StartPC, ServingPC
  <2>. QED
    BY <2>1, <2>4, <2>5, Move
<1>6. (p.cfg.role = "worker" /\ p.cfg.id > 1) \in BOOLEAN
  OBVIOUS
<1>. QED
  BY <1>3, <1>4, <1>5, <1>6 DEF PyoneerCreate

(***************************************************************************)
(* The token is there, or main gives up.                                   *)
(***************************************************************************)
LEMMA TokenMoves ==
  ASSUME TypeOK, LocalInv, NEW i \in Instances, Token(i)
  PROVE  QuietMoves(i)
<1>. DEFINE p == proc[i]
<1>1. ProcInv(p) /\ proc \in [Instances -> ProcType]
  BY Split
<1>2. p.pc = "token"
  BY DEF Token, At
<1>3. CASE Goto(i, "cleanup")
  <2>. DEFINE q == [p EXCEPT !.pc = "cleanup"]
  <2>1. proc' = [proc EXCEPT ![i] = q]
    BY <1>3 DEF Goto
  <2>2. /\ q \in ProcType /\ q.pc \in {"cleanup", p.pc} /\ q.cfg = p.cfg
        /\ q.owned = p.owned /\ q.lis = p.lis /\ q.at = p.at
    BY <1>1 DEF ProcInv, ProcType, PC
  <2>3. ProcInv(q) /\ Quiet(p, q)
    BY <1>1, <1>2, <2>2, ToCleanup
  <2>. QED
    BY <2>1, <2>3, Move
<1>4. CASE Goto(i, "server")
  <2>. DEFINE q == [p EXCEPT !.pc = "server"]
  <2>1. proc' = [proc EXCEPT ![i] = q]
    BY <1>4 DEF Goto
  <2>2. q \in ProcType
    BY <1>1 DEF ProcInv, ProcType, PC, Resources
  <2>3. /\ q.pc = "server" /\ q.owned = p.owned
        /\ q.cfg = p.cfg /\ q.lis = p.lis /\ q.at = p.at
    BY <1>1 DEF ProcInv, ProcType
  <2>4. ProcInv(q)
    BY <1>1, <1>2, <2>2, <2>3
      DEF ProcInv, Accepted, OwnsInv, ListenInv, TcpOpen, ServingPC
  <2>5. Quiet(p, q)
    BY <1>1, <1>2, <2>3 DEF Quiet, TcpOpen, HasPath, StartPC, ServingPC
  <2>. QED
    BY <2>1, <2>4, <2>5, Move
<1>. QED
  BY <1>3, <1>4 DEF Token

(***************************************************************************)
(* The server and its blank listeners (server_create).                     *)
(***************************************************************************)
LEMMA AllocMoves ==
  ASSUME TypeOK, LocalInv, NEW i \in Instances, ServerAlloc(i)
  PROVE  QuietMoves(i)
<1>. DEFINE p == proc[i]
<1>1. ProcInv(p) /\ proc \in [Instances -> ProcType]
  BY Split
<1>2. p.pc = "server"
  BY DEF ServerAlloc, At
<1>3. CASE Goto(i, "cleanup")
  <2>. DEFINE q == [p EXCEPT !.pc = "cleanup"]
  <2>1. proc' = [proc EXCEPT ![i] = q]
    BY <1>3 DEF Goto
  <2>2. /\ q \in ProcType /\ q.pc \in {"cleanup", p.pc} /\ q.cfg = p.cfg
        /\ q.owned = p.owned /\ q.lis = p.lis /\ q.at = p.at
    BY <1>1 DEF ProcInv, ProcType, PC
  <2>3. ProcInv(q) /\ Quiet(p, q)
    BY <1>1, <1>2, <2>2, ToCleanup
  <2>. QED
    BY <2>1, <2>3, Move
<1>4. CASE proc' = [proc EXCEPT ![i].pc = "destroy",
                                ![i].owned = @ \cup {"server"}]
  <2>. DEFINE q == [p EXCEPT !.pc = "destroy", !.owned = @ \cup {"server"}]
  <2>1. proc' = [proc EXCEPT ![i] = q]
    BY <1>4
  <2>2. q \in ProcType
    BY <1>1 DEF ProcInv, ProcType, PC, Resources
  <2>3. /\ q.pc = "destroy" /\ q.owned = p.owned \cup {"server"}
        /\ q.cfg = p.cfg /\ q.lis = p.lis /\ q.at = p.at
    BY <1>1 DEF ProcInv, ProcType
  <2>4. ProcInv(q)
    BY <1>1, <1>2, <2>2, <2>3
      DEF ProcInv, Accepted, OwnsInv, ListenInv, TcpOpen, ServingPC
  <2>5. Quiet(p, q)
    BY <1>1, <1>2, <2>3 DEF Quiet, TcpOpen, HasPath, StartPC, ServingPC
  <2>. QED
    BY <2>1, <2>4, <2>5, Move
<1>5. CASE proc' = [proc EXCEPT
              ![i].pc = "listen", ![i].owned = @ \cup {"server"}, ![i].at = 1,
              ![i].lis = [k \in DOMAIN Endpoints(proc[i].cfg) |-> Blank]]
  <2>. DEFINE b == [k \in DOMAIN Endpoints(proc[i].cfg) |-> Blank]
              q == [p EXCEPT !.pc = "listen", !.owned = @ \cup {"server"},
                             !.at = 1, !.lis = b]
  <2>1. proc' = [proc EXCEPT ![i] = q]
    BY <1>5
  <2>2. b \in Seq(Listener) /\ Len(b) = IF p.cfg.unix THEN 2 ELSE 1
    <3>1. CASE p.cfg.unix
      BY <3>1 DEF Endpoints, Listener, Blank
    <3>2. CASE ~p.cfg.unix
      BY <3>2 DEF Endpoints, Listener, Blank
    <3>. QED
      BY <3>1, <3>2
  <2>3. /\ b[1].kind = "blank"
        /\ p.cfg.unix => b[2].kind = "blank"
    BY DEF Endpoints, Blank
  <2>4. q \in ProcType
    BY <1>1, <2>2 DEF ProcInv, ProcType, PC, Resources
  <2>5. /\ q.pc = "listen" /\ q.owned = p.owned \cup {"server"}
        /\ q.cfg = p.cfg /\ q.lis = b /\ q.at = 1
    BY <1>1 DEF ProcInv, ProcType
  <2>. HIDE DEF b, q
  <2>6. OwnsInv(q) /\ Accepted(q)
    BY <1>1, <1>2, <2>5 DEF ProcInv, OwnsInv, Accepted, ServingPC
  <2>7. ListenInv(q)
    BY <1>1, <1>2, <2>2, <2>3, <2>5 DEF ListenInv, ServingPC
  <2>8. Quiet(p, q)
    BY <1>1, <1>2, <2>2, <2>3, <2>5
      DEF ProcInv, OwnsInv, ListenInv, Quiet, TcpOpen, HasPath, StartPC, ServingPC
  <2>. QED
    BY <2>1, <2>4, <2>6, <2>7, <2>8, Move DEF ProcInv
<1>. QED
  BY <1>3, <1>4, <1>5 DEF ServerAlloc

(***************************************************************************)
(* The endpoints: the port first, then the path if there is one.           *)
(***************************************************************************)
LEMMA EndpointFacts ==
  ASSUME NEW c
  PROVE  /\ Len(Endpoints(c)) = IF c.unix THEN 2 ELSE 1
         /\ Endpoints(c)[1] = "tcp"
         /\ c.unix => Endpoints(c)[2] = "unix"
BY DEF Endpoints

(***************************************************************************)
(* A listener gets its endpoint and, if it could be opened, a descriptor;  *)
(* the list goes on, or server_create gives up.                            *)
(***************************************************************************)
LEMMA ListenerMoves ==
  ASSUME TypeOK, LocalInv, NEW i \in Instances, At(i, "listen"),
         NEW fd \in {"none", "open"},
         NEW next \in {"destroy", "pool", "listen"},
         next # "destroy" => fd = "open",
         next = "pool" => proc[i].at = Len(proc[i].lis),
         next = "listen" => proc[i].at # Len(proc[i].lis),
         SetListener(i, fd, next)
  PROVE  /\ Moves(i)
         /\ proc'[i].pc = next
         /\ proc'[i].cfg = proc[i].cfg
         /\ TcpOpen(proc'[i]) <=> (proc[i].at = 1 => fd = "open")
         /\ HasPath(proc'[i]) <=> proc[i].at = 2
<1>. DEFINE p == proc[i]
            l == [kind |-> Endpoints(p.cfg)[p.at], fd |-> fd]
            m == [p.lis EXCEPT ![p.at] = l]
            q == [p EXCEPT !.pc = next, !.at = p.at + 1, !.lis = m]
<1>1. ProcInv(p) /\ proc \in [Instances -> ProcType]
  BY Split
<1>2. p.pc = "listen"
  BY DEF At
<1>3. /\ p.lis \in Seq(Listener) /\ p.at \in Nat /\ p.lis # <<>>
      /\ p.at \in 1..Len(p.lis)
      /\ Len(p.lis) = IF p.cfg.unix THEN 2 ELSE 1
      /\ p.at = 1 => p.lis[1].kind = "blank"
      /\ p.at = 2 => TcpOpen(p)
      /\ Len(p.lis) = 2 => p.lis[2].kind = "blank"
      /\ "server" \in p.owned
  BY <1>1, <1>2 DEF ProcInv, ProcType, ListenInv, OwnsInv
<1>4. /\ p.at \in {1, 2} /\ l.fd = fd
      /\ l.kind = IF p.at = 1 THEN "tcp" ELSE "unix"
  BY <1>3, EndpointFacts
<1>5. l \in Listener
  BY <1>4 DEF Listener
<1>6. proc' = [proc EXCEPT ![i] = q]
  BY DEF SetListener
<1>. HIDE DEF l
<1>7. /\ m \in Seq(Listener) /\ Len(m) = Len(p.lis)
      /\ m[p.at] = l
      /\ \A n \in 1..Len(p.lis) : n # p.at => m[n] = p.lis[n]
  BY <1>3, <1>5, ExceptSeq
<1>. HIDE DEF m
<1>8. p.at + 1 \in Nat /\ next \in PC
  BY <1>3 DEF PC
<1>9. q \in ProcType
  BY <1>1, <1>7, <1>8 DEF ProcInv, ProcType
<1>10. /\ q.pc = next /\ q.owned = p.owned /\ q.cfg = p.cfg
       /\ q.lis = m /\ q.at = p.at + 1
  BY <1>1 DEF ProcInv, ProcType
<1>. HIDE DEF q
<1>11. TcpOpen(q) <=> (p.at = 1 => fd = "open")
  BY <1>3, <1>4, <1>7, <1>10 DEF TcpOpen
<1>12. HasPath(q) <=> p.at = 2
  BY <1>3, <1>4, <1>7, <1>8, <1>10 DEF HasPath
<1>13. Accepted(q) /\ OwnsInv(q)
  BY <1>1, <1>2, <1>3, <1>8, <1>10 DEF ProcInv, Accepted, OwnsInv, ServingPC
<1>14. ListenInv(q)
  <2>1. /\ q.lis # <<>> /\ Len(q.lis) = Len(p.lis)
        /\ q.lis[1].kind # "unix"
        /\ Len(q.lis) = 2 => q.lis[2].kind # "tcp"
    BY <1>3, <1>4, <1>7, <1>10 DEF TcpOpen
  <2>2. next = "listen" => /\ p.at = 1 /\ Len(p.lis) = 2
                           /\ q.lis[2].kind = "blank"
    BY <1>3, <1>4, <1>7, <1>10
  <2>. QED
    BY <1>3, <1>4, <1>10, <1>11, <2>1, <2>2 DEF ListenInv, ServingPC
<1>15. ProcInv(q)
  BY <1>9, <1>13, <1>14 DEF ProcInv
<1>16. Moves(i)
  BY <1>6, <1>15, Move
<1>17. proc'[i] = q
  BY <1>1, <1>6
<1>. QED
  BY <1>10, <1>11, <1>12, <1>16, <1>17

(***************************************************************************)
(* thread_pool_create.                                                     *)
(***************************************************************************)
LEMMA PoolMoves ==
  ASSUME TypeOK, LocalInv, NEW i \in Instances, PoolCreate(i)
  PROVE  QuietMoves(i)
<1>. DEFINE p == proc[i]
<1>1. ProcInv(p) /\ proc \in [Instances -> ProcType]
  BY Split
<1>2. p.pc = "pool"
  BY DEF PoolCreate, At
<1>3. ASSUME NEW pc \in {"policy", "destroy", "hung"},
             NEW pool \in {"unset", "set", "null"},
             proc' = [proc EXCEPT ![i].pc = pc, ![i].pool = pool]
      PROVE  QuietMoves(i)
  <2>. DEFINE q == [p EXCEPT !.pc = pc, !.pool = pool]
  <2>1. proc' = [proc EXCEPT ![i] = q]
    BY <1>3
  <2>2. q \in ProcType
    BY <1>1 DEF ProcInv, ProcType, PC, Resources
  <2>3. /\ q.pc = pc /\ q.owned = p.owned
        /\ q.cfg = p.cfg /\ q.lis = p.lis /\ q.at = p.at
    BY <1>1 DEF ProcInv, ProcType
  <2>4. ProcInv(q)
    BY <1>1, <1>2, <2>2, <2>3
      DEF ProcInv, Accepted, OwnsInv, ListenInv, TcpOpen, ServingPC
  <2>5. Quiet(p, q)
    BY <1>1, <1>2, <2>3 DEF Quiet, TcpOpen, HasPath, StartPC, ServingPC
  <2>. QED
    BY <2>1, <2>4, <2>5, Move
<1>4. CASE Goto(i, "hung")
  <2>. DEFINE q == [p EXCEPT !.pc = "hung"]
  <2>1. proc' = [proc EXCEPT ![i] = q]
    BY <1>4 DEF Goto
  <2>2. q \in ProcType
    BY <1>1 DEF ProcInv, ProcType, PC, Resources
  <2>3. /\ q.pc = "hung" /\ q.owned = p.owned
        /\ q.cfg = p.cfg /\ q.lis = p.lis /\ q.at = p.at
    BY <1>1 DEF ProcInv, ProcType
  <2>4. ProcInv(q)
    BY <1>1, <1>2, <2>2, <2>3
      DEF ProcInv, Accepted, OwnsInv, ListenInv, TcpOpen, ServingPC
  <2>5. Quiet(p, q)
    BY <1>1, <1>2, <2>3 DEF Quiet, TcpOpen, HasPath, StartPC, ServingPC
  <2>. QED
    BY <2>1, <2>4, <2>5, Move
<1>. QED
  BY <1>3, <1>4 DEF PoolCreate

(***************************************************************************)
(* policy_init.                                                            *)
(***************************************************************************)
LEMMA PolicyMoves ==
  ASSUME TypeOK, LocalInv, NEW i \in Instances, PolicyInit(i)
  PROVE  QuietMoves(i)
<1>. DEFINE p == proc[i]
<1>1. ProcInv(p) /\ proc \in [Instances -> ProcType]
  BY Split
<1>2. p.pc = "policy"
  BY DEF PolicyInit, At
<1>3. ASSUME NEW h \in BOOLEAN,
             proc' = [proc EXCEPT ![i].pc = "cleanup", ![i].handler = h]
      PROVE  QuietMoves(i)
  <2>. DEFINE q == [p EXCEPT !.pc = "cleanup", !.handler = h]
  <2>1. proc' = [proc EXCEPT ![i] = q]
    BY <1>3
  <2>2. /\ q \in ProcType /\ q.pc \in {"cleanup", p.pc} /\ q.cfg = p.cfg
        /\ q.owned = p.owned /\ q.lis = p.lis /\ q.at = p.at
    BY <1>1 DEF ProcInv, ProcType, PC
  <2>3. ProcInv(q) /\ Quiet(p, q)
    BY <1>1, <1>2, <2>2, ToCleanup
  <2>. QED
    BY <2>1, <2>3, Move
<1>4. CASE proc' = [proc EXCEPT ![i].pc = "run", ![i].handler = TRUE]
  <2>. DEFINE q == [p EXCEPT !.pc = "run", !.handler = TRUE]
  <2>1. proc' = [proc EXCEPT ![i] = q]
    BY <1>4
  <2>2. q \in ProcType
    BY <1>1 DEF ProcInv, ProcType, PC, Resources
  <2>3. /\ q.pc = "run" /\ q.owned = p.owned
        /\ q.cfg = p.cfg /\ q.lis = p.lis /\ q.at = p.at
    BY <1>1 DEF ProcInv, ProcType
  <2>4. ProcInv(q)
    BY <1>1, <1>2, <2>2, <2>3
      DEF ProcInv, Accepted, OwnsInv, ListenInv, TcpOpen, ServingPC
  <2>5. Quiet(p, q)
    BY <1>1, <1>2, <2>3 DEF Quiet, TcpOpen, HasPath, StartPC, ServingPC
  <2>. QED
    BY <2>1, <2>4, <2>5, Move
<1>. QED
  BY <1>3, <1>4 DEF PolicyInit

(***************************************************************************)
(* A task starts or ends under a running server, server_run returns, or a  *)
(* signal sets the stop flag.                                              *)
(***************************************************************************)
LEMMA FlagMoves ==
  ASSUME TypeOK, LocalInv, NEW i \in Instances,
         TaskRuns(i) \/ RunEnds(i) \/ (Signal(i) /\ ~Die(i))
  PROVE  QuietMoves(i)
<1>. DEFINE p == proc[i]
<1>1. ProcInv(p) /\ proc \in [Instances -> ProcType]
  BY Split
<1>2. p.pc # "off"
  BY DEF TaskRuns, RunEnds, Signal, At
<1>3. CASE proc' = proc
  BY <1>1, <1>3 DEF QuietMoves, Moves, Quiet
<1>4. CASE proc' = [proc EXCEPT ![i].task = ~@]
  <2>. DEFINE q == [p EXCEPT !.task = ~@]
  <2>1. proc' = [proc EXCEPT ![i] = q]
    BY <1>4
  <2>2. /\ q \in ProcType /\ q.pc = p.pc /\ q.cfg = p.cfg
        /\ q.owned = p.owned /\ q.lis = p.lis /\ q.at = p.at
    BY <1>1 DEF ProcInv, ProcType, PC
  <2>3. ProcInv(q) /\ Quiet(p, q)
    BY <1>1, <1>2, <2>2, ToCleanup
  <2>. QED
    BY <2>1, <2>3, Move
<1>5. CASE RunEnds(i)
  <2>. DEFINE q == [p EXCEPT !.pc = "cleanup"]
  <2>1. proc' = [proc EXCEPT ![i] = q]
    BY <1>5 DEF RunEnds, Goto
  <2>2. /\ q \in ProcType /\ q.pc \in {"cleanup", p.pc} /\ q.cfg = p.cfg
        /\ q.owned = p.owned /\ q.lis = p.lis /\ q.at = p.at
    BY <1>1 DEF ProcInv, ProcType, PC
  <2>3. ProcInv(q) /\ Quiet(p, q)
    BY <1>1, <1>2, <2>2, ToCleanup, <1>5 DEF RunEnds, At
  <2>. QED
    BY <2>1, <2>3, Move
<1>6. CASE proc' = [proc EXCEPT ![i].stop = TRUE]
  <2>. DEFINE q == [p EXCEPT !.stop = TRUE]
  <2>1. proc' = [proc EXCEPT ![i] = q]
    BY <1>6
  <2>2. /\ q \in ProcType /\ q.pc = p.pc /\ q.cfg = p.cfg
        /\ q.owned = p.owned /\ q.lis = p.lis /\ q.at = p.at
    BY <1>1 DEF ProcInv, ProcType, PC
  <2>3. ProcInv(q) /\ Quiet(p, q)
    BY <1>1, <1>2, <2>2, ToCleanup
  <2>. QED
    BY <2>1, <2>3, Move
<1>. QED
  BY <1>3, <1>4, <1>5, <1>6 DEF TaskRuns, RunEnds, Signal

(***************************************************************************)
(* main destroys the server if there is one.                               *)
(***************************************************************************)
LEMMA CleanupMoves ==
  ASSUME TypeOK, LocalInv, NEW i \in Instances, Cleanup(i)
  PROVE  QuietMoves(i)
<1>. DEFINE p == proc[i]
<1>1. ProcInv(p) /\ proc \in [Instances -> ProcType]
  BY Split
<1>2. p.pc = "cleanup"
  BY DEF Cleanup, At
<1>. DEFINE next == IF "server" \in proc[i].owned THEN "destroy" ELSE "release"
<1>3. Goto(i, next)
  BY DEF Cleanup
<1>. DEFINE q == [p EXCEPT !.pc = next]
<1>4. proc' = [proc EXCEPT ![i] = q]
  BY <1>3 DEF Goto
<1>5. q \in ProcType
  BY <1>1 DEF ProcInv, ProcType, PC, Resources
<1>6. /\ q.pc = next /\ q.owned = p.owned
        /\ q.cfg = p.cfg /\ q.lis = p.lis /\ q.at = p.at
  BY <1>1 DEF ProcInv, ProcType
<1>7. ProcInv(q)
  BY <1>1, <1>2, <1>5, <1>6
    DEF ProcInv, Accepted, OwnsInv, ListenInv, TcpOpen, ServingPC
<1>8. Quiet(p, q)
  BY <1>1, <1>2, <1>6 DEF Quiet, TcpOpen, HasPath, StartPC, ServingPC
<1>. QED
  BY <1>4, <1>7, <1>8, Move

(***************************************************************************)
(* thread_pool_destroy at the head of server_destroy.                      *)
(***************************************************************************)
LEMMA PoolDestroyMoves ==
  ASSUME TypeOK, LocalInv, NEW i \in Instances, PoolDestroy(i), ~Die(i)
  PROVE  QuietMoves(i)
<1>. DEFINE p == proc[i]
<1>1. ProcInv(p) /\ proc \in [Instances -> ProcType]
  BY Split
<1>2. p.pc = "destroy"
  BY DEF PoolDestroy, At
<1>3. proc' = [proc EXCEPT ![i].pc = "close", ![i].at = 1, ![i].pool = "null"]
  BY DEF PoolDestroy
<1>. DEFINE q == [p EXCEPT !.pc = "close", !.at = 1, !.pool = "null"]
<1>4. proc' = [proc EXCEPT ![i] = q]
  BY <1>3
<1>5. q \in ProcType
  BY <1>1 DEF ProcInv, ProcType, PC
<1>6. /\ q.pc = "close" /\ q.owned = p.owned /\ q.at = 1
      /\ q.cfg = p.cfg /\ q.lis = p.lis
  BY <1>1 DEF ProcInv, ProcType
<1>7. ProcInv(q)
  BY <1>1, <1>2, <1>5, <1>6
    DEF ProcInv, Accepted, OwnsInv, ListenInv, TcpOpen, ServingPC
<1>8. Quiet(p, q)
  BY <1>1, <1>2, <1>6 DEF Quiet, TcpOpen, HasPath, StartPC, ServingPC
<1>. QED
  BY <1>4, <1>7, <1>8, Move

(***************************************************************************)
(* parse_flags accepts the command line, or nothing happens.               *)
(***************************************************************************)
LEMMA StartMoves ==
  ASSUME TypeOK, LocalInv, NEW i \in Instances, NEW c \in Configs, Start(i, c)
  PROVE  Moves(i)
<1>. DEFINE p == proc[i]
<1>1. ProcInv(p) /\ proc \in [Instances -> ProcType]
  BY Split
<1>2. p.pc = "off"
  BY DEF Start, At
<1>3. CASE proc' = proc
  BY <1>1, <1>3 DEF Moves
<1>4. CASE ParseFlags(c) /\ proc' = [proc EXCEPT ![i].pc = "site", ![i].cfg = c]
  <2>. DEFINE q == [p EXCEPT !.pc = "site", !.cfg = c]
  <2>1. proc' = [proc EXCEPT ![i] = q]
    BY <1>4
  <2>2. q \in ProcType
    BY <1>1 DEF ProcInv, ProcType, PC
  <2>3. /\ q.pc = "site" /\ q.owned = {} /\ q.cfg = c
        /\ q.lis = <<>> /\ q.at = 1
    BY <1>1, <1>2 DEF ProcInv, ProcType, OwnsInv, Off
  <2>4. ProcInv(q)
    BY <1>4, <2>2, <2>3
      DEF ProcInv, Accepted, OwnsInv, ListenInv, ServingPC, ParseFlags
  <2>. QED
    BY <2>1, <2>4, Move
<1>. QED
  BY <1>3, <1>4 DEF Start

(***************************************************************************)
(* server_listeners_destroy closes a listener; after the last one the      *)
(* server is gone.                                                         *)
(***************************************************************************)
LEMMA CloseMoves ==
  ASSUME TypeOK, LocalInv, NEW i \in Instances, CloseListener(i)
  PROVE  /\ Moves(i)
         /\ HasPath(proc'[i]) <=> HasPath(proc[i])
         /\ proc'[i].pc \notin StartPC \cup ServingPC
         /\ TcpOpen(proc'[i]) => TcpOpen(proc[i]) /\ port' = port
         /\ TcpOpen(proc[i]) /\ ~TcpOpen(proc'[i]) => port' = ClosePort(i)
         /\ ~TcpOpen(proc[i]) => port' = port
<1>. DEFINE p == proc[i]
<1>1. ProcInv(p) /\ proc \in [Instances -> ProcType]
  BY Split
<1>2. p.pc = "close" /\ "server" \in p.owned
  BY <1>1 DEF CloseListener, At, ProcInv, OwnsInv
<1>3. p.lis \in Seq(Listener) /\ p.at \in Nat /\ p.at # 0 /\ Len(p.lis) \in Nat
  BY <1>1 DEF ProcInv, ProcType, ListenInv
<1>4. CASE More(i)
  <2>. DEFINE l == [p.lis[p.at] EXCEPT !.fd = "none"]
              m == [p.lis EXCEPT ![p.at] = l]
              q == [p EXCEPT !.pc = "unlink",
                             !.stdin = @ /\ p.lis[p.at].fd # "zero",
                             !.lis[p.at].fd = "none"]
  <2>1. proc' = [proc EXCEPT ![i] = q]
    BY <1>4 DEF CloseListener
  <2>2. p.at \in 1..Len(p.lis) /\ p.lis[p.at] \in Listener
    BY <1>3, <1>4 DEF More
  <2>3. l \in Listener /\ l.kind = p.lis[p.at].kind /\ l.fd = "none"
    BY <2>2 DEF Listener
  <2>4. port' = IF p.lis[p.at].fd = "open" /\ p.lis[p.at].kind = "tcp"
                THEN ClosePort(i) ELSE port
    BY <1>4 DEF CloseListener
  <2>. HIDE DEF l
  <2>5. /\ m \in Seq(Listener) /\ Len(m) = Len(p.lis)
        /\ m[p.at] = l
        /\ \A n \in 1..Len(p.lis) : n # p.at => m[n] = p.lis[n]
    BY <1>3, <2>2, <2>3, ExceptSeq
  <2>. HIDE DEF m
  <2>6. q \in ProcType
    BY <1>1, <2>5 DEF ProcInv, ProcType, PC, l, m
  <2>7. /\ q.pc = "unlink" /\ q.owned = p.owned /\ q.cfg = p.cfg
        /\ q.lis = m /\ q.at = p.at
    BY <1>1 DEF ProcInv, ProcType, l, m
  <2>. HIDE DEF q
  <2>8. p.lis # <<>> /\ Len(p.lis) \in {1, 2} /\ p.at \in {1, 2}
    <3>1. p.lis # <<>>
      BY <2>2
    <3>2. Len(p.lis) = 1 \/ Len(p.lis) = 2
      BY <1>1, <3>1 DEF ProcInv, ListenInv
    <3>. QED
      BY <2>2, <3>1, <3>2
  <2>9. OwnsInv(q) /\ Accepted(q)
    BY <1>1, <1>2, <2>7 DEF ProcInv, OwnsInv, Accepted, ServingPC
  <2>10. ListenInv(q)
    <3>1. /\ q.lis # <<>> /\ Len(q.lis) = Len(p.lis)
          /\ q.lis[1].kind = p.lis[1].kind
          /\ Len(q.lis) = 2 => q.lis[2].kind = p.lis[2].kind
          /\ q.lis[q.at].fd = "none"
          /\ q.at > 1 => q.lis[1].fd = p.lis[1].fd
      BY <2>2, <2>3, <2>5, <2>7, <2>8
    <3>2. q.at <= Len(q.lis)
      BY <2>2, <2>7, <3>1
    <3>. QED
      BY <1>1, <1>2, <2>7, <3>1, <3>2 DEF ProcInv, ListenInv, ServingPC
  <2>11. HasPath(q) <=> HasPath(p)
    BY <1>2, <2>2, <2>3, <2>5, <2>7, <2>8 DEF HasPath
  <2>12. TcpOpen(q) => TcpOpen(p) /\ p.at # 1
    BY <2>2, <2>3, <2>5, <2>7, <2>8 DEF TcpOpen
  <2>13. TcpOpen(p) => p.at = 1
    BY <1>1, <1>2, <2>8 DEF TcpOpen, ProcInv, ListenInv
  <2>14. p.at = 2 => p.lis[p.at].kind # "tcp"
    BY <1>1, <2>2, <2>8 DEF ProcInv, ListenInv
  <2>15. proc'[i] = q /\ Moves(i)
    BY <1>1, <2>1, <2>6, <2>9, <2>10, Move DEF ProcInv
  <2>. QED
    BY <2>4, <2>7, <2>8, <2>11, <2>12, <2>13, <2>14, <2>15
      DEF TcpOpen, StartPC, ServingPC
<1>5. CASE ~More(i)
  <2>. DEFINE q == [p EXCEPT !.pc = "release", !.lis = <<>>,
                             !.owned = @ \ {"server"}]
  <2>1. proc' = [proc EXCEPT ![i] = q] /\ port' = port
    BY <1>5 DEF CloseListener
  <2>2. q \in ProcType
    <3>1. "release" \in PC /\ <<>> \in Seq(Listener)
      BY DEF PC
    <3>2. p.owned \ {"server"} \in SUBSET Resources
      BY <1>1 DEF ProcInv, ProcType
    <3>. QED
      BY <1>1, <3>1, <3>2 DEF ProcInv, ProcType
  <2>3. /\ q.pc = "release" /\ q.owned = p.owned \ {"server"} /\ q.cfg = p.cfg
        /\ q.lis = <<>> /\ q.at = p.at
    BY <1>1 DEF ProcInv, ProcType
  <2>. HIDE DEF q
  <2>4. ProcInv(q)
    BY <1>1, <1>2, <2>2, <2>3
      DEF ProcInv, Accepted, OwnsInv, ListenInv, ServingPC
  <2>5. p.at > Len(p.lis)
    BY <1>3, <1>5 DEF More
  <2>6. ~TcpOpen(p) /\ ~HasPath(p)
    <3>1. p.lis # <<>> => p.at > 1
      BY <1>1, <1>3, <2>5 DEF ProcInv, ListenInv
    <3>. QED
      BY <1>1, <1>2, <1>3, <2>5, <3>1 DEF ProcInv, ListenInv, TcpOpen, HasPath
  <2>7. ~TcpOpen(q) /\ ~HasPath(q)
    BY <2>3 DEF TcpOpen, HasPath
  <2>8. proc'[i] = q /\ Moves(i)
    BY <1>1, <2>1, <2>4, Move
  <2>. QED
    BY <2>1, <2>3, <2>6, <2>7, <2>8 DEF StartPC, ServingPC
<1>. QED
  BY <1>4, <1>5

(***************************************************************************)
(* ... and unlinks its path, if it has one.                                *)
(***************************************************************************)
LEMMA UnlinkMoves ==
  ASSUME TypeOK, LocalInv, NEW i \in Instances, Unlink(i)
  PROVE  /\ Moves(i)
         /\ TcpOpen(proc'[i]) <=> TcpOpen(proc[i])
         /\ proc'[i].pc \notin StartPC \cup ServingPC
         /\ \/ path' = path /\ (HasPath(proc'[i]) <=> HasPath(proc[i]))
            \/ path' = Nobody /\ HasPath(proc[i]) /\ ~HasPath(proc'[i])
<1>. DEFINE p == proc[i]
            q == [p EXCEPT !.pc = "close", !.at = @ + 1]
<1>1. ProcInv(p) /\ proc \in [Instances -> ProcType]
  BY Split
<1>2. p.pc = "unlink"
  BY DEF Unlink, At
<1>3. /\ p.lis \in Seq(Listener) /\ p.at \in Nat /\ p.at # 0
      /\ p.at \in 1..Len(p.lis) /\ p.lis[p.at].fd # "open"
  BY <1>1, <1>2 DEF ProcInv, ProcType, ListenInv
<1>4. p.lis # <<>> /\ Len(p.lis) \in {1, 2} /\ p.at \in {1, 2}
  <2>1. p.lis # <<>>
    BY <1>3
  <2>2. Len(p.lis) = 1 \/ Len(p.lis) = 2
    BY <1>1, <2>1 DEF ProcInv, ListenInv
  <2>. QED
    BY <1>3, <2>1, <2>2
<1>5. proc' = [proc EXCEPT ![i] = q]
  BY DEF Unlink
<1>6. q \in ProcType
  <2>1. "close" \in PC /\ p.at + 1 \in Nat
    BY <1>3 DEF PC
  <2>. QED
    BY <1>1, <2>1 DEF ProcInv, ProcType
<1>7. /\ q.pc = "close" /\ q.owned = p.owned /\ q.cfg = p.cfg
      /\ q.lis = p.lis /\ q.at = p.at + 1
  BY <1>1 DEF ProcInv, ProcType
<1>8. path' = IF p.lis[p.at].kind = "unix" THEN Nobody ELSE path
  BY DEF Unlink
<1>. HIDE DEF q
<1>9. ProcInv(q)
  <2>1. Accepted(q) /\ OwnsInv(q)
    BY <1>1, <1>2, <1>7 DEF ProcInv, Accepted, OwnsInv, ServingPC
  <2>2. q.lis[1].fd # "open"
    BY <1>1, <1>2, <1>3, <1>4, <1>7 DEF ProcInv, ListenInv
  <2>3. ListenInv(q)
    BY <1>1, <1>2, <1>3, <1>4, <1>7, <2>2 DEF ProcInv, ListenInv, ServingPC
  <2>. QED
    BY <1>6, <2>1, <2>3 DEF ProcInv
<1>10. TcpOpen(q) <=> TcpOpen(p)
  BY <1>7 DEF TcpOpen
<1>11. p.lis[p.at].kind = "unix" => p.at = 2 /\ HasPath(p) /\ ~HasPath(q)
  BY <1>1, <1>3, <1>4, <1>7 DEF ProcInv, ListenInv, HasPath
<1>12. p.lis[p.at].kind # "unix" => (HasPath(q) <=> HasPath(p))
  BY <1>2, <1>3, <1>4, <1>7 DEF HasPath
<1>13. proc'[i] = q /\ Moves(i)
  BY <1>1, <1>5, <1>9, Move
<1>. QED
  BY <1>7, <1>8, <1>10, <1>11, <1>12, <1>13 DEF StartPC, ServingPC

(***************************************************************************)
(* pyoneer_destroy, logger_destroy and site_destroy, in an order in which  *)
(* nothing is destroyed before its users.                                  *)
(***************************************************************************)
LEMMA ReleaseMoves ==
  ASSUME TypeOK, LocalInv, NEW i \in Instances, Release(i), ~Die(i)
  PROVE  QuietMoves(i)
<1>. DEFINE p == proc[i]
<1>1. ProcInv(p) /\ proc \in [Instances -> ProcType]
  BY Split
<1>2. p.pc = "release" /\ "server" \notin p.owned /\ p.lis = <<>>
  BY <1>1 DEF Release, At, ProcInv, OwnsInv, ListenInv
<1>3. ASSUME NEW r \in Resources, Released(i, r),
             proc' = [proc EXCEPT ![i].owned = @ \ {r}]
      PROVE  QuietMoves(i)
  <2>. DEFINE q == [p EXCEPT !.owned = @ \ {r}]
  <2>1. proc' = [proc EXCEPT ![i] = q]
    BY <1>3
  <2>2. q \in ProcType
    BY <1>1 DEF ProcInv, ProcType
  <2>3. /\ q.pc = p.pc /\ q.owned = p.owned \ {r}
        /\ q.cfg = p.cfg /\ q.lis = p.lis /\ q.at = p.at
    BY <1>1 DEF ProcInv, ProcType
  <2>4. r # "pyoneer" => "pyoneer" \notin p.owned
    <3>1. PICK n \in DOMAIN ReleaseOrder :
            /\ r = ReleaseOrder[n]
            /\ \A m \in 1..(n - 1) : ReleaseOrder[m] \notin p.owned
      BY <1>3 DEF Released
    <3>2. n \in 1..3 /\ ReleaseOrder[1] = "pyoneer"
      BY DEF ReleaseOrder
    <3>. QED
      BY <3>1, <3>2
  <2>. HIDE DEF q
  <2>5. ProcInv(q)
    BY <1>1, <1>2, <2>2, <2>3, <2>4
      DEF ProcInv, Accepted, OwnsInv, ListenInv, ServingPC
  <2>6. Quiet(p, q)
    BY <1>2, <2>3 DEF Quiet, TcpOpen, HasPath
  <2>. QED
    BY <2>1, <2>5, <2>6, Move
<1>4. CASE proc' = [proc EXCEPT ![i] = Off]
  <2>1. Quiet(p, Off)
    <3>1. ~TcpOpen(p) /\ ~HasPath(p)
      BY <1>2 DEF TcpOpen, HasPath
    <3>2. Off.pc = "off"
      BY DEF Off
    <3>. QED
      BY <3>1, <3>2, OffFacts DEF Quiet, StartPC, ServingPC
  <2>. QED
    BY <1>4, <2>1, OffFacts, Move
<1>. QED
  BY <1>3, <1>4 DEF Release

-----------------------------------------------------------------------------
(* The port and the path.                                                   *)

(***************************************************************************)
(* A step that changes no listener, neither the port nor the path, and     *)
(* does not bring a process up.                                            *)
(***************************************************************************)
LEMMA GlobalQuiet ==
  ASSUME GlobalInv, NEW i \in Instances, QuietMoves(i), UNCHANGED <<port, path>>
  PROVE  GlobalInv'
<1>. USE DEF GlobalInv, QuietMoves, Moves, Quiet
<1>1. PortInv'
  BY DEF PortInv
<1>2. PathInv'
  BY DEF PathInv
<1>3. OneStarter'
  BY DEF OneStarter
<1>4. UnlinksItsOwn'
  BY DEF UnlinksItsOwn
<1>5. PathIsSafe'
  BY DEF PathIsSafe
<1>. QED
  BY <1>1, <1>2, <1>3, <1>4, <1>5

(***************************************************************************)
(* The kernel closes the sockets of a process that dies; its path becomes  *)
(* a stale file.                                                           *)
(***************************************************************************)
LEMMA GlobalDie ==
  ASSUME TypeOK, LocalInv, GlobalInv, NEW i \in Instances, Die(i)
  PROVE  GlobalInv'
<1>1. Moves(i) /\ proc'[i] = Off
  BY DieMoves
<1>2. ~TcpOpen(proc'[i]) /\ ~HasPath(proc'[i])
      /\ proc'[i].pc \notin StartPC \cup ServingPC
  BY <1>1, OffFacts DEF Off, StartPC, ServingPC
<1>3. /\ port' = IF port = i THEN ClosePort(i) ELSE port
      /\ path' = IF path = i THEN Stale ELSE path
      /\ ClosePort(i) \notin Instances /\ Stale \notin Instances
  BY StartupAssumption DEF Die, ClosePort
<1>4. \A j \in Instances \ {i} : proc'[j] = proc[j]
  BY <1>1 DEF Moves
<1>. USE DEF GlobalInv
<1>5. PortInv'
  BY <1>2, <1>3, <1>4 DEF PortInv
<1>6. PathInv'
  BY <1>2, <1>3, <1>4 DEF PathInv
<1>7. OneStarter'
  BY <1>2, <1>4 DEF OneStarter
<1>8. UnlinksItsOwn'
  BY <1>2, <1>3, <1>4 DEF UnlinksItsOwn
<1>9. PathIsSafe'
  BY <1>2, <1>3, <1>4 DEF PathIsSafe
<1>. QED
  BY <1>5, <1>6, <1>7, <1>8, <1>9

(***************************************************************************)
(* Who starts an instance waits for those on their way up or down; one     *)
(* that serves has bound the path it will unlink.                          *)
(***************************************************************************)
LEMMA GlobalStart ==
  ASSUME TypeOK, LocalInv, GlobalInv, NEW i \in Instances, NEW c \in Configs,
         Start(i, c)
  PROVE  GlobalInv'
<1>1. Moves(i) /\ UNCHANGED <<port, path>>
  BY StartMoves DEF Start
<1>2. CASE proc' = proc
  BY <1>1, <1>2 DEF GlobalInv, PortInv, PathInv, OneStarter, UnlinksItsOwn,
       PathIsSafe
<1>3. CASE proc' = [proc EXCEPT ![i].pc = "site", ![i].cfg = c]
  <2>1. proc[i] = Off /\ proc \in [Instances -> ProcType]
    BY Split DEF Start, At, ProcInv, OwnsInv
  <2>2. proc'[i].pc = "site" /\ proc'[i].lis = <<>>
    BY <1>3, <2>1 DEF ProcType, Off
  <2>3. /\ ~TcpOpen(proc'[i]) /\ ~HasPath(proc'[i])
        /\ ~TcpOpen(proc[i]) /\ ~HasPath(proc[i])
        /\ proc'[i].pc \notin ServingPC
    BY <2>1, <2>2, OffFacts DEF TcpOpen, HasPath, ServingPC
  <2>4. \A j \in Instances \ {i} :
          /\ proc'[j] = proc[j]
          /\ proc[j].pc \notin StartPC
          /\ HasPath(proc[j]) => path = j
    <3>1. ASSUME NEW j \in Instances \ {i}
          PROVE  proc[j].pc \notin StartPC /\ (HasPath(proc[j]) => path = j)
      <4>1. proc[j].pc \in {"off", "run", "hung"} /\ ProcInv(proc[j])
        BY Split DEF Start, MayStart
      <4>2. CASE proc[j].pc = "off"
        <5>1. proc[j] = Off
          BY <4>1, <4>2 DEF ProcInv, OwnsInv
        <5>. QED
          BY <4>2, <5>1, OffFacts DEF StartPC
      <4>3. CASE proc[j].pc \in {"run", "hung"}
        <5>1. HasPath(proc[j]) => proc[j].cfg.unix
          BY <4>1 DEF ProcInv, ListenInv, HasPath
        <5>. QED
          BY <4>3, <5>1 DEF GlobalInv, PathIsSafe, ServingPC, StartPC
      <4>. QED
        BY <4>1, <4>2, <4>3
    <3>. QED
      BY <1>1, <3>1 DEF Moves
  <2>. USE DEF GlobalInv
  <2>5. PortInv' /\ PathInv'
    BY <1>1, <2>3, <2>4 DEF PortInv, PathInv
  <2>6. OneStarter'
    BY <2>4 DEF OneStarter
  <2>7. UnlinksItsOwn'
    BY <1>1, <2>3, <2>4 DEF UnlinksItsOwn
  <2>8. PathIsSafe'
    BY <1>1, <2>3, <2>4 DEF PathIsSafe
  <2>. QED
    BY <2>5, <2>6, <2>7, <2>8
<1>. QED
  BY <1>2, <1>3 DEF Start

(***************************************************************************)
(* At the place where a listener is opened: the port is the first, and a   *)
(* process that gets to its path holds the port.                           *)
(***************************************************************************)
LEMMA AtListen ==
  ASSUME TypeOK, LocalInv, NEW i \in Instances, At(i, "listen")
  PROVE  LET p == proc[i]
         IN  /\ p.pc = "listen" /\ p.at \in {1, 2} /\ p.at <= Len(p.lis)
             /\ p.at = 1 <=> Endpoints(p.cfg)[p.at] = "tcp"
             /\ p.at = 2 <=> Endpoints(p.cfg)[p.at] = "unix"
             /\ p.at = 2 => p.cfg.unix
             /\ p.at = 1 => ~TcpOpen(p)
             /\ p.at = 2 => TcpOpen(p)
             /\ ~HasPath(p)
             /\ Len(p.lis) = IF p.cfg.unix THEN 2 ELSE 1
<1>. DEFINE p == proc[i]
<1>1. ProcInv(p) /\ p.pc = "listen"
  BY Split DEF At
<1>2. /\ p.at \in Nat /\ p.at # 0 /\ p.at <= Len(p.lis)
      /\ Len(p.lis) = IF p.cfg.unix THEN 2 ELSE 1
      /\ p.at = 1 => p.lis[1].kind = "blank"
      /\ p.at = 2 => TcpOpen(p)
      /\ Len(p.lis) = 2 => p.lis[2].kind = "blank"
  BY <1>1 DEF ProcInv, ProcType, ListenInv
<1>3. p.at \in {1, 2} /\ (p.at = 2 => p.cfg.unix)
  BY <1>2
<1>. QED
  BY <1>1, <1>2, <1>3, EndpointFacts DEF TcpOpen, HasPath

(***************************************************************************)
(* make_tcp_listener takes the port only if nobody listens on it, and a    *)
(* process that does not get it has no path to unlink.                     *)
(***************************************************************************)
LEMMA OpenTcpMoves ==
  ASSUME TypeOK, LocalInv, GlobalInv, NEW i \in Instances, OpenTcp(i)
  PROVE  Moves(i) /\ GlobalInv'
<1>. DEFINE p == proc[i]
<1>1. /\ At(i, "listen") /\ p.pc = "listen" /\ p.at = 1
      /\ ~TcpOpen(p) /\ ~HasPath(p)
      /\ Len(p.lis) = IF p.cfg.unix THEN 2 ELSE 1
  BY AtListen DEF OpenTcp
<1>2. path' = path
  BY DEF OpenTcp
<1>3. CASE port = Nobody /\ port' = i /\ Listening(i)
  <2>1. /\ Moves(i) /\ TcpOpen(proc'[i]) /\ ~HasPath(proc'[i])
        /\ proc'[i].cfg = p.cfg
        /\ proc'[i].pc = IF p.at = Len(p.lis) THEN "pool" ELSE "listen"
    <3>. DEFINE next == IF p.at = Len(p.lis) THEN "pool" ELSE "listen"
    <3>1. SetListener(i, "open", next)
      BY <1>3 DEF Listening
    <3>. QED
      BY <1>1, <3>1, ListenerMoves
  <2>2. \A j \in Instances \ {i} : proc'[j] = proc[j]
    BY <2>1 DEF Moves
  <2>3. proc'[i].pc \in ServingPC => ~proc'[i].cfg.unix
    BY <1>1, <2>1 DEF ServingPC
  <2>4. proc'[i].pc \in StartPC /\ p.pc \in StartPC /\ Nobody \notin Instances
    BY <1>1, <2>1, StartupAssumption DEF StartPC
  <2>. USE DEF GlobalInv
  <2>5. PortInv'
    BY <1>3, <2>1, <2>2, <2>4 DEF PortInv
  <2>6. PathInv'
    BY <1>1, <1>2, <2>2 DEF PathInv
  <2>7. OneStarter'
    BY <2>2, <2>4 DEF OneStarter
  <2>8. UnlinksItsOwn'
    BY <1>1, <1>2, <2>1, <2>2, <2>4 DEF UnlinksItsOwn
  <2>9. PathIsSafe'
    BY <1>1, <1>2, <2>1, <2>2, <2>3 DEF PathIsSafe
  <2>. QED
    BY <2>1, <2>5, <2>6, <2>7, <2>8, <2>9
<1>4. CASE SetListener(i, "none", "destroy") /\ port' = port
  <2>1. /\ Moves(i) /\ ~TcpOpen(proc'[i]) /\ ~HasPath(proc'[i])
        /\ proc'[i].cfg = p.cfg /\ proc'[i].pc = "destroy"
    BY <1>1, <1>4, ListenerMoves
  <2>2. QuietMoves(i)
    BY <1>1, <2>1 DEF QuietMoves, Quiet, StartPC, ServingPC
  <2>. QED
    BY <1>2, <1>4, <2>1, <2>2, GlobalQuiet
<1>. QED
  BY <1>3, <1>4 DEF OpenTcp

(***************************************************************************)
(* A path is bound only if nobody has it.  A process that was running when *)
(* the start began and still has a path to unlink would have it, so nobody *)
(* is going to unlink the new one.                                         *)
(***************************************************************************)
LEMMA OpenUnixMoves ==
  ASSUME TypeOK, LocalInv, GlobalInv, NEW i \in Instances, OpenUnix(i)
  PROVE  Moves(i) /\ GlobalInv'
<1>. DEFINE p == proc[i]
<1>1. /\ At(i, "listen") /\ p.pc = "listen" /\ p.at = 2
      /\ TcpOpen(p) /\ ~HasPath(p)
      /\ Len(p.lis) = 2 /\ p.cfg.unix
  BY AtListen DEF OpenUnix
<1>2. port' = port
  BY DEF OpenUnix
<1>3. /\ port = i /\ path # i
      /\ \A j \in Instances \ {i} :
           /\ ~TcpOpen(proc[j])
           /\ proc[j].pc \notin StartPC \cup ServingPC
  <2>1. port = i /\ path # i
    BY <1>1 DEF GlobalInv, PortInv, PathInv
  <2>2. ASSUME NEW j \in Instances \ {i}
        PROVE  ~TcpOpen(proc[j]) /\ proc[j].pc \notin StartPC \cup ServingPC
    <3>1. ~TcpOpen(proc[j])
      BY <2>1 DEF GlobalInv, PortInv
    <3>2. proc[j].pc \notin StartPC
      BY <1>1 DEF GlobalInv, OneStarter, StartPC
    <3>3. proc[j].pc \notin ServingPC
      BY <3>1, Split DEF ProcInv, ListenInv
    <3>. QED
      BY <3>1, <3>2, <3>3
  <2>. QED
    BY <2>1, <2>2
<1>4. ASSUME NEW fd \in {"none", "open"}, NEW next \in {"destroy", "pool"},
             next = "pool" => fd = "open", SetListener(i, fd, next)
      PROVE  /\ Moves(i) /\ TcpOpen(proc'[i]) /\ HasPath(proc'[i])
             /\ proc'[i].cfg = p.cfg /\ proc'[i].pc = next
             /\ \A j \in Instances \ {i} : proc'[j] = proc[j]
  <2>1. /\ Moves(i) /\ TcpOpen(proc'[i]) /\ HasPath(proc'[i])
        /\ proc'[i].cfg = p.cfg /\ proc'[i].pc = next
    <3>1. /\ next \in {"destroy", "pool", "listen"}
          /\ next # "destroy" => fd = "open"
          /\ next = "pool" => proc[i].at = Len(proc[i].lis)
          /\ next = "listen" => proc[i].at # Len(proc[i].lis)
      BY <1>1, <1>4
    <3>2. /\ Moves(i) /\ proc'[i].pc = next /\ proc'[i].cfg = p.cfg
          /\ TcpOpen(proc'[i]) <=> (p.at = 1 => fd = "open")
          /\ HasPath(proc'[i]) <=> p.at = 2
      BY <1>1, <1>4, <3>1, ListenerMoves
    <3>. QED
      BY <1>1, <3>2
  <2>. QED
    BY <2>1 DEF Moves
<1>. USE DEF GlobalInv
<1>5. CASE path = Nobody /\ path' = i /\ Listening(i)
  <2>1. SetListener(i, "open", "pool")
    BY <1>1, <1>5 DEF Listening
  <2>2. /\ Moves(i) /\ TcpOpen(proc'[i]) /\ HasPath(proc'[i])
        /\ proc'[i].cfg = p.cfg /\ proc'[i].pc = "pool"
        /\ \A j \in Instances \ {i} : proc'[j] = proc[j]
    BY <1>4, <2>1
  <2>3. \A j \in Instances \ {i} : ~HasPath(proc[j])
    BY <1>1, <1>5, StartupAssumption DEF UnlinksItsOwn, StartPC
  <2>4. PortInv' /\ PathInv'
    BY <1>2, <1>3, <1>5, <2>2 DEF PortInv, PathInv
  <2>5. OneStarter' /\ UnlinksItsOwn'
    BY <1>3, <2>2, <2>3 DEF OneStarter, UnlinksItsOwn
  <2>6. PathIsSafe'
    BY <1>3, <1>5, <2>2, <2>3 DEF PathIsSafe
  <2>. QED
    BY <2>2, <2>4, <2>5, <2>6
<1>6. CASE /\ SetListener(i, "none", "destroy")
           /\ path' = path \/ (path = Nobody /\ path' \in {Nobody, Stale})
  <2>1. /\ Moves(i) /\ TcpOpen(proc'[i]) /\ HasPath(proc'[i])
        /\ proc'[i].cfg = p.cfg /\ proc'[i].pc = "destroy"
        /\ \A j \in Instances \ {i} : proc'[j] = proc[j]
    BY <1>4, <1>6
  <2>2. proc'[i].pc \notin StartPC \cup ServingPC
    BY <2>1 DEF StartPC, ServingPC
  <2>3. PortInv' /\ PathInv'
    BY <1>2, <1>3, <1>6, <2>1, StartupAssumption DEF PortInv, PathInv
  <2>4. OneStarter' /\ UnlinksItsOwn' /\ PathIsSafe'
    BY <1>3, <2>1, <2>2 DEF OneStarter, UnlinksItsOwn, PathIsSafe
  <2>. QED
    BY <2>1, <2>3, <2>4
<1>. QED
  BY <1>5, <1>6 DEF OpenUnix

(***************************************************************************)
(* A closed listener gives the port back.                                  *)
(***************************************************************************)
LEMMA GlobalClose ==
  ASSUME TypeOK, LocalInv, GlobalInv, NEW i \in Instances, CloseListener(i)
  PROVE  GlobalInv'
<1>1. /\ Moves(i)
      /\ HasPath(proc'[i]) <=> HasPath(proc[i])
      /\ proc'[i].pc \notin StartPC \cup ServingPC
      /\ TcpOpen(proc'[i]) => TcpOpen(proc[i]) /\ port' = port
      /\ TcpOpen(proc[i]) /\ ~TcpOpen(proc'[i]) => port' = ClosePort(i)
      /\ ~TcpOpen(proc[i]) => port' = port
  BY CloseMoves
<1>2. path' = path /\ ClosePort(i) \notin Instances
  BY StartupAssumption DEF CloseListener, ClosePort
<1>3. \A j \in Instances \ {i} : proc'[j] = proc[j]
  BY <1>1 DEF Moves
<1>. USE DEF GlobalInv
<1>4. PortInv'
  BY <1>1, <1>2, <1>3 DEF PortInv
<1>5. PathInv' /\ OneStarter'
  BY <1>1, <1>2, <1>3 DEF PathInv, OneStarter
<1>6. UnlinksItsOwn' /\ PathIsSafe'
  BY <1>1, <1>2, <1>3 DEF UnlinksItsOwn, PathIsSafe
<1>. QED
  BY <1>4, <1>5, <1>6

(***************************************************************************)
(* An unlinked path is not that of a server, nor the one that another      *)
(* process on its way up has bound or that would tell it to keep off.      *)
(***************************************************************************)
LEMMA GlobalUnlink ==
  ASSUME TypeOK, LocalInv, GlobalInv, NEW i \in Instances, Unlink(i)
  PROVE  GlobalInv'
<1>1. /\ Moves(i)
      /\ TcpOpen(proc'[i]) <=> TcpOpen(proc[i])
      /\ proc'[i].pc \notin StartPC \cup ServingPC
      /\ \/ path' = path /\ (HasPath(proc'[i]) <=> HasPath(proc[i]))
         \/ path' = Nobody /\ HasPath(proc[i]) /\ ~HasPath(proc'[i])
  BY UnlinkMoves
<1>2. port' = port /\ Nobody \notin Instances
  BY StartupAssumption DEF Unlink
<1>3. \A j \in Instances \ {i} : proc'[j] = proc[j]
  BY <1>1 DEF Moves
<1>. USE DEF GlobalInv
<1>4. PortInv'
  BY <1>1, <1>2, <1>3 DEF PortInv
<1>5. PathInv' /\ OneStarter'
  BY <1>1, <1>2, <1>3 DEF PathInv, OneStarter
<1>6. UnlinksItsOwn'
  BY <1>1, <1>3 DEF UnlinksItsOwn
<1>7. PathIsSafe'
  BY <1>1, <1>3 DEF PathIsSafe
<1>. QED
  BY <1>4, <1>5, <1>6, <1>7

-----------------------------------------------------------------------------
(* The theorems.                                                            *)

(***************************************************************************)
(* Before the first start there is no process and nobody has the port or   *)
(* the path.                                                               *)
(***************************************************************************)
LEMMA InvariantInit == Init => IInv
<1>. SUFFICES ASSUME Init PROVE IInv
  OBVIOUS
<1>1. \A i \in Instances : proc[i] = Off
  BY DEF Init
<1>2. TypeOK
  BY <1>1, OffFacts, StartupAssumption
    DEF Init, TypeOK, ProcInv, ProcType, Accepted
<1>3. LocalInv
  BY <1>1, OffFacts DEF LocalInv, ProcInv
<1>4. GlobalInv
  <2>1. Off.pc \notin StartPC \cup ServingPC
    BY DEF Off, StartPC, ServingPC
  <2>. QED
    BY <1>1, <2>1, OffFacts, StartupAssumption
      DEF Init, GlobalInv, PortInv, PathInv, OneStarter, UnlinksItsOwn,
          PathIsSafe
<1>. QED
  BY <1>2, <1>3, <1>4 DEF IInv

(***************************************************************************)
(* Every step of main, of server_create and server_destroy, every signal,  *)
(* death and task keeps the invariant.                                     *)
(***************************************************************************)
LEMMA InvariantStep == IInv /\ [Next]_vars => IInv'
<1>. SUFFICES ASSUME TypeOK, LocalInv, GlobalInv, [Next]_vars PROVE IInv'
  BY DEF IInv
<1>1. CASE UNCHANGED vars
  BY <1>1 DEF vars, IInv, TypeOK, LocalInv, GlobalInv, PortInv, PathInv,
       OneStarter, UnlinksItsOwn, PathIsSafe
<1>2. CASE TaskEnds
  <2>1. TypeOK' /\ LocalInv'
    BY <1>2 DEF TaskEnds, TypeOK, LocalInv
  <2>2. port \notin Instances /\ port' \notin Instances
    BY <1>2, StartupAssumption DEF TaskEnds
  <2>3. GlobalInv'
    BY <1>2, <2>2 DEF TaskEnds, GlobalInv, PortInv, PathInv, OneStarter,
         UnlinksItsOwn, PathIsSafe
  <2>. QED
    BY <2>1, <2>3 DEF IInv
<1>3. ASSUME NEW i \in Instances, Moves(i), GlobalInv',
             port' \in {port, i, ClosePort(i)},
             path' \in {path, i, Nobody, Stale},
             Event \/ UNCHANGED events
      PROVE  IInv'
  <2>1. /\ port' \in Instances \cup {Nobody, Task}
        /\ path' \in Instances \cup {Nobody, Stale}
        /\ events' \in 0..MaxEvents
    BY <1>3, StartupAssumption DEF TypeOK, Event, ClosePort
  <2>. QED
    BY <1>3, <2>1, Join DEF IInv
<1>4. ASSUME NEW i \in Instances, Die(i), Event \/ UNCHANGED events
      PROVE  IInv'
  <2>1. Moves(i) /\ GlobalInv'
    BY <1>4, DieMoves, GlobalDie
  <2>. QED
    BY <1>3, <1>4, <2>1 DEF Die
<1>5. ASSUME NEW i \in Instances, QuietMoves(i), UNCHANGED <<port, path>>,
             Event \/ UNCHANGED events
      PROVE  IInv'
  <2>1. Moves(i) /\ GlobalInv'
    BY <1>5, GlobalQuiet DEF QuietMoves
  <2>. QED
    BY <1>3, <1>5, <2>1
<1>6. ASSUME NEW i \in Instances, NEW c \in Configs, Start(i, c) PROVE IInv'
  <2>1. Moves(i) /\ GlobalInv'
    BY <1>6, StartMoves, GlobalStart
  <2>. QED
    BY <1>3, <1>6, <2>1 DEF Start
<1>7. ASSUME NEW i \in Instances, SiteCreate(i) PROVE IInv'
  <2>1. CASE Die(i)
    BY <1>4, <1>7, <2>1 DEF SiteCreate, Create
  <2>2. CASE ~Die(i)
    <3>1. QuietMoves(i)
      BY <1>7, <2>2, SiteMoves
    <3>. QED
      BY <1>5, <1>7, <2>2, <3>1 DEF SiteCreate, Create
  <2>. QED
    BY <2>1, <2>2
<1>8. ASSUME NEW i \in Instances, LoggerCreate(i) PROVE IInv'
  BY <1>5, <1>8, LoggerMoves DEF LoggerCreate, Create
<1>9. ASSUME NEW i \in Instances, PyoneerCreate(i) PROVE IInv'
  BY <1>5, <1>9, PyoneerMoves DEF PyoneerCreate
<1>10. ASSUME NEW i \in Instances, Token(i) PROVE IInv'
  BY <1>5, <1>10, TokenMoves DEF Token
<1>11. ASSUME NEW i \in Instances, ServerAlloc(i) PROVE IInv'
  BY <1>5, <1>11, AllocMoves DEF ServerAlloc
<1>12. ASSUME NEW i \in Instances, OpenTcp(i) PROVE IInv'
  BY <1>3, <1>12, OpenTcpMoves DEF OpenTcp
<1>13. ASSUME NEW i \in Instances, OpenUnix(i) PROVE IInv'
  BY <1>3, <1>13, OpenUnixMoves DEF OpenUnix
<1>14. ASSUME NEW i \in Instances, PoolCreate(i) PROVE IInv'
  BY <1>5, <1>14, PoolMoves DEF PoolCreate
<1>15. ASSUME NEW i \in Instances, PolicyInit(i) PROVE IInv'
  BY <1>5, <1>15, PolicyMoves DEF PolicyInit
<1>16. ASSUME NEW i \in Instances, TaskRuns(i) \/ RunEnds(i) PROVE IInv'
  BY <1>5, <1>16, FlagMoves DEF TaskRuns, RunEnds
<1>17. ASSUME NEW i \in Instances, Signal(i) PROVE IInv'
  <2>1. CASE Die(i)
    BY <1>4, <1>17, <2>1 DEF Signal
  <2>2. CASE ~Die(i)
    BY <1>5, <1>17, <2>2, FlagMoves DEF Signal
  <2>. QED
    BY <2>1, <2>2
<1>18. ASSUME NEW i \in Instances, Cleanup(i) PROVE IInv'
  BY <1>5, <1>18, CleanupMoves DEF Cleanup
<1>19. ASSUME NEW i \in Instances, PoolDestroy(i) PROVE IInv'
  <2>1. CASE Die(i)
    BY <1>4, <1>19, <2>1 DEF PoolDestroy
  <2>2. CASE ~Die(i)
    BY <1>5, <1>19, <2>2, PoolDestroyMoves DEF PoolDestroy
  <2>. QED
    BY <2>1, <2>2
<1>20. ASSUME NEW i \in Instances, CloseListener(i) PROVE IInv'
  <2>1. Moves(i) /\ GlobalInv'
    BY <1>20, CloseMoves, GlobalClose
  <2>. QED
    BY <1>3, <1>20, <2>1 DEF CloseListener
<1>21. ASSUME NEW i \in Instances, Unlink(i) PROVE IInv'
  <2>1. Moves(i) /\ GlobalInv'
    BY <1>21, UnlinkMoves, GlobalUnlink
  <2>. QED
    BY <1>3, <1>21, <2>1 DEF Unlink
<1>22. ASSUME NEW i \in Instances, Release(i) PROVE IInv'
  <2>1. CASE Die(i)
    BY <1>4, <1>22, <2>1 DEF Release
  <2>2. CASE ~Die(i)
    BY <1>5, <1>22, <2>2, ReleaseMoves DEF Release
  <2>. QED
    BY <2>1, <2>2
<1>23. ASSUME NEW i \in Instances, BadRequest(i) \/ Kill(i) \/ KillHung(i)
       PROVE  IInv'
  BY <1>4, <1>23 DEF BadRequest, Kill, KillHung
<1>24. ASSUME NEW i \in Instances, Step(i) PROVE IInv'
  BY <1>7, <1>8, <1>9, <1>10, <1>11, <1>12, <1>13, <1>14, <1>15, <1>16,
     <1>18, <1>19, <1>20, <1>21, <1>22, <1>24 DEF Step
<1>. QED
  BY <1>1, <1>2, <1>6, <1>16, <1>17, <1>23, <1>24 DEF Next

(***************************************************************************)
(* The inductive invariant: what each process owns and has open at each    *)
(* place of main and server.c, who has the port and the path, and who is   *)
(* going to unlink whose.                                                  *)
(***************************************************************************)
THEOREM Invariant == Spec => []IInv
BY InvariantInit, InvariantStep, PTL DEF Spec

(***************************************************************************)
(* The variables keep their types, and no process gets past parse_flags    *)
(* with a command line that it turns down.                                 *)
(***************************************************************************)
THEOREM TypeCorrect == Spec => []TypeOK
<1>1. IInv => TypeOK
  BY DEF IInv
<1>. QED
  BY <1>1, Invariant, PTL

(***************************************************************************)
(* The port and the path of a server in server_run lead to it, however     *)
(* many other instances start, fail, unlink paths and die around it.       *)
(***************************************************************************)
THEOREM Reachable == Spec => []RunningIsReachable
<1>1. IInv => RunningIsReachable
  BY DEF IInv, RunningIsReachable, At, LocalInv, ListenInv, GlobalInv, PortInv,
         PathIsSafe, ServingPC
<1>. QED
  BY <1>1, Invariant, PTL

(***************************************************************************)
(* A process that has come through server_destroy, or has ended, holds     *)
(* neither the port nor the path.                                          *)
(***************************************************************************)
THEOREM LeavesNothing == Spec => []NothingLeftBehind
<1>1. IInv => NothingLeftBehind
  <2>. SUFFICES ASSUME IInv, NEW i \in Instances,
                       proc[i].pc \in {"off", "release"}
                PROVE  port # i /\ path # i
    BY DEF NothingLeftBehind
  <2>1. proc[i].lis = <<>>
    BY DEF IInv, LocalInv, OwnsInv, ListenInv, Off
  <2>2. ~TcpOpen(proc[i]) /\ ~HasPath(proc[i])
    BY <2>1 DEF TcpOpen, HasPath
  <2>. QED
    BY <2>2 DEF IInv, GlobalInv, PortInv, PathInv
<1>. QED
  BY <1>1, Invariant, PTL

(***************************************************************************)
(* Outlive: on every path through main's cleanup the Pyoneer and the       *)
(* Logger are destroyed after the Server, and the Site after a worker's    *)
(* Pyoneer.                                                                *)
(***************************************************************************)
THEOREM Lifetimes == Spec => []Outlive
<1>1. IInv => Outlive
  BY DEF IInv, LocalInv, OwnsInv, Outlive
<1>. QED
  BY <1>1, Invariant, PTL
==============================================================================
