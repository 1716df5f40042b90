------------------------------- MODULE Client -------------------------------
(***************************************************************************)
(* One connection after another, from accept to close: the handler         *)
(* client_handle_fd (src/src/api/client.c), the decoding of the job it     *)
(* brings (pyoneer.c, blueprint.c, job.c, task.c) and the answer.          *)
(*                                                                         *)
(* The network delivers what the client sent in pieces of any size: recv   *)
(* returns any beginning of what is left, cut anywhere.  Every allocation  *)
(* may fail: memory runs out at most MaxFails times.  The handlers of      *)
(* several connections meet only in the worker, whose interleavings are in *)
(* module Worker: here it is the job it has and whether that has ever run. *)
(*                                                                         *)
(* The JSON library is a parameter: the handler calls ParseText            *)
(* (json_parse_ex), MeasureText (json_measure_ex) and WriteText            *)
(* (json_serialize_ex), which module JsonText defines.                     *)
(***************************************************************************)
EXTENDS JobJson, FiniteSets

CONSTANTS ParseText(_), MeasureText(_, _), WriteText(_, _),
          Token,      \* the token of the server, whose copy was made
          Values,     \* JSON values, with all their members
          Docs,       \* objects clients send
          Texts,      \* texts clients send
          BufLen,     \* size of the buffer for requests and answers
          Seen,       \* statuses in which tasks of a job that ran are seen
          WriterOpts, \* options of the JSON writer that are compared
          MaxConns,   \* bound on the connections
          MaxFails    \* bound on failures

ASSUME ClientAssumption ==
  /\ BufLen \in Nat /\ MaxConns \in Nat /\ MaxFails \in Nat
  /\ Seen \subseteq TaskStatus
  /\ WriterOpts \subseteq Opts
  /\ <<>> \notin Texts

(***************************************************************************)
(* What a JSON value is: members are values, and a string has nothing but  *)
(* its characters.                                                         *)
(***************************************************************************)
ASSUME ValuesAssumption ==
  /\ Values \subseteq [t : {"object", "array", "string", "integer", "true",
                           "false", "null"},
                      s : STRING, n : Int,
                      k : Seq([name : STRING, val : Values])]
  /\ \A v \in Values : v.t = "string" => v = Str(v.s)
  /\ Docs \subseteq {v \in Values : v.t = "object"}

(* What is there of a token that is cut: a number stays one.                *)
Cut(b) ==
  CASE b.t = "integer"                             -> Tok("integer", "", 0)
    [] b.t \in {"string", "true", "false", "null"} -> Part
    [] OTHER                                       -> b

(* What one recv may return of a text: a beginning, cut anywhere.           *)
Pieces(text) ==
  UNION {{SubSeq(text, 1, n - 1) \o <<b>> : b \in {text[n], Cut(text[n])}} :
           n \in 1..Len(text)}

Packed == [mode |-> "packed", opts |-> {}, indent_size |-> 0]

PackedText == [d \in Docs |-> WriteText(d, Packed)]

(* White space, a comma before a closing bracket, and what follows a NUL do *)
(* not count.                                                               *)
Normal(text) ==
  FoldRight(LAMBDA b, rest :
              IF b.t = "nul" THEN <<>>
              ELSE IF \/ b.t = "ws"
                      \/ b.t = "," /\ rest # <<>> /\ Head(rest).t \in {"}", "]"}
                   THEN rest ELSE <<b>> \o rest,
            text, <<>>)

Begins(text, d) == IsPrefix(PackedText[d], Normal(text))

(***************************************************************************)
(* What the handler needs of the parser: an object it reads in a piece of  *)
(* a text is one that the text begins with.  (Of a number, a piece may be  *)
(* another number.)                                                        *)
(***************************************************************************)
ASSUME ParserAssumption ==
  \A text \in Texts : \A buf \in Pieces(text) :
    LET v == ParseText(buf)
    IN  v.t = "object" => v \in Docs /\ Begins(text, v)

VARIABLES c,         \* the handler
          peer,      \* the client
          worker,    \* the worker's job
          heap,      \* what is allocated
          fails,     \* failures so far
          conns,     \* connections so far
          crashed    \* the process has died

vars == <<c, peer, worker, heap, fails, conns, crashed>>

PC == {"idle", "recv", "resp", "parse", "check", "dispatch", "decode", "tasks",
       "call", "push", "answer", "send", "close"}

Signals == {"restart", "start", "stop"}

(***************************************************************************)
(* resp, req, job and status are the handler's pointers, left the tasks    *)
(* still to be decoded, out the text of the answer.  phase is not in the   *)
(* code: it records how far the exchange is.                               *)
(***************************************************************************)
NoConn == [pc |-> "idle", buf |-> <<>>, resp |-> NoValue, req |-> NoValue,
           job |-> NoJob, left |-> <<>>, status |-> NoValue, out |-> <<>>,
           phase |-> "closed"]

NoPeer == [state |-> "away", text |-> <<>>, sent |-> <<>>]

NoHeap == [json |-> 0, blueprint |-> 0, job |-> 0, task |-> 0, name |-> 0,
           node |-> 0, lost |-> 0]

Init ==
  /\ c = NoConn
  /\ peer = NoPeer
  /\ worker = [job |-> NoJob, ran |-> FALSE, taken |-> 0]
  /\ heap = NoHeap
  /\ fails = 0
  /\ conns = 0
  /\ crashed = FALSE

At(p) == c.pc = p /\ ~crashed

Event == fails < MaxFails /\ fails' = fails + 1

Die ==
  /\ crashed' = TRUE
  /\ c' = [c EXCEPT !.phase = "closed"]
  /\ peer' = NoPeer

-----------------------------------------------------------------------------
(* The client and the network.                                              *)

Connect ==
  /\ At("idle")
  /\ conns < MaxConns
  /\ conns' = conns + 1
  /\ c' = [NoConn EXCEPT !.pc = "recv", !.phase = "open"]
  /\ peer' = [NoPeer EXCEPT !.state = "silent"]
  /\ UNCHANGED <<worker, heap, fails, crashed>>

ClientSend(t) ==
  /\ peer.state = "silent" /\ ~crashed
  /\ peer' = [peer EXCEPT !.state = "waiting", !.text = t, !.sent = t]
  /\ UNCHANGED <<c, worker, heap, fails, conns, crashed>>

(* A client that goes away later is noticed when the answer is sent.        *)
ClientClose ==
  /\ peer.state = "silent" /\ ~crashed
  /\ peer' = [peer EXCEPT !.state = "gone"]
  /\ UNCHANGED <<c, worker, heap, fails, conns, crashed>>

Recv ==
  /\ At("recv")
  /\ \E n \in 1..Len(peer.text) :
       \E b \in {peer.text[n], Cut(peer.text[n])} :
       \E buf \in {SubSeq(peer.text, 1, n - 1) \o <<b>>} :
         /\ c' = [c EXCEPT !.pc = "resp", !.buf = buf]
         /\ TextSize(buf) <= BufLen
         /\ peer' = [peer EXCEPT !.text =
              (IF b # peer.text[n] THEN <<Part>> ELSE <<>>)
              \o SubSeq(peer.text, n + 1, Len(peer.text))]
  /\ UNCHANGED <<worker, heap, fails, conns, crashed>>

RecvEof ==
  /\ At("recv")
  /\ peer.text = <<>> /\ peer.state = "gone"
  /\ c' = [c EXCEPT !.pc = "close"]
  /\ UNCHANGED <<peer, worker, heap, fails, conns, crashed>>

RecvErr ==
  /\ At("recv")
  /\ Event
  /\ c' = [c EXCEPT !.pc = "close"]
  /\ UNCHANGED <<peer, worker, heap, conns, crashed>>

-----------------------------------------------------------------------------
(* The request.                                                             *)

(* {"Error":API: internal error}: the message is not quoted.                *)
Raw == <<Punct("{"), Tok("string", "Error", 0), Punct(":"), Part>>

(* Without an answer object the text above is sent, and that is the end.    *)
NewResp ==
  /\ At("resp")
  /\ \/ /\ c' = [c EXCEPT !.pc = "parse", !.resp = EmptyObject]
        /\ heap' = [heap EXCEPT !.json = @ + 1]
        /\ UNCHANGED fails
     \/ /\ c' = [c EXCEPT !.pc = "close", !.out = Raw, !.phase = "replied"]
        /\ Event
        /\ UNCHANGED heap
  /\ UNCHANGED <<peer, worker, conns, crashed>>

(* The answers with an Error, all of them, are objects like this.           *)
Messages == {"invalid JSON payload", "invalid JSON type", "missing JSON value",
             "invalid token", "command error", "blueprint error"}

ErrorAnswer(message) == json_object_push(EmptyObject, "Error", Str(message))

(***************************************************************************)
(* These answers, and the empty one, fit the buffer.                       *)
(***************************************************************************)
ASSUME AnswerAssumption ==
  \A a \in {EmptyObject} \cup {ErrorAnswer(m) : m \in Messages} :
    MeasureText(a, default_opts) \in 0..BufLen /\ WriteText(a, default_opts) # Raw

(* The Error goes into the answer, which is empty.                          *)
PutError(d, message) ==
  c' = [d EXCEPT !.pc = "answer",
                 !.resp = json_object_push(@, "Error", Str(message))]

(* Without memory for the Error the answer stays empty.                     *)
PushError(d, message) ==
  \/ PutError(d, message) /\ UNCHANGED fails
  \/ c' = [d EXCEPT !.pc = "answer"] /\ Event

(* Memory has run out, which is an Error; it may be missing for that too.   *)
OutOfMemory(d, message) ==
  /\ Event
  /\ PutError(d, message) \/ c' = [d EXCEPT !.pc = "answer"]

(* Fault: what is not complete yet is read on.                              *)
FaultParse ==
  /\ At("parse")
  /\ LET v == ParseText(c.buf)
     IN  IF v = NoValue
         THEN /\ c' = [c EXCEPT !.pc = "recv", !.resp = NoValue]
              /\ heap' = [heap EXCEPT !.json = @ - 1]
         ELSE /\ c' = [c EXCEPT !.pc = "check", !.req = v]
              /\ heap' = [heap EXCEPT !.json = @ + 1]
  /\ UNCHANGED <<peer, worker, fails, conns, crashed>>

(***************************************************************************)
(* How many pieces of a value are lost if the parser runs out of memory in *)
(* its second pass.  It allocates for every string and for every object or *)
(* array that is not empty, and puts a value into the one around it when   *)
(* the value is complete; what it frees in the end is what hangs on the    *)
(* outermost one.  So the value at hand is lost, and every object or array *)
(* around it but the outermost.                                            *)
(***************************************************************************)
Losses(text) ==
  LET t == Normal(text)
      Around(n) == Cardinality({i \in 1..(n - 1) : t[i].t \in {"{", "["}})
                     - Cardinality({i \in 1..(n - 1) : t[i].t \in {"}", "]"}})
      Allocates(n) ==
        \/ t[n].t = "string" /\ t[n + 1].t # ":"
        \/ t[n].t \in {"{", "["} /\ t[n + 1].t \notin {"}", "]"}
  IN  {lost \in 1..Len(t) :
         \E n \in 1..(Len(t) - 1) : Allocates(n) /\ lost = Around(n)}

(***************************************************************************)
(* The parser may run out of memory.  In its first pass it frees what it   *)
(* has; in its second one it loses some of it, or, if that is the          *)
(* outermost value, reads through a NULL.  (The sets of one value are      *)
(* there for TLC, which computes them once.)                               *)
(***************************************************************************)
Parse ==
  /\ At("parse")
  /\ \E v \in {ParseText(c.buf)}, d \in {[c EXCEPT !.buf = <<>>]} :
         \/ /\ v = NoValue
            /\ PushError(d, "invalid JSON payload")
            /\ UNCHANGED <<heap, crashed, peer>>
         \/ /\ v # NoValue
            /\ c' = [d EXCEPT !.pc = "check", !.req = v]
            /\ heap' = [heap EXCEPT !.json = @ + 1]
            /\ UNCHANGED <<fails, crashed, peer>>
         \/ /\ v # NoValue
            /\ OutOfMemory(d, "invalid JSON payload")
            /\ \E lost \in {0} \cup Losses(c.buf) :
                 heap' = [heap EXCEPT !.json = @ + lost, !.lost = @ + lost]
            /\ UNCHANGED <<crashed, peer>>
         \/ v # NoValue /\ Event /\ Die /\ UNCHANGED heap
  /\ UNCHANGED <<worker, conns>>

(* Why a request is turned down, if it is.                                  *)
Refusal(v) ==
  LET cmd == json_object_get_value(v, "command")
      tok == json_object_get_value(v, "token")
  IN  CASE v.t # "object"     -> "invalid JSON type"
        [] v.t = "object" /\ (cmd.t # "string" \/ tok.t # "string") ->
             "missing JSON value"
        [] OTHER -> IF tok.s # Token THEN "invalid token" ELSE ""

(* Fault: a wrong token is reported, and the request goes on.               *)
FaultCheck ==
  /\ At("check")
  /\ LET e == Refusal(c.req)
     IN  IF e \in {"", "invalid token"}
         THEN /\ c' = [c EXCEPT !.pc = "dispatch", !.resp =
                         IF e = "" THEN @
                         ELSE json_object_push(@, "Error", Str(e))]
              /\ UNCHANGED fails
         ELSE PushError(c, e)
  /\ UNCHANGED <<peer, worker, heap, conns, crashed>>

Check ==
  /\ At("check")
  /\ LET e == Refusal(c.req)
     IN  \/ e # "" /\ PushError(c, e)
         \/ e = "" /\ c' = [c EXCEPT !.pc = "dispatch"] /\ UNCHANGED fails
  /\ UNCHANGED <<peer, worker, heap, conns, crashed>>

Command == json_object_get_value(c.req, "command").s

Dispatch ==
  /\ At("dispatch")
  /\ \/ /\ Command \in {"run", "assign"}
        /\ c' = [c EXCEPT !.pc = "decode"]
        /\ UNCHANGED fails
     \/ /\ Command \in Signals \cup {"get_status"}
        /\ c' = [c EXCEPT !.pc = "call"]
        /\ UNCHANGED fails
     \/ /\ Command \notin Signals \cup {"get_status", "run", "assign"}
        /\ PushError(c, "command error")
  /\ UNCHANGED <<peer, worker, heap, conns, crashed>>

-----------------------------------------------------------------------------
(* The job of a run or assign request.                                      *)

(* How many tasks of a job have a name.                                     *)
Named(j) == Cardinality({i \in DOMAIN j.tasks : j.tasks[i] # NoName})

(* The parts of a job that are allocated.                                   *)
Plus(h, j) ==
  [h EXCEPT !.job = @ + 1, !.task = @ + Len(j.tasks),
            !.node = @ + Len(j.tasks), !.name = @ + Named(j)]

(* NULL is allowed.                                                         *)
job_destroy(h, j) ==
  IF j = NoJob THEN h
  ELSE [h EXCEPT !.job = @ - 1, !.task = @ - Len(j.tasks),
                  !.node = @ - Len(j.tasks), !.name = @ - Named(j)]

(* blueprint_decode allocates the Blueprint, job_decode the job; the        *)
(* Blueprint is freed again if there is no job.                             *)
Decode ==
  /\ At("decode")
  /\ LET v == json_object_get_value(c.req, "job")
         j == JobHeader(v)
     IN  \/ /\ j # NoJob
            /\ c' = [c EXCEPT !.pc = "tasks", !.job = j,
                       !.left = json_object_get_value(v, "tasks").k]
            /\ heap' = [heap EXCEPT !.blueprint = @ + 1, !.job = @ + 1]
            /\ UNCHANGED fails
         \/ /\ j = NoJob
            /\ PushError(c, "blueprint error")
            /\ UNCHANGED heap
         \/ /\ j # NoJob
            /\ OutOfMemory(c, "blueprint error")
            /\ UNCHANGED heap
  /\ UNCHANGED <<peer, worker, conns, crashed>>

(* Fault: the tasks decoded so far are forgotten.                           *)
FaultGiveUp(h, j) == [h EXCEPT !.job = @ - 1, !.blueprint = @ - 1]

(* A task cannot be decoded or added: job_decode destroys the job, and      *)
(* blueprint_decode frees the Blueprint.                                    *)
GiveUp(h, j) == [job_destroy(h, j) EXCEPT !.blueprint = @ - 1]

(* task_decode and job_add_task for the next task.  Memory may be missing   *)
(* for the task or its node, which ends the decoding, or for its name,      *)
(* which nobody notices.                                                    *)
DecodeTask ==
  /\ At("tasks")
  /\ c.left # <<>>
  /\ LET name == task_decode(Head(c.left).val)
         Add(n) ==
           /\ c' = [c EXCEPT !.left = Tail(@), !.job = job_add_task(@, n)]
           /\ heap' = [heap EXCEPT !.task = @ + 1, !.node = @ + 1,
                                   !.name = @ + (IF n = NoName THEN 0 ELSE 1)]
         Given == [c EXCEPT !.job = NoJob, !.left = <<>>]
     IN  \/ name # "" /\ Add(name) /\ UNCHANGED fails
         \/ name # "" /\ Add(NoName) /\ Event
         \/ /\ name = ""
            /\ PushError(Given, "blueprint error")
            /\ heap' = GiveUp(heap, c.job)
         \/ /\ name # ""
            /\ OutOfMemory(Given, "blueprint error")
            /\ heap' = GiveUp(heap, c.job)
  /\ UNCHANGED <<peer, worker, conns, crashed>>

Decoded ==
  /\ At("tasks")
  /\ c.left = <<>>
  /\ c' = [c EXCEPT !.pc = "call"]
  /\ UNCHANGED <<peer, worker, heap, fails, conns, crashed>>

-----------------------------------------------------------------------------
(* The call of the worker.                                                  *)

(* What the worker can be seen in: its job may be at work.                  *)
Looks(w) ==
  CASE w.job = NoJob              -> {"not_assigned"}
    [] w.job # NoJob /\ ~w.ran    -> {"assigned"}
    [] OTHER                      -> WorkerStatus \ {"not_assigned"}

(***************************************************************************)
(* The status of the worker after the call.  The worker's status, the      *)
(* job's and those of the tasks are looked at one after the other.         *)
(***************************************************************************)
Statuses(w) ==
  LET seen == IF w.ran THEN Seen ELSE {"ready"}
  IN  {pyoneer_worker_get_status(ws, w.job, js, ts) :
         ws \in Looks(w), js \in seen, ts \in [DOMAIN w.job.tasks -> seen]}

(***************************************************************************)
(* run and assign: the old job is destroyed and the new one is the         *)
(* worker's from now on.  The Blueprint around it stays allocated for      *)
(* ever.  A worker that works refuses, and so does an engine that gets no  *)
(* memory or thread or a job without tasks: the result is NULL.            *)
(***************************************************************************)
Take ==
  /\ Command \in {"run", "assign"}
  /\ \/ /\ Command = "run" => c.job.tasks # <<>>
        /\ \E ws \in Looks(worker) : ws # "working"
        /\ LET w == [worker EXCEPT !.job = c.job, !.ran = (Command = "run"),
                                   !.taken = @ + 1]
           IN  /\ worker' = w
               /\ \E s \in Statuses(w) :
                    c' = [c EXCEPT !.pc = "push", !.job = NoJob, !.status = s,
                                   !.phase = "applied"]
        /\ heap' = [job_destroy(heap, worker.job) EXCEPT !.json = @ + 1]
        /\ UNCHANGED fails
     \/ /\ \/ "working" \in Looks(worker) /\ UNCHANGED fails
           \/ Command = "run" /\ c.job.tasks = <<>> /\ UNCHANGED fails
           \/ Command = "run" /\ Event
        /\ c' = [c EXCEPT !.pc = "push"]
        /\ UNCHANGED <<worker, heap>>

GetStatus ==
  /\ Command = "get_status"
  /\ \E s \in Statuses(worker) : c' = [c EXCEPT !.pc = "push", !.status = s]
  /\ heap' = [heap EXCEPT !.json = @ + 1]
  /\ UNCHANGED <<worker, fails>>

(* start, stop and restart return nothing, so that a failure goes           *)
(* unnoticed.  What they do to the job's thread is in module Worker.        *)
Control ==
  /\ Command \in Signals
  /\ \E ran \in BOOLEAN :
       /\ ran => worker.ran \/ (Command # "stop" /\ worker.job.tasks # <<>>)
       /\ worker.ran => ran
       /\ worker' = [worker EXCEPT !.ran = ran]
  /\ c' = [c EXCEPT !.pc = "answer", !.phase = "applied"]
  /\ UNCHANGED <<heap, fails>>

Call ==
  /\ At("call")
  /\ Take \/ GetStatus \/ Control
  /\ UNCHANGED <<peer, conns, crashed>>

(***************************************************************************)
(* What an object is without a member that could not be pushed, and how    *)
(* many values are lost: a member that is pushed as it is, one; a helper   *)
(* that makes the member frees it.                                         *)
(***************************************************************************)
Lacking(o, plain, made) ==
  {<<[o EXCEPT !.k = SelectSeq(@, LAMBDA x : x.name # m)],
     IF m \in plain THEN 1 ELSE 0>> : m \in plain \cup made}

(***************************************************************************)
(* What can become of a status: a member is missing from it, from the      *)
(* job's, or from that of a task.                                          *)
(***************************************************************************)
Incomplete(s) ==
  LET job   == s.k[2].val
      tasks == job.k[2].val.k
      InTask(i) ==
        {<<[s EXCEPT !.k[2].val.k[2].val.k[i].val = x[1]], x[2]>> :
           x \in Lacking(tasks[i].val, {"status"}, {"name"})}
      InJob ==
        {<<[s EXCEPT !.k[2].val = x[1]], x[2]>> :
           x \in Lacking(job, {"status", "tasks"}, {"id"})}
  IN  Lacking(s, {"status", "job"}, {"role", "id"})
      \cup (IF job = Null THEN {}
            ELSE InJob \cup UNION {InTask(i) : i \in DOMAIN tasks})

(***************************************************************************)
(* The status goes into the answer.  If a piece of it could not be         *)
(* allocated, it is NULL, which json_object_push reads through; if a       *)
(* member could not be pushed, the rest of it is the answer.               *)
(***************************************************************************)
Push ==
  /\ At("push")
  /\ \/ /\ c.status # NoValue
        /\ c' = [c EXCEPT !.pc = "answer", !.status = NoValue,
                          !.resp = json_object_push(@, "pyoneer", c.status)]
        /\ heap' = [heap EXCEPT !.json = @ - 1]
        /\ UNCHANGED <<fails, crashed, peer>>
     \/ /\ c.status # NoValue
        /\ Event
        /\ \/ /\ c' = [c EXCEPT !.pc = "answer", !.status = NoValue]
              /\ heap' = [heap EXCEPT !.lost = @ + 1]
           \/ \E x \in Incomplete(c.status) :
                /\ c' = [c EXCEPT !.pc = "answer", !.status = NoValue,
                           !.resp = json_object_push(@, "pyoneer", x[1])]
                /\ heap' = [heap EXCEPT !.json = @ - 1 + x[2],
                                        !.lost = @ + x[2]]
        /\ UNCHANGED <<crashed, peer>>
     \/ c.status # NoValue /\ Event /\ Die /\ UNCHANGED heap
     \/ c.status = NoValue /\ Die /\ UNCHANGED <<heap, fails>>
  /\ UNCHANGED <<worker, conns>>

-----------------------------------------------------------------------------
(* The answer.                                                              *)

Answer ==
  /\ At("answer")
  /\ c' = [c EXCEPT !.pc = "send", !.out =
             IF MeasureText(c.resp, default_opts) > BufLen
             THEN Raw ELSE WriteText(c.resp, default_opts)]
  /\ UNCHANGED <<peer, worker, heap, fails, conns, crashed>>

(* The answer is sent, or the client is gone; both trees are freed.         *)
Send ==
  /\ At("send")
  /\ \E phase \in {"replied", c.phase} :
       c' = [c EXCEPT !.pc = "close", !.resp = NoValue, !.req = NoValue,
                      !.phase = phase]
  /\ heap' = [heap EXCEPT !.json = @ - (IF c.req = NoValue THEN 1 ELSE 2)]
  /\ UNCHANGED <<peer, worker, fails, conns, crashed>>

Close ==
  /\ At("close")
  /\ c' = NoConn
  /\ peer' = NoPeer
  /\ UNCHANGED <<worker, heap, fails, conns, crashed>>

-----------------------------------------------------------------------------

Handler ==
  \/ Recv \/ RecvEof \/ NewResp \/ Parse \/ Check \/ Dispatch
  \/ Decode \/ DecodeTask \/ Decoded \/ Call \/ Push \/ Answer \/ Send \/ Close

(* The end of the server, or of what is looked at of it.                    *)
Ended == (crashed \/ (c.pc = "idle" /\ conns = MaxConns)) /\ UNCHANGED vars

Next ==
  \/ Connect
  \/ \E t \in Texts : ClientSend(t)
  \/ ClientClose
  \/ Handler \/ RecvErr
  \/ Ended

Spec == Init /\ [][Next]_vars

(***************************************************************************)
(* A pool thread is scheduled, and a client that has connected goes away   *)
(* unless it sends something.  One that has sent may wait for the answer.  *)
(***************************************************************************)
Fairness == WF_vars(Handler) /\ WF_vars(ClientClose)

FairSpec == Spec /\ Fairness

-----------------------------------------------------------------------------
(* Properties.                                                              *)

(* No counter of the heap goes below zero: nothing is freed twice.          *)
TypeOK ==
  /\ c.pc \in PC
  /\ c.phase \in {"closed", "open", "applied", "replied"}
  /\ peer.state \in {"away", "silent", "waiting", "gone"}
  /\ heap \in [json : Nat, blueprint : Nat, job : Nat, task : Nat, name : Nat,
              node : Nat, lost : Nat]
  /\ worker.job.id \in 0..IntMax
  /\ worker.ran => worker.job.tasks # <<>>
  /\ fails \in 0..MaxFails /\ conns \in 0..MaxConns

(***************************************************************************)
(* Between two connections, however the last one went and wherever memory  *)
(* ran out, what is allocated is the worker's job and one Blueprint for    *)
(* every job that was taken, which client_handle_fd never frees.  JSON     *)
(* values are lost only when memory runs out.                              *)
(***************************************************************************)
MemoryBalance ==
  /\ heap.lost > 0 => fails > 0
  /\ At("idle") =>
       heap = [(IF worker.job = NoJob THEN NoHeap ELSE Plus(NoHeap, worker.job))
                 EXCEPT !.blueprint = worker.taken, !.json = heap.lost,
                        !.lost = heap.lost]

(***************************************************************************)
(* There are two kinds of Error, and a client can tell them apart.  An     *)
(* object with an Error, which is quoted, says that the request has not    *)
(* touched the worker and holds no job.  The text of client.c:312-318,     *)
(* which is not quoted, says nothing about that: it takes the place of an  *)
(* answer that does not fit, after a run or assign was applied too.  But a *)
(* request that was turned down is never answered with it: it has the      *)
(* token and a command.                                                    *)
(***************************************************************************)
ErrorTellsEffect ==
  ~crashed =>
    /\ json_object_get_value(c.resp, "Error") # NoValue =>
         c.phase = "open" /\ c.job = NoJob
    /\ c.pc = "send" /\ c.out = Raw => c.req # NoValue /\ Refusal(c.req) = ""

(***************************************************************************)
(* json_serialize writes no more than json_measure counted, with the NUL   *)
(* at the end, for names that need escapes too; so an answer that was      *)
(* found to fit the buffer does.                                           *)
(***************************************************************************)
AnswerFits ==
  At("send") =>
    /\ \A o \in WriterOpts :
         TextSize(WriteText(c.resp, o)) + 1 <= MeasureText(c.resp, o)
    /\ c.out # Raw => TextSize(c.out) + 1 <= BufLen

(***************************************************************************)
(* The parser reads back what the writer writes, with all options: the     *)
(* answer is the object that was built, unless it is the text for an       *)
(* answer that does not fit; and the worker's job survives job_encode and  *)
(* job_decode.                                                             *)
(***************************************************************************)
AnswerReadable ==
  At("send") =>
    /\ \A o \in WriterOpts :
         /\ ParseText(WriteText(c.resp, o)) = c.resp
         /\ worker.job # NoJob /\ (\A i \in DOMAIN worker.job.tasks :
                                     worker.job.tasks[i] # NoName) =>
              LET v == ParseText(WriteText(job_encode(worker.job), o))
              IN  /\ JobHeader(v) = [worker.job EXCEPT !.tasks = <<>>]
                  /\ Describes(v, worker.job)
    /\ c.out = Raw \/ ParseText(c.out) = c.resp

(***************************************************************************)
(* Every connection comes to an end, after which its pool thread takes the *)
(* next one: an incomplete request is answered, not waited for.            *)
(***************************************************************************)
ConnectionEnds == (c.pc # "idle") ~> (c.pc = "idle" \/ crashed)

(***************************************************************************)
(* What a text asks for, said without the parser: it begins with the text  *)
(* of a document that has the token and either a signal or a job.          *)
(***************************************************************************)
Asks(text, before, after) ==
  \E d \in Docs :
    /\ Begins(text, d)
    /\ IsMember(d, "token", Str(Token))
    /\ \/ /\ \E cmd \in Signals : IsMember(d, "command", Str(cmd))
          /\ after = before
       \/ /\ \E cmd \in {"run", "assign"} : IsMember(d, "command", Str(cmd))
          /\ \E i \in DOMAIN d.k :
               IsMember(d, "job", d.k[i].val) /\ Describes(d.k[i].val, after)

Abstract == INSTANCE Exchange WITH Nothing <- <<>>, phase <- c.phase,
                                   sent <- peer.sent, job <- worker.job

(***************************************************************************)
(* A connection is an exchange: however the network cuts the request, the  *)
(* worker gets at most one job or signal from it, exactly the one a        *)
(* complete document with the token asks for, before the only answer.      *)
(***************************************************************************)
ImplementsExchange == Abstract!Spec
=============================================================================
