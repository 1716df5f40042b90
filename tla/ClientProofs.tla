---------------------------- MODULE ClientProofs ----------------------------
(***************************************************************************)
(* Proofs about Client, for any texts, documents, sizes and numbers of     *)
(* connections and failures, and any parser that meets ParserAssumption.   *)
(***************************************************************************)
EXTENDS Client, FiniteSetTheorems, SequenceTheorems, WellFoundedInduction, TLAPS

-----------------------------------------------------------------------------
(* Lemmas about the operators of the model.                                 *)

(***************************************************************************)
(* A set of natural numbers that is not empty has a smallest element.      *)
(***************************************************************************)
LEMMA Smallest ==
  ASSUME NEW I, I \subseteq Nat, I # {}
  PROVE  Min(I) \in I /\ \A j \in I : Min(I) <= j
<1>. DEFINE R == {ss \in Nat \X Nat : ss[1] < ss[2]}
<1>1. IsWellFoundedOn(R, Nat)
  BY NatLessThanWellFounded, Zenon DEF OpToRel
<1>2. PICK x \in I : \A y \in I : ~(<<y, x>> \in R)
  <2>. HIDE DEF R
  <2>. QED
    BY <1>1, WFMin, Zenon
<1>3. ASSUME NEW y \in I PROVE x <= y
  <2>1. <<y, x>> \in Nat \X Nat
    OBVIOUS
  <2>2. ~(<<y, x>>[1] < <<y, x>>[2])
    BY <1>2, <2>1, Zenon
  <2>. QED
    BY <2>2
<1>. QED
  BY <1>3 DEF Min

(***************************************************************************)
(* json_object_get_value finds the first member of a name, or nothing; it  *)
(* is what IsMember says without the search.                               *)
(***************************************************************************)
LEMMA Lookup ==
  ASSUME NEW o \in Values, NEW name
  PROVE  LET m == json_object_get_value(o, name)
         IN  /\ m \in Values \cup {NoValue}
             /\ m # NoValue => /\ o.t = "object"
                               /\ IsMember(o, name, m)
                               /\ \E i \in DOMAIN o.k : o.k[i].val = m
             /\ o.t = "object" => \A x : IsMember(o, name, x) => m = x
<1>. DEFINE I == {i \in 1..Len(o.k) : o.k[i].name = name}
            m == json_object_get_value(o, name)
<1>1. o.k \in Seq([name : STRING, val : Values])
  BY ValuesAssumption
<1>2. DOMAIN o.k = 1..Len(o.k) /\ Len(o.k) \in Nat
  BY <1>1
<1>3. CASE I = {}
  <2>1. m = NoValue
    BY <1>3 DEF json_object_get_value, SelectInSeq
  <2>. QED
    BY <1>2, <1>3, <2>1 DEF IsMember
<1>4. CASE I # {}
  <2>1. Min(I) \in I /\ \A j \in I : Min(I) <= j
    <3>1. I \subseteq Nat
      BY <1>2
    <3>. HIDE DEF I
    <3>. QED
      BY <1>4, <3>1, Smallest
  <2>2. m = IF o.t = "object" /\ Min(I) # 0 THEN o.k[Min(I)].val ELSE NoValue
    BY <1>4 DEF json_object_get_value, SelectInSeq
  <2>. DEFINE i == Min(I)
  <2>. HIDE DEF i, m
  <2>3. i \in 1..Len(o.k) /\ o.k[i].name = name
    BY <2>1 DEF i
  <2>4. \A h \in 1..(i - 1) : o.k[h].name # name
    BY <1>2, <2>1, <2>3 DEF i
  <2>5. o.k[i].val \in Values
    <3>. DEFINE M == [name : STRING, val : Values]
    <3>1. o.k \in Seq(M)
      BY <1>1
    <3>2. o.k[i] \in M
      <4>. HIDE DEF M
      <4>. QED
        BY <2>3, <3>1, ElementOfSeq
    <3>. QED
      BY <3>2
  <2>6. o.t = "object" => m = o.k[i].val
    BY <2>2, <2>3, <1>2 DEF i
  <2>7. o.t # "object" => m = NoValue
    BY <2>2
  <2>8. ASSUME NEW h \in DOMAIN o.k, o.k[h].name = name,
               \A g \in 1..(h - 1) : o.k[g].name # name
        PROVE  h = i
    BY <1>2, <2>3, <2>4, <2>8
  <2>. QED
    BY <1>2, <2>3, <2>4, <2>5, <2>6, <2>7, <2>8 DEF IsMember, m
<1>. QED
  BY <1>3, <1>4

(***************************************************************************)
(* A value is not NULL, and a string is its characters.                    *)
(***************************************************************************)
LEMMA ValueFacts ==
  /\ NoValue \notin Values
  /\ NoValue.t = "none"
  /\ \A v \in Values : v.t = "string" => v = Str(v.s)
  /\ \A v \in Values : v.n \in Int /\ v.s \in STRING
                       /\ v.k \in Seq([name : STRING, val : Values])
BY ValuesAssumption DEF NoValue, Value

(***************************************************************************)
(* The int that a JSON integer becomes differs from it by a multiple of    *)
(* the range of an int.                                                    *)
(***************************************************************************)
LEMMA IntConversion ==
  ASSUME NEW n \in Int
  PROVE  AsInt(n) \in Int /\ AsInt(n) <= IntMax /\ (n - AsInt(n)) % IntRange = 0
<1>. DEFINE x == n + IntMax + 1
<1>1. IntRange \in Nat \ {0} /\ IntMax \in Nat /\ x \in Int
  BY WidthAssumption DEF IntRange
<1>2. x % IntRange \in 0..(IntRange - 1)
  BY <1>1
<1>3. n - AsInt(n) = x - (x % IntRange)
  BY <1>1, <1>2 DEF AsInt
<1>4. \A y \in Int : (y - (y % IntRange)) % IntRange = 0
  BY <1>1
<1>. QED
  BY <1>1, <1>2, <1>3, <1>4 DEF AsInt, IntRange

(***************************************************************************)
(* Whether a request is turned down: if it is not, it is an object with    *)
(* the token and a command.                                                *)
(***************************************************************************)
LEMMA Accepted ==
  ASSUME NEW v \in Values, Refusal(v) = ""
  PROVE  /\ v.t = "object"
         /\ IsMember(v, "token", Str(Token))
         /\ IsMember(v, "command", Str(json_object_get_value(v, "command").s))
<1>. DEFINE cmd == json_object_get_value(v, "command")
            tok == json_object_get_value(v, "token")
<1>1. v.t = "object" /\ cmd.t = "string" /\ tok.t = "string" /\ tok.s = Token
  <2>. HIDE DEF cmd, tok
  <2>. QED
    BY DEF Refusal, cmd, tok
<1>2. cmd # NoValue /\ tok # NoValue
  <2>. HIDE DEF cmd, tok
  <2>. QED
    BY <1>1, ValueFacts
<1>3. /\ cmd \in Values /\ tok \in Values
      /\ IsMember(v, "command", cmd) /\ IsMember(v, "token", tok)
  BY <1>2, Lookup
<1>4. cmd = Str(cmd.s) /\ tok = Str(Token)
  BY <1>1, <1>3, ValueFacts
<1>. QED
  BY <1>1, <1>3, <1>4

(***************************************************************************)
(* The modes of a job are the ones its document names, or the defaults.    *)
(***************************************************************************)
LEMMA Modes ==
  ASSUME NEW v \in Values, v.t = "object", NEW name, NEW known, NEW default \in known
  PROVE  LET chosen == Mode(json_object_get_value(v, name), known, default)
         IN  chosen \in known /\ ModeOf(v, name, known, chosen, default)
<1>. DEFINE m == json_object_get_value(v, name)
<1>1. m \in Values \cup {NoValue}
      /\ (m # NoValue => IsMember(v, name, m))
      /\ \A x : IsMember(v, name, x) => m = x
  BY Lookup
<1>. HIDE DEF m
<1>2. CASE m.t = "string" /\ m.s \in known
  <2>1. m # NoValue
    BY <1>2, ValueFacts
  <2>2. m = Str(m.s)
    BY <1>1, <1>2, <2>1, ValueFacts
  <2>3. IsMember(v, name, Str(m.s))
    BY <1>1, <2>1, <2>2
  <2>. QED
    BY <1>2, <2>3 DEF Mode, ModeOf, m
<1>3. CASE ~(m.t = "string" /\ m.s \in known)
  <2>1. ASSUME NEW x \in known, IsMember(v, name, Str(x)) PROVE FALSE
    <3>1. m = Str(x)
      BY <1>1, <2>1
    <3>. QED
      BY <1>3, <3>1 DEF Str, Value
  <2>. QED
    BY <1>3, <2>1 DEF Mode, ModeOf, m
<1>. QED
  BY <1>2, <1>3

JobType ==
  [id : 0..IntMax, exec : {"parallel", "sequential"}, run : {"repeat", "once"},
   tasks : Seq(STRING \cup {NoName})]

(* What is known of a job before its tasks are decoded.                     *)
Heads(v, j) ==
  /\ v \in Values /\ v.t = "object"
  /\ \E i \in DOMAIN v.k :
       LET id == v.k[i].val
       IN  /\ IsMember(v, "id", id)
           /\ id.t = "integer"
           /\ (id.n - j.id) % IntRange = 0
  /\ j.id \in 1..IntMax
  /\ ModeOf(v, "execMode", {"parallel", "sequential"}, j.exec, "sequential")
  /\ ModeOf(v, "runMode", {"repeat", "once"}, j.run, "once")

(* The list of tasks in the document.                                       *)
TaskList(v) == json_object_get_value(v, "tasks")

(***************************************************************************)
(* No job at all: it has no id and no tasks.                               *)
(***************************************************************************)
LEMMA NoJobFacts == NoJob \in JobType /\ NoJob.tasks = <<>> /\ NoJob.id = 0
<1>1. 0 \in 0..IntMax
  BY WidthAssumption
<1>2. <<>> \in Seq(STRING \cup {NoName})
  OBVIOUS
<1>. QED
  BY <1>1, <1>2 DEF NoJob, job_create, JobType

(***************************************************************************)
(* job_decode up to its loop: the job is the one the document describes,   *)
(* without tasks.                                                          *)
(***************************************************************************)
LEMMA Header ==
  ASSUME NEW v \in Values \cup {NoValue}, JobHeader(v) # NoJob
  PROVE  /\ Heads(v, JobHeader(v))
         /\ JobHeader(v) \in JobType
         /\ JobHeader(v).tasks = <<>>
         /\ TaskList(v) \in Values
         /\ TaskList(v).t = "array"
         /\ IsMember(v, "tasks", TaskList(v))
         /\ \E i \in DOMAIN v.k : v.k[i].val = TaskList(v)
<1>. DEFINE id == json_object_get_value(v, "id")
            ts == json_object_get_value(v, "tasks")
            e  == Mode(json_object_get_value(v, "execMode"),
                       {"parallel", "sequential"}, "sequential")
            r  == Mode(json_object_get_value(v, "runMode"), {"repeat", "once"},
                       "once")
<1>1. /\ v.t = "object" /\ id.t = "integer" /\ ts.t = "array" /\ AsInt(id.n) > 0
      /\ JobHeader(v) = JobOpts(v, job_create(AsInt(id.n)))
  <2>. HIDE DEF id, ts
  <2>. QED
    BY DEF JobHeader, id, ts
<1>2. JobHeader(v) = [id |-> AsInt(id.n), exec |-> e, run |-> r, tasks |-> <<>>]
  <2>. HIDE DEF id
  <2>. QED
    BY <1>1 DEF JobOpts, job_create
<1>3. v \in Values
  BY <1>1, ValueFacts
<1>4. id # NoValue /\ ts # NoValue
  <2>. HIDE DEF id, ts
  <2>. QED
    BY <1>1, ValueFacts
<1>5. /\ id \in Values /\ IsMember(v, "id", id)
      /\ \E i \in DOMAIN v.k : v.k[i].val = id
      /\ ts \in Values /\ IsMember(v, "tasks", ts)
      /\ \E i \in DOMAIN v.k : v.k[i].val = ts
  BY <1>3, <1>4, Lookup
<1>6. /\ e \in {"parallel", "sequential"}
      /\ ModeOf(v, "execMode", {"parallel", "sequential"}, e, "sequential")
  BY <1>1, <1>3, Modes
<1>7. /\ r \in {"repeat", "once"}
      /\ ModeOf(v, "runMode", {"repeat", "once"}, r, "once")
  BY <1>1, <1>3, Modes
<1>8. /\ AsInt(id.n) \in 1..IntMax /\ (id.n - AsInt(id.n)) % IntRange = 0
  <2>. HIDE DEF id
  <2>1. id.n \in Int
    BY <1>5, ValueFacts
  <2>. QED
    BY <1>1, <2>1, IntConversion, WidthAssumption
<1>. HIDE DEF id, ts, e, r
<1>9. JobHeader(v) \in JobType
  BY <1>2, <1>6, <1>7, <1>8, WidthAssumption DEF JobType
<1>10. Heads(v, JobHeader(v))
  BY <1>1, <1>2, <1>3, <1>5, <1>6, <1>7, <1>8 DEF Heads
<1>. QED
  BY <1>1, <1>2, <1>5, <1>9, <1>10 DEF TaskList, ts

(***************************************************************************)
(* task_decode: the name it returns is the one of the task's document.     *)
(***************************************************************************)
LEMMA TaskName ==
  ASSUME NEW v \in Values, task_decode(v) # ""
  PROVE  /\ task_decode(v) \in STRING
         /\ Names(v, task_decode(v)) /\ Names(v, NoName)
<1>. DEFINE m == json_object_get_value(v, "name")
<1>1. m.t = "string" /\ m.s # "" /\ task_decode(v) = m.s
  <2>. HIDE DEF m
  <2>. QED
    BY DEF task_decode, m
<1>2. m # NoValue
  <2>. HIDE DEF m
  <2>. QED
    BY <1>1, ValueFacts
<1>3. m \in Values /\ IsMember(v, "name", m) /\ \E i \in DOMAIN v.k : v.k[i].val = m
  BY <1>2, Lookup
<1>. HIDE DEF m
<1>. QED
  BY <1>1, <1>3, ValueFacts DEF Names

(***************************************************************************)
(* The names of a job that gets one more task.                             *)
(***************************************************************************)
LEMMA NamedFacts ==
  ASSUME NEW j \in JobType
  PROVE  /\ Named(j) \in Nat
         /\ j.tasks = <<>> => Named(j) = 0
         /\ \A n \in STRING \cup {NoName} :
              /\ job_add_task(j, n) \in JobType
              /\ job_add_task(j, n).tasks = Append(j.tasks, n)
              /\ Named(job_add_task(j, n)) =
                   Named(j) + (IF n = NoName THEN 0 ELSE 1)
<1>. DEFINE Of(s) == {i \in DOMAIN s : s[i] # NoName}
            s == j.tasks
<1>1. s \in Seq(STRING \cup {NoName}) /\ DOMAIN s = 1..Len(s) /\ Len(s) \in Nat
  BY DEF JobType
<1>2. IsFiniteSet(Of(s))
  <2>1. Of(s) \subseteq 1..Len(s)
    BY <1>1
  <2>. QED
    <3>. HIDE DEF Of, s
    <3>1. IsFiniteSet(1..Len(s))
      <4>1. 1 \in Int /\ Len(s) \in Int
        BY <1>1
      <4>. QED
        BY <4>1, FS_Interval, Zenon
    <3>. QED
      BY <2>1, <3>1, FS_Subset
<1>3. Cardinality(Of(s)) \in Nat
  BY <1>2, FS_CardinalityType
<1>4. s = <<>> => Cardinality(Of(s)) = 0
  <2>1. s = <<>> => Of(s) = {}
    OBVIOUS
  <2>. QED
    BY <2>1, FS_EmptySet
<1>5. ASSUME NEW n \in STRING \cup {NoName}
      PROVE  Cardinality(Of(Append(s, n))) =
               Cardinality(Of(s)) + (IF n = NoName THEN 0 ELSE 1)
  <2>. DEFINE q == Append(s, n)
              x == Len(s) + 1
  <2>1. /\ DOMAIN q = DOMAIN s \cup {x} /\ x \notin DOMAIN s /\ q[x] = n
        /\ \A i \in DOMAIN s : q[i] = s[i]
    BY <1>1
  <2>. HIDE DEF q, x
  <2>2. CASE n = NoName
    <3>1. Of(q) = Of(s)
      BY <2>1, <2>2
    <3>. QED
      <4>. HIDE DEF Of
      <4>. QED
        BY <1>3, <2>2, <3>1 DEF q
  <2>3. CASE n # NoName
    <3>1. Of(q) = Of(s) \cup {x} /\ x \notin Of(s)
      BY <2>1, <2>3
    <3>. HIDE DEF Of
    <3>2. Cardinality(Of(s) \cup {x}) = Cardinality(Of(s)) + 1
      BY <1>2, <3>1, FS_AddElement
    <3>. QED
      BY <2>3, <3>1, <3>2 DEF q
  <2>. QED
    BY <2>2, <2>3
<1>6. ASSUME NEW n \in STRING \cup {NoName}
      PROVE  /\ job_add_task(j, n) \in JobType
             /\ job_add_task(j, n).tasks = Append(s, n)
  BY <1>1 DEF job_add_task, JobType
<1>7. \A n \in STRING \cup {NoName} : Named(job_add_task(j, n)) = Cardinality(Of(Append(s, n)))
  BY <1>6 DEF Named
<1>. QED
  BY <1>3, <1>4, <1>5, <1>6, <1>7 DEF Named

-----------------------------------------------------------------------------
(* The inductive invariant.                                                 *)

(* The fields that the records have.                                  *)
Shape ==
  /\ c = [pc |-> c.pc, buf |-> c.buf, resp |-> c.resp, req |-> c.req,
          job |-> c.job, left |-> c.left, status |-> c.status, out |-> c.out,
          phase |-> c.phase]
  /\ peer = [state |-> peer.state, text |-> peer.text, sent |-> peer.sent]
  /\ worker = [job |-> worker.job, ran |-> worker.ran, taken |-> worker.taken]
  /\ heap = [json |-> heap.json, blueprint |-> heap.blueprint, job |-> heap.job,
             task |-> heap.task, name |-> heap.name, node |-> heap.node,
             lost |-> heap.lost]

Types ==
  /\ c.pc \in PC
  /\ c.phase \in {"closed", "open", "applied", "replied"}
  /\ peer.state \in {"away", "silent", "waiting", "gone"}
  /\ c.job \in JobType
  /\ worker.job \in JobType
  /\ worker.ran \in BOOLEAN
  /\ worker.ran => worker.job.tasks # <<>>
  /\ worker.taken \in Nat
  /\ crashed \in BOOLEAN
  /\ fails \in 0..MaxFails /\ conns \in 0..MaxConns

Before == {"recv", "resp", "parse"}
Checked == {"dispatch", "decode", "tasks", "call"}
Busy == {"check"} \cup Checked

HasError(v) == json_object_get_value(v, "Error") # NoValue

(* What the handler holds at each place, and how far the exchange is.       *)
Holds ==
  /\ c.pc = "idle" => c = NoConn /\ peer = NoPeer
  /\ c.pc # "idle" => c.phase # "closed"
  /\ c.pc \in Before \cup Busy => c.phase = "open"
  /\ c.pc \in {"push", "answer", "send"} => c.phase \in {"open", "applied"}
  /\ c.pc \in {"recv", "resp", "close"} => c.resp = NoValue
  /\ c.pc \in Busy \cup {"parse", "push"} => c.resp = EmptyObject
  /\ c.pc \in {"answer", "send"} =>
       c.resp # NoValue /\ (HasError(c.resp) => c.phase = "open")
  /\ c.pc \in Before \cup {"close"} => c.req = NoValue
  /\ c.pc \in Busy => c.req # NoValue
  /\ c.pc # "push" => c.status = NoValue
  /\ c.pc \notin {"tasks", "call", "push"} => c.job = NoJob
  /\ c.pc = "tasks" => c.job # NoJob
  /\ c.pc = "push" => (c.job = NoJob <=> c.status # NoValue)

(* The client, and what the handler has of its text.                        *)
Told ==
  /\ peer.state # "waiting" => peer.text = <<>> /\ peer.sent = <<>>
  /\ peer.state = "waiting" => peer.sent \in Texts
  /\ c.pc = "recv" => peer.text = peer.sent
  /\ c.pc \in Busy \cup {"resp", "parse"} => peer.state = "waiting"
  /\ c.pc \in {"resp", "parse"} => c.buf \in Pieces(peer.sent)
  /\ c.pc \in Busy /\ c.req.t = "object" =>
       c.req \in Docs /\ Begins(peer.sent, c.req)
  /\ c.pc \in Checked => c.req.t = "object" /\ Refusal(c.req) = ""
  /\ c.pc \in {"decode", "tasks"} => Command \in {"run", "assign"}
  /\ c.pc = "call" => (c.job # NoJob <=> Command \in {"run", "assign"})

JobDocument == json_object_get_value(c.req, "job")

(* The tasks decoded so far, and those that are left.                       *)
Halfway(v, j, left) ==
  /\ Heads(v, j)
  /\ TaskList(v) \in Values /\ TaskList(v).t = "array"
  /\ IsMember(v, "tasks", TaskList(v))
  /\ \E i \in DOMAIN v.k : v.k[i].val = TaskList(v)
  /\ left \in Seq([name : STRING, val : Values])
  /\ Len(TaskList(v).k) = Len(j.tasks) + Len(left)
  /\ \A i \in 1..Len(left) : left[i] = TaskList(v).k[Len(j.tasks) + i]
  /\ \A i \in 1..Len(j.tasks) : Names(TaskList(v).k[i].val, j.tasks[i])

Decoding ==
  /\ c.pc = "tasks" => Halfway(JobDocument, c.job, c.left)
  /\ c.pc = "call" /\ c.job # NoJob =>
       JobDocument # NoValue /\ Describes(JobDocument, c.job)

(* One for something that is there.                                         *)
Count(v) == IF v = NoValue THEN 0 ELSE 1
CountJob(j) == IF j = NoJob THEN 0 ELSE 1

(* The JSON trees of the handler.                                           *)
Trees == Count(c.resp) + Count(c.req) + Count(c.status)

(* Every allocation is one the handler or the worker holds, a Blueprint of  *)
(* a job that was taken, or lost.                                           *)
Balance ==
  /\ heap.lost \in Nat /\ (heap.lost > 0 => fails > 0)
  /\ heap.json = heap.lost + Trees
  /\ heap.blueprint = worker.taken + CountJob(c.job)
  /\ heap.job = CountJob(worker.job) + CountJob(c.job)
  /\ heap.task = Len(worker.job.tasks) + Len(c.job.tasks)
  /\ heap.node = heap.task
  /\ heap.name = Named(worker.job) + Named(c.job)

Inv ==
  /\ Shape
  /\ Types
  /\ ~crashed => Holds /\ Told /\ Decoding
  /\ Balance

-----------------------------------------------------------------------------
(* Every step preserves the invariant.                                      *)

(***************************************************************************)
(* The objects an answer is built from.  Only an Error puts an Error there.*)
(***************************************************************************)
LEMMA Answers ==
  /\ EmptyObject # NoValue /\ ~HasError(EmptyObject) /\ ~HasError(NoValue)
  /\ \A name, v : json_object_push(EmptyObject, name, v) # NoValue
  /\ \A v : ~HasError(json_object_push(EmptyObject, "pyoneer", v))
<1>1. EmptyObject # NoValue /\ EmptyObject.t = "object" /\ EmptyObject.k = <<>>
  BY DEF EmptyObject, NoValue, Value
<1>2. ~HasError(NoValue)
  BY DEF HasError, json_object_get_value, NoValue, Value
<1>3. ~HasError(EmptyObject)
  <2>1. {i \in 1..Len(<<>>) : <<>>[i].name = "Error"} = {}
    OBVIOUS
  <2>. QED
    BY <1>1, <2>1 DEF HasError, json_object_get_value, SelectInSeq
<1>4. ASSUME NEW name, NEW v
      PROVE  /\ json_object_push(EmptyObject, name, v).t = "object"
             /\ json_object_push(EmptyObject, name, v).k =
                  <<[name |-> name, val |-> v]>>
  BY DEF json_object_push, EmptyObject, Value
<1>5. ASSUME NEW name, NEW v PROVE json_object_push(EmptyObject, name, v) # NoValue
  BY <1>4, ValueFacts
<1>6. ASSUME NEW v PROVE ~HasError(json_object_push(EmptyObject, "pyoneer", v))
  <2>. DEFINE k == <<[name |-> "pyoneer", val |-> v]>>
  <2>1. {i \in 1..Len(k) : k[i].name = "Error"} = {}
    OBVIOUS
  <2>2. json_object_push(EmptyObject, "pyoneer", v).k = k
    BY <1>4
  <2>. HIDE DEF k
  <2>. QED
    BY <2>1, <2>2 DEF HasError, json_object_get_value, SelectInSeq
<1>. QED
  BY <1>1, <1>2, <1>3, <1>5, <1>6

(***************************************************************************)
(* The books after a step that allocates or frees nothing but JSON.        *)
(***************************************************************************)
LEMMA Books ==
  ASSUME Balance, c'.job = c.job, worker' = worker,
         heap'.lost \in Nat, (heap'.lost > 0 => fails' > 0), heap'.json = heap'.lost + Trees',
         heap'.blueprint = heap.blueprint, heap'.job = heap.job,
         heap'.task = heap.task, heap'.name = heap.name, heap'.node = heap.node
  PROVE  Balance'
BY DEF Balance

(***************************************************************************)
(* What is counted of a job are numbers, none of no job.                   *)
(***************************************************************************)
LEMMA Numbers ==
  /\ \A j \in JobType : Named(j) \in Nat /\ Len(j.tasks) \in Nat /\ CountJob(j) \in Nat
  /\ Named(NoJob) = 0 /\ Len(NoJob.tasks) = 0 /\ CountJob(NoJob) = 0
<1>1. ASSUME NEW j \in JobType
      PROVE  Named(j) \in Nat /\ Len(j.tasks) \in Nat /\ CountJob(j) \in Nat
  <2>1. j.tasks \in Seq(STRING \cup {NoName})
    BY DEF JobType
  <2>. QED
    BY <2>1, NamedFacts DEF CountJob
<1>2. Named(NoJob) = 0 /\ Len(NoJob.tasks) = 0 /\ CountJob(NoJob) = 0
  BY NoJobFacts, NamedFacts DEF CountJob
<1>. QED
  BY <1>1, <1>2

(***************************************************************************)
(* Failures are counted, and nothing is lost without one.                  *)
(***************************************************************************)
LEMMA Failing ==
  ASSUME Inv, fails' = fails \/ (fails < MaxFails /\ fails' = fails + 1)
  PROVE  fails' \in 0..MaxFails /\ (heap.lost > 0 => fails' > 0)
BY ClientAssumption DEF Inv, Types, Balance

(***************************************************************************)
(* The program starts with nothing allocated and no connection.            *)
(***************************************************************************)
LEMMA InitHolds == Init => Inv
<1>. SUFFICES ASSUME Init PROVE Inv
  OBVIOUS
<1>1. Shape
  BY DEF Init, Shape, NoConn, NoPeer, NoHeap
<1>2. Types
  <2>1. /\ worker.ran = FALSE /\ crashed = FALSE
        /\ worker.job = NoJob /\ worker.taken = 0
    BY DEF Init
  <2>2. fails \in 0..MaxFails /\ conns \in 0..MaxConns
    BY ClientAssumption DEF Init
  <2>3. c.pc = "idle" /\ c.phase = "closed" /\ c.job = NoJob /\ peer.state = "away"
    BY DEF Init, NoConn, NoPeer
  <2>4. /\ worker.ran \in BOOLEAN /\ crashed \in BOOLEAN
        /\ worker.ran => worker.job.tasks # <<>>
    BY <2>1, Zenon
  <2>5. c.pc \in PC /\ c.phase \in {"closed", "open", "applied", "replied"}
        /\ peer.state \in {"away", "silent", "waiting", "gone"}
    BY <2>3 DEF PC
  <2>6. worker.job \in JobType /\ c.job \in JobType /\ worker.taken \in Nat
    BY <2>1, <2>3, NoJobFacts
  <2>. QED
    BY <2>2, <2>4, <2>5, <2>6, Zenon DEF Types
<1>3. Holds /\ Told /\ Decoding
  BY DEF Init, Holds, Told, Decoding, NoConn, NoPeer, Before, Busy, Checked
<1>4. Balance
  BY NoJobFacts, NamedFacts, ClientAssumption
     DEF Init, Balance, Trees, NoConn, NoHeap, Count, CountJob
<1>. QED
  BY <1>1, <1>2, <1>3, <1>4 DEF Inv

(***************************************************************************)
(* A client connects.                                                      *)
(***************************************************************************)
LEMMA ConnectStep == Inv /\ Connect => Inv'
<1>. SUFFICES ASSUME Inv, Connect PROVE Inv'
  OBVIOUS
<1>. USE DEF Inv
<1>1. /\ c' = [NoConn EXCEPT !.pc = "recv", !.phase = "open"]
      /\ c = NoConn
      /\ peer' = [state |-> "silent", text |-> <<>>, sent |-> <<>>]
      /\ UNCHANGED <<worker, heap, fails, crashed>> /\ ~crashed
      /\ conns < MaxConns /\ conns' = conns + 1
  BY DEF Connect, At, Holds, NoPeer
<1>2. Shape'
  BY <1>1 DEF Shape, NoConn
<1>3. Types'
  BY <1>1, NoJobFacts, ClientAssumption DEF Types, PC, NoConn
<1>4. Holds' /\ Told' /\ Decoding'
  BY <1>1 DEF Holds, Told, Decoding, NoConn, Before, Busy, Checked
<1>5. Balance'
  BY <1>1 DEF Balance, Trees, NoConn, Count, CountJob
<1>. QED
  BY <1>1, <1>2, <1>3, <1>4, <1>5

(***************************************************************************)
(* The client sends something or goes away, while the handler waits or     *)
(* has given up.                                                           *)
(***************************************************************************)
LEMMA PeerStep == Inv /\ (ClientClose \/ \E t \in Texts : ClientSend(t)) => Inv'
<1>. SUFFICES ASSUME Inv, ClientClose \/ \E t \in Texts : ClientSend(t) PROVE Inv'
  OBVIOUS
<1>. USE DEF Inv
<1>1. /\ peer.state = "silent" /\ ~crashed
      /\ UNCHANGED <<c, worker, heap, fails, conns, crashed>>
      /\ \/ peer' = [peer EXCEPT !.state = "gone"]
         \/ \E t \in Texts : peer' = [peer EXCEPT !.state = "waiting", !.text = t,
                                                  !.sent = t]
  BY DEF ClientClose, ClientSend
<1>2. Shape'
  BY <1>1 DEF Shape
<1>3. Types'
  BY <1>1 DEF Types, Shape
<1>4. c.pc # "idle" /\ c.pc \notin Busy \cup {"resp", "parse"}
  <2>1. c.pc # "idle"
    <3>1. NoPeer.state # "silent"
      BY DEF NoPeer
    <3>. QED
      BY <1>1, <3>1 DEF Holds
  <2>2. c.pc \in Busy \cup {"resp", "parse"} => peer.state = "waiting"
    BY <1>1 DEF Told
  <2>. QED
    BY <1>1, <2>1, <2>2
<1>5. Holds'
  BY <1>1, <1>4 DEF Holds
<1>6. Told'
  BY <1>1, <1>4 DEF Told, Shape, Busy, Checked
<1>7. Decoding'
  BY <1>1, <1>4 DEF Decoding, Busy, Checked
<1>8. Balance'
  BY <1>1 DEF Balance, Trees
<1>. QED
  BY <1>1, <1>2, <1>3, <1>5, <1>6, <1>7, <1>8

(***************************************************************************)
(* One recv: the buffer is a piece of what the client sent.                *)
(***************************************************************************)
LEMMA RecvStep == Inv /\ Recv => Inv'
<1>. SUFFICES ASSUME Inv, Recv PROVE Inv'
  OBVIOUS
<1>. USE DEF Inv
<1>1. c.pc = "recv" /\ ~crashed /\ UNCHANGED <<worker, heap, fails, conns, crashed>>
  BY DEF Recv, At
<1>2. PICK n \in 1..Len(peer.text) :
        \E b \in {peer.text[n], Cut(peer.text[n])} :
          /\ c' = [c EXCEPT !.pc = "resp", !.buf = SubSeq(peer.text, 1, n - 1) \o <<b>>]
          /\ peer' = [peer EXCEPT !.text =
               (IF b # peer.text[n] THEN <<Part>> ELSE <<>>)
               \o SubSeq(peer.text, n + 1, Len(peer.text))]
  BY Zenon DEF Recv
<1>3. PICK b \in {peer.text[n], Cut(peer.text[n])} :
          /\ c' = [c EXCEPT !.pc = "resp", !.buf = SubSeq(peer.text, 1, n - 1) \o <<b>>]
          /\ peer' = [peer EXCEPT !.text =
               (IF b # peer.text[n] THEN <<Part>> ELSE <<>>)
               \o SubSeq(peer.text, n + 1, Len(peer.text))]
  BY <1>2, Zenon
<1>. DEFINE buf  == SubSeq(peer.text, 1, n - 1) \o <<b>>
            rest == (IF b # peer.text[n] THEN <<Part>> ELSE <<>>)
                    \o SubSeq(peer.text, n + 1, Len(peer.text))
<1>4. c' = [c EXCEPT !.pc = "resp", !.buf = buf] /\ peer' = [peer EXCEPT !.text = rest]
  BY <1>3
<1>5. peer.text = peer.sent
  BY <1>1 DEF Told
<1>6. buf \in Pieces(peer.sent)
  <2>1. buf \in {SubSeq(peer.text, 1, n - 1) \o <<x>> :
                 x \in {peer.text[n], Cut(peer.text[n])}}
    OBVIOUS
  <2>2. buf \in Pieces(peer.text)
    <3>. HIDE DEF buf
    <3>. QED
      BY <2>1, Zenon DEF Pieces
  <2>. QED
    BY <1>5, <2>2
<1>7. peer.state = "waiting"
  <2>1. peer.text # <<>>
    OBVIOUS
  <2>. QED
    BY <1>1, <2>1 DEF Told
<1>. HIDE DEF buf, rest
<1>8. Shape'
  BY <1>1, <1>4 DEF Shape
<1>9. Types'
  BY <1>1, <1>4 DEF Types, Shape, PC
<1>10. Holds' /\ Decoding'
  BY <1>1, <1>4 DEF Holds, Decoding, Shape, Before, Busy, Checked
<1>11. Told'
  BY <1>1, <1>4, <1>6, <1>7 DEF Told, Shape, Busy, Checked
<1>12. Balance'
  BY <1>1, <1>4 DEF Balance, Trees, Shape
<1>. QED
  BY <1>1, <1>8, <1>9, <1>10, <1>11, <1>12

(***************************************************************************)
(* The client is gone, or recv fails: the connection is closed.            *)
(***************************************************************************)
LEMMA RecvEnds == Inv /\ (RecvEof \/ RecvErr) => Inv'
<1>. SUFFICES ASSUME Inv, RecvEof \/ RecvErr PROVE Inv'
  OBVIOUS
<1>. USE DEF Inv
<1>1. /\ c.pc = "recv" /\ ~crashed
      /\ c' = [c EXCEPT !.pc = "close"]
      /\ UNCHANGED <<peer, worker, heap, conns, crashed>>
      /\ fails' = fails \/ (fails < MaxFails /\ fails' = fails + 1)
  BY DEF RecvEof, RecvErr, At, Event
<1>2. fails' \in 0..MaxFails /\ fails <= fails'
  BY <1>1, ClientAssumption DEF Types
<1>3. Shape'
  BY <1>1 DEF Shape
<1>4. Types'
  BY <1>1, <1>2 DEF Types, Shape, PC
<1>5. Holds' /\ Decoding' /\ Told'
  BY <1>1 DEF Holds, Decoding, Told, Shape, Before, Busy, Checked
<1>6. Balance'
  <2>1. (heap.lost > 0 => fails' > 0)
    BY <1>2 DEF Balance, Types
  <2>. QED
    BY <1>1, <2>1 DEF Balance, Trees, Shape
<1>. QED
  BY <1>1, <1>3, <1>4, <1>5, <1>6

(***************************************************************************)
(* The answer object is created, or there is no memory for it.             *)
(***************************************************************************)
LEMMA NewRespStep == Inv /\ NewResp => Inv'
<1>. SUFFICES ASSUME Inv, NewResp PROVE Inv'
  OBVIOUS
<1>. USE DEF Inv
<1>1. c.pc = "resp" /\ ~crashed /\ UNCHANGED <<peer, worker, conns, crashed>>
  BY DEF NewResp, At
<1>2. CASE /\ c' = [c EXCEPT !.pc = "parse", !.resp = EmptyObject]
           /\ heap' = [heap EXCEPT !.json = @ + 1]
           /\ fails' = fails
  <2>1. Shape'
    BY <1>1, <1>2 DEF Shape
  <2>2. Types'
    BY <1>1, <1>2 DEF Types, Shape, PC
  <2>3. Holds' /\ Decoding'
    BY <1>1, <1>2 DEF Holds, Decoding, Shape, Before, Busy, Checked
  <2>4. Told'
    BY <1>1, <1>2 DEF Told, Shape, Before, Busy, Checked
  <2>5. Balance'
    <3>1. Trees = 0 /\ Trees' = 1 /\ c'.job = c.job
      BY <1>1, <1>2, Answers DEF Shape, Holds, Before, Count, Trees
    <3>2. /\ heap'.json = heap.json + 1 /\ heap'.lost = heap.lost
          /\ heap'.blueprint = heap.blueprint /\ heap'.job = heap.job
          /\ heap'.task = heap.task /\ heap'.name = heap.name
          /\ heap'.node = heap.node
      BY <1>2 DEF Shape
    <3>3. heap.lost \in Nat /\ (heap.lost > 0 => fails > 0) /\ heap.json = heap.lost + Trees
      BY DEF Balance
    <3>. QED
      BY <1>1, <1>2, <3>1, <3>2, <3>3, Books
  <2>. QED
    BY <1>1, <2>1, <2>2, <2>3, <2>4, <2>5
<1>3. CASE /\ c' = [c EXCEPT !.pc = "close", !.out = Raw, !.phase = "replied"]
           /\ fails < MaxFails /\ fails' = fails + 1
           /\ heap' = heap
  <2>1. Shape'
    BY <1>1, <1>3 DEF Shape
  <2>2. Types'
    BY <1>1, <1>3, ClientAssumption DEF Types, Shape, PC
  <2>3. Holds' /\ Decoding' /\ Told'
    BY <1>1, <1>3 DEF Holds, Decoding, Told, Shape, Before, Busy, Checked
  <2>4. Balance'
    <3>1. (heap.lost > 0 => fails' > 0)
      BY <1>3, ClientAssumption DEF Balance, Types
    <3>. QED
      BY <1>1, <1>3, <3>1 DEF Balance, Trees, Shape
  <2>. QED
    BY <1>1, <2>1, <2>2, <2>3, <2>4
<1>. QED
  BY <1>2, <1>3 DEF NewResp, Event

(***************************************************************************)
(* The handler goes on to the answer, with an Error or, without memory for *)
(* it, an empty one.                                                       *)
(***************************************************************************)
LEMMA Answered ==
  ASSUME Inv, ~crashed, c.pc \in Busy \cup {"parse"},
         Shape', Balance', c'.pc = "answer", c'.phase = c.phase,
         \/ c'.resp = EmptyObject
         \/ \E m : c'.resp = json_object_push(EmptyObject, "Error", Str(m)),
         c'.status = c.status, c'.job = NoJob,
         UNCHANGED <<peer, worker, conns, crashed>>,
         fails' = fails \/ (fails < MaxFails /\ fails' = fails + 1)
  PROVE  Inv'
<1>1. c.pc \notin {"idle", "push"} /\ c.pc \in Before \cup Busy
  BY DEF Busy, Checked, Before
<1>2. c.phase = "open" /\ c.status = NoValue
  BY <1>1 DEF Inv, Holds
<1>3. c'.resp # NoValue
  BY Answers
<1>4. Types'
  BY ClientAssumption, NoJobFacts DEF Inv, Types, PC
<1>5. Holds'
  BY <1>2, <1>3 DEF Holds, Before, Busy, Checked
<1>6. Told' /\ Decoding'
  BY DEF Inv, Told, Decoding, Before, Busy, Checked
<1>. QED
  BY <1>4, <1>5, <1>6 DEF Inv

(***************************************************************************)
(* The same for a request that has no job and allocates nothing.           *)
(***************************************************************************)
LEMMA Refused ==
  ASSUME Inv, ~crashed, c.pc \in {"parse", "check", "dispatch", "decode"},
         NEW d, d.req = c.req /\ d = [c EXCEPT !.buf = d.buf],
         NEW m, PushError(d, m) \/ OutOfMemory(d, m),
         UNCHANGED <<peer, worker, conns, crashed, heap>>
  PROVE  Inv'
<1>1. /\ c.job = NoJob /\ c.resp = EmptyObject
      /\ c.pc \in Busy \cup {"parse"}
  BY DEF Inv, Holds, Busy, Checked
<1>2. /\ d.resp = c.resp /\ d.job = c.job /\ d.left = c.left /\ d.out = c.out
      /\ d.phase = c.phase /\ d.status = c.status
      /\ d = [pc |-> d.pc, buf |-> d.buf, resp |-> d.resp, req |-> d.req,
              job |-> d.job, left |-> d.left, status |-> d.status, out |-> d.out,
              phase |-> d.phase]
  <2>. DEFINE b == d.buf
  <2>1. d = [c EXCEPT !.buf = b]
    OBVIOUS
  <2>. HIDE DEF b
  <2>. QED
    BY <2>1 DEF Inv, Shape
<1>3. /\ \/ c' = [d EXCEPT !.pc = "answer", !.resp = EmptyObject]
         \/ c' = [d EXCEPT !.pc = "answer", !.resp =
                    json_object_push(EmptyObject, "Error", Str(m))]
      /\ fails' = fails \/ (fails < MaxFails /\ fails' = fails + 1)
  <2>1. [d EXCEPT !.pc = "answer"] = [d EXCEPT !.pc = "answer", !.resp = EmptyObject]
    BY <1>1, <1>2
  <2>2. [d EXCEPT !.pc = "answer", !.resp = json_object_push(@, "Error", Str(m))]
        = [d EXCEPT !.pc = "answer",
                    !.resp = json_object_push(EmptyObject, "Error", Str(m))]
    BY <1>1, <1>2
  <2>. QED
    BY <2>1, <2>2 DEF PushError, OutOfMemory, PutError, Event
<1>4. /\ c'.pc = "answer" /\ c'.job = c.job /\ c'.req = c.req
      /\ c'.status = c.status /\ c'.phase = c.phase
      /\ \/ c'.resp = EmptyObject
         \/ c'.resp = json_object_push(EmptyObject, "Error", Str(m))
  BY <1>2, <1>3
<1>5. Shape'
  BY <1>2, <1>3 DEF Inv, Shape
<1>6. Trees' = Trees
  BY <1>1, <1>4, Answers DEF Trees, Count
<1>7. Balance'
  <2>1. heap.lost \in Nat /\ (heap.lost > 0 => fails' > 0) /\ heap.json = heap.lost + Trees
    BY <1>3, ClientAssumption DEF Inv, Balance, Types
  <2>. QED
    BY <1>4, <1>6, <2>1, Books DEF Inv
<1>. QED
  BY <1>1, <1>3, <1>4, <1>5, <1>7, Answered

(***************************************************************************)
(* The process dies: what was allocated still is.                          *)
(***************************************************************************)
LEMMA Dead ==
  ASSUME Inv, Die, UNCHANGED <<worker, conns, heap>>,
         fails' = fails \/ (fails < MaxFails /\ fails' = fails + 1)
  PROVE  Inv'
<1>1. /\ crashed' = TRUE /\ peer' = [state |-> "away", text |-> <<>>, sent |-> <<>>]
      /\ c' = [pc |-> c.pc, buf |-> c.buf, resp |-> c.resp, req |-> c.req,
               job |-> c.job, left |-> c.left, status |-> c.status, out |-> c.out,
               phase |-> "closed"]
  BY DEF Die, NoPeer, Inv, Shape
<1>2. Shape'
  BY <1>1 DEF Inv, Shape
<1>3. Types'
  <2>1. fails' \in 0..MaxFails
    BY ClientAssumption DEF Inv, Types
  <2>2. crashed' \in BOOLEAN
    BY <1>1, Zenon
  <2>. QED
    BY <1>1, <2>1, <2>2 DEF Inv, Types
<1>4. Balance'
  <2>1. heap.lost \in Nat /\ (heap.lost > 0 => fails' > 0) /\ heap.json = heap.lost + Trees
    BY ClientAssumption DEF Inv, Balance, Types
  <2>2. Trees' = Trees
    BY <1>1 DEF Trees
  <2>. QED
    BY <1>1, <2>1, <2>2, Books DEF Inv
<1>. QED
  BY <1>1, <1>2, <1>3, <1>4 DEF Inv

(***************************************************************************)
(* The request is parsed: an object is one that the client's text begins   *)
(* with.                                                                   *)
(***************************************************************************)
LEMMA ParseStep == Inv /\ Parse => Inv'
<1>. SUFFICES ASSUME Inv, Parse PROVE Inv'
  OBVIOUS
<1>. DEFINE v == ParseText(c.buf)
            d == [c EXCEPT !.buf = <<>>]
            e == json_object_push(EmptyObject, "Error", Str("invalid JSON payload"))
<1>1. c.pc = "parse" /\ ~crashed /\ UNCHANGED <<worker, conns>>
  BY DEF Parse, At
<1>2. /\ c.job = NoJob /\ c.resp = EmptyObject /\ c.req = NoValue
      /\ c.status = NoValue /\ c.phase = "open"
      /\ peer.state = "waiting" /\ peer.sent \in Texts /\ c.buf \in Pieces(peer.sent)
  BY <1>1 DEF Inv, Holds, Told, Before
<1>3. /\ d.buf = <<>> /\ d.resp = c.resp /\ d.req = c.req /\ d.job = c.job
      /\ d.left = c.left /\ d.status = c.status /\ d.out = c.out
      /\ d.phase = c.phase
      /\ d = [pc |-> d.pc, buf |-> d.buf, resp |-> d.resp, req |-> d.req,
              job |-> d.job, left |-> d.left, status |-> d.status, out |-> d.out,
              phase |-> d.phase]
  BY DEF Inv, Shape
<1>4. \/ /\ v = NoValue
         /\ PushError(d, "invalid JSON payload")
         /\ UNCHANGED <<heap, crashed, peer>>
      \/ /\ v # NoValue
         /\ c' = [d EXCEPT !.pc = "check", !.req = v]
         /\ heap' = [heap EXCEPT !.json = @ + 1]
         /\ UNCHANGED <<fails, crashed, peer>>
      \/ /\ OutOfMemory(d, "invalid JSON payload")
         /\ \E lost \in {0} \cup Losses(c.buf) :
              heap' = [heap EXCEPT !.json = @ + lost, !.lost = @ + lost]
         /\ UNCHANGED <<crashed, peer>>
      \/ Event /\ Die /\ UNCHANGED heap
  BY Zenon DEF Parse
<1>. HIDE DEF v, d, e
<1>5. CASE PushError(d, "invalid JSON payload") /\ UNCHANGED <<heap, crashed, peer>>
  <2>1. d.req = c.req /\ d = [c EXCEPT !.buf = d.buf]
    BY <1>3 DEF d
  <2>2. c.pc \in {"parse", "check", "dispatch", "decode"}
    BY <1>1
  <2>. QED
    BY <1>1, <1>5, <2>1, <2>2, Refused
<1>6. CASE /\ v # NoValue
           /\ c' = [d EXCEPT !.pc = "check", !.req = v]
           /\ heap' = [heap EXCEPT !.json = @ + 1]
           /\ UNCHANGED <<fails, crashed, peer>>
  <2>1. /\ c'.pc = "check" /\ c'.req = v /\ c'.resp = EmptyObject /\ c'.job = NoJob
        /\ c'.status = NoValue /\ c'.phase = "open"
    BY <1>2, <1>3, <1>6
  <2>2. Shape'
    BY <1>1, <1>3, <1>6 DEF Inv, Shape
  <2>3. Types'
    BY <1>1, <1>6, <2>1, NoJobFacts DEF Inv, Types, PC
  <2>4. Holds' /\ Decoding'
    BY <1>1, <1>6, <2>1 DEF Holds, Decoding, Before, Busy, Checked
  <2>5. v.t = "object" => v \in Docs /\ Begins(peer.sent, v)
    BY <1>2, ParserAssumption DEF v
  <2>6. Told'
    BY <1>2, <1>6, <2>1, <2>5 DEF Told, Before, Busy, Checked
  <2>7. Trees = 1 /\ Trees' = 2
    BY <1>2, <1>6, <2>1, Answers DEF Trees, Count
  <2>8. /\ heap'.json = heap.json + 1 /\ heap'.lost = heap.lost
        /\ heap'.blueprint = heap.blueprint /\ heap'.job = heap.job
        /\ heap'.task = heap.task /\ heap'.name = heap.name
        /\ heap'.node = heap.node
    BY <1>6 DEF Inv, Shape
  <2>9. Balance'
    <3>1. heap.lost \in Nat /\ (heap.lost > 0 => fails > 0) /\ heap.json = heap.lost + Trees
      BY DEF Inv, Balance
    <3>. QED
      BY <1>1, <1>2, <1>6, <2>1, <2>7, <2>8, <3>1, Books DEF Inv
  <2>. QED
    BY <1>1, <1>6, <2>2, <2>3, <2>4, <2>6, <2>9 DEF Inv
<1>7. ASSUME NEW lost \in Nat, OutOfMemory(d, "invalid JSON payload"),
             heap' = [heap EXCEPT !.json = @ + lost, !.lost = @ + lost],
             UNCHANGED <<crashed, peer>>
      PROVE  Inv'
  <2>0. PICK r \in {e, EmptyObject} :
          c' = [pc |-> "answer", buf |-> d.buf, resp |-> r, req |-> d.req,
                job |-> d.job, left |-> d.left, status |-> d.status,
                out |-> d.out, phase |-> d.phase]
    BY <1>2, <1>3, <1>7 DEF OutOfMemory, PutError, e
  <2>1. /\ c'.pc = "answer" /\ c'.req = c.req /\ c'.resp = r /\ c'.job = NoJob
        /\ c'.status = c.status /\ c'.phase = c.phase
    BY <1>2, <1>3, <2>0
  <2>2. Shape'
    BY <1>1, <1>7, <2>0 DEF Inv, Shape
  <2>3. Trees' = Trees /\ Trees = 1
    <3>1. e # NoValue /\ EmptyObject # NoValue
      BY Answers, Zenon DEF e
    <3>. QED
      BY <1>2, <2>1, <3>1 DEF Trees, Count
  <2>4. /\ heap'.json = heap.json + lost /\ heap'.lost = heap.lost + lost
        /\ heap'.blueprint = heap.blueprint /\ heap'.job = heap.job
        /\ heap'.task = heap.task /\ heap'.name = heap.name
        /\ heap'.node = heap.node
    BY <1>7 DEF Inv, Shape
  <2>5. fails < MaxFails /\ fails' = fails + 1
    BY <1>7 DEF OutOfMemory, Event
  <2>6. Balance'
    <3>1. /\ heap.lost \in Nat /\ heap.json = heap.lost + Trees /\ fails \in Nat
      BY ClientAssumption DEF Inv, Balance, Types
    <3>2. /\ heap'.lost \in Nat /\ fails' > 0
          /\ heap'.json = heap'.lost + Trees'
      BY <2>3, <2>4, <2>5, <3>1
    <3>. QED
      BY <1>1, <1>2, <2>1, <2>4, <3>2, Books DEF Inv
  <2>7. c.pc \in Busy \cup {"parse"}
    BY <1>1
  <2>8. \/ c'.resp = EmptyObject
        \/ \E m : c'.resp = json_object_push(EmptyObject, "Error", Str(m))
    BY <2>1 DEF e
  <2>. QED
    BY <1>1, <1>7, <2>1, <2>2, <2>5, <2>6, <2>7, <2>8, Answered
<1>8. CASE Event /\ Die /\ UNCHANGED heap
  BY <1>1, <1>8, Dead DEF Event
<1>9. {0} \cup Losses(c.buf) \subseteq Nat
  <2>1. Losses(c.buf) \subseteq 1..Len(Normal(c.buf))
    BY Zenon DEF Losses
  <2>2. \A n : 1..n \subseteq Nat
    OBVIOUS
  <2>. QED
    BY <2>1, <2>2
<1>. QED
  BY <1>4, <1>5, <1>6, <1>7, <1>8, <1>9

(***************************************************************************)
(* The request is checked: it is turned down, or it has the token and a    *)
(* command.                                                                *)
(***************************************************************************)
LEMMA CheckStep == Inv /\ Check => Inv'
<1>. SUFFICES ASSUME Inv, Check PROVE Inv'
  OBVIOUS
<1>1. /\ c.pc = "check" /\ ~crashed
      /\ UNCHANGED <<peer, worker, heap, conns, crashed>>
      /\ \/ PushError(c, Refusal(c.req))
         \/ /\ Refusal(c.req) = "" /\ c' = [c EXCEPT !.pc = "dispatch"]
            /\ fails' = fails
  BY DEF Check, At
<1>2. CASE PushError(c, Refusal(c.req))
  <2>1. c.req = c.req /\ c = [c EXCEPT !.buf = c.buf]
    BY DEF Inv, Shape
  <2>2. c.pc \in {"parse", "check", "dispatch", "decode"}
    BY <1>1
  <2>. QED
    BY <1>1, <1>2, <2>1, <2>2, Refused
<1>3. CASE Refusal(c.req) = "" /\ c' = [c EXCEPT !.pc = "dispatch"] /\ fails' = fails
  <2>1. Shape' /\ c'.pc = "dispatch" /\ c'.job = c.job /\ c'.req = c.req
        /\ c'.resp = c.resp /\ c'.status = c.status /\ c'.phase = c.phase
    BY <1>1, <1>3 DEF Inv, Shape
  <2>2. Types'
    BY <1>1, <1>3, <2>1 DEF Inv, Types, PC
  <2>3. Holds' /\ Decoding'
    BY <1>1, <2>1 DEF Inv, Holds, Decoding, Before, Busy, Checked
  <2>4. c.req.t = "object"
    BY <1>3 DEF Refusal
  <2>5. Told'
    BY <1>1, <1>3, <2>1, <2>4 DEF Inv, Told, Before, Busy, Checked
  <2>6. Balance'
    BY <1>1, <1>3, <2>1 DEF Inv, Balance, Trees
  <2>. QED
    BY <1>1, <2>1, <2>2, <2>3, <2>5, <2>6 DEF Inv
<1>. QED
  BY <1>1, <1>2, <1>3

(***************************************************************************)
(* The command is looked up.                                               *)
(***************************************************************************)
LEMMA DispatchStep == Inv /\ Dispatch => Inv'
<1>. SUFFICES ASSUME Inv, Dispatch PROVE Inv'
  OBVIOUS
<1>1. c.pc = "dispatch" /\ ~crashed /\ UNCHANGED <<peer, worker, heap, conns, crashed>>
  BY DEF Dispatch, At
<1>2. CASE PushError(c, "command error")
  <2>1. c.req = c.req /\ c = [c EXCEPT !.buf = c.buf]
    BY DEF Inv, Shape
  <2>2. c.pc \in {"parse", "check", "dispatch", "decode"}
    BY <1>1
  <2>. QED
    BY <1>1, <1>2, <2>1, <2>2, Refused
<1>3. ASSUME NEW p, c' = [c EXCEPT !.pc = p], fails' = fails,
             \/ p = "decode" /\ Command \in {"run", "assign"}
             \/ p = "call" /\ Command \notin {"run", "assign"}
      PROVE  Inv'
  <2>1. Shape' /\ c'.pc = p /\ c'.job = c.job /\ c'.req = c.req
        /\ c'.resp = c.resp /\ c'.status = c.status /\ c'.phase = c.phase
    BY <1>1, <1>3 DEF Inv, Shape
  <2>2. Types'
    BY <1>1, <1>3, <2>1 DEF Inv, Types, PC
  <2>3. Holds' /\ Decoding'
    BY <1>1, <1>3, <2>1 DEF Inv, Holds, Decoding, Before, Busy, Checked
  <2>4. Command' = Command
    BY <2>1 DEF Command
  <2>5. c.job = NoJob /\ c.req.t = "object" /\ Refusal(c.req) = ""
    BY <1>1 DEF Inv, Holds, Told, Checked
  <2>6. Told'
    BY <1>1, <1>3, <2>1, <2>4, <2>5 DEF Inv, Told, Before, Busy, Checked
  <2>7. Balance'
    BY <1>1, <1>3, <2>1 DEF Inv, Balance, Trees
  <2>. QED
    BY <1>1, <2>1, <2>2, <2>3, <2>6, <2>7 DEF Inv
<1>4. \/ Command \in {"run", "assign"} /\ c' = [c EXCEPT !.pc = "decode"]
         /\ fails' = fails
      \/ Command \notin {"run", "assign"} /\ c' = [c EXCEPT !.pc = "call"]
         /\ fails' = fails
      \/ PushError(c, "command error")
  BY DEF Dispatch, Signals
<1>. QED
  BY <1>2, <1>3, <1>4

(***************************************************************************)
(* job_decode up to its loop.                                              *)
(***************************************************************************)
LEMMA DecodeStep == Inv /\ Decode => Inv'
<1>. SUFFICES ASSUME Inv, Decode PROVE Inv'
  OBVIOUS
<1>. DEFINE v == JobDocument
            j == JobHeader(v)
            ts == TaskList(v).k
<1>1. c.pc = "decode" /\ ~crashed /\ UNCHANGED <<peer, worker, conns, crashed>>
  BY DEF Decode, At
<1>2. /\ c.job = NoJob /\ c.resp = EmptyObject /\ c.req # NoValue
      /\ c.status = NoValue /\ c.phase = "open" /\ c.req.t = "object"
      /\ c.req \in Docs /\ Command \in {"run", "assign"}
  BY <1>1 DEF Inv, Holds, Told, Before, Busy, Checked
<1>3. v \in Values \cup {NoValue}
  <2>1. c.req \in Values
    BY <1>2, ValuesAssumption
  <2>. QED
    BY <2>1, Lookup DEF JobDocument
<1>4. \/ /\ j # NoJob
         /\ c' = [c EXCEPT !.pc = "tasks", !.job = j, !.left = ts]
         /\ heap' = [heap EXCEPT !.blueprint = @ + 1, !.job = @ + 1]
         /\ fails' = fails
      \/ /\ PushError(c, "blueprint error") \/ OutOfMemory(c, "blueprint error")
         /\ UNCHANGED heap
  BY DEF Decode, JobDocument, TaskList
<1>. HIDE DEF v, j, ts
<1>5. CASE /\ PushError(c, "blueprint error") \/ OutOfMemory(c, "blueprint error")
           /\ UNCHANGED heap
  <2>1. c.req = c.req /\ c = [c EXCEPT !.buf = c.buf]
    BY DEF Inv, Shape
  <2>2. c.pc \in {"parse", "check", "dispatch", "decode"}
    BY <1>1
  <2>. QED
    BY <1>1, <1>5, <2>1, <2>2, Refused
<1>6. CASE /\ j # NoJob
           /\ c' = [c EXCEPT !.pc = "tasks", !.job = j, !.left = ts]
           /\ heap' = [heap EXCEPT !.blueprint = @ + 1, !.job = @ + 1]
           /\ fails' = fails
  <2>1. Shape' /\ c'.pc = "tasks" /\ c'.job = j /\ c'.left = ts /\ c'.req = c.req
        /\ c'.resp = c.resp /\ c'.status = c.status /\ c'.phase = c.phase
    BY <1>1, <1>6 DEF Inv, Shape
  <2>2. /\ Heads(v, j) /\ j \in JobType /\ j.tasks = <<>>
        /\ TaskList(v) \in Values /\ TaskList(v).t = "array"
        /\ IsMember(v, "tasks", TaskList(v))
        /\ \E i \in DOMAIN v.k : v.k[i].val = TaskList(v)
    BY <1>3, <1>6, Header DEF j
  <2>3. ts \in Seq([name : STRING, val : Values])
    BY <2>2, ValueFacts DEF ts
  <2>4. Halfway(v, j, ts)
    BY <2>2, <2>3 DEF Halfway, ts
  <2>5. Types'
    BY <1>1, <1>6, <2>1, <2>2 DEF Inv, Types, PC
  <2>6. Holds'
    BY <1>1, <1>2, <1>6, <2>1 DEF Holds, Before, Busy, Checked
  <2>7. Command' = Command /\ JobDocument' = v
    BY <2>1 DEF Command, JobDocument, v
  <2>8. Told'
    BY <1>1, <1>2, <2>1, <2>7 DEF Inv, Told, Before, Busy, Checked
  <2>9. Decoding'
    BY <2>1, <2>4, <2>7 DEF Decoding
  <2>10. Balance'
    <3>1. /\ heap'.json = heap.json /\ heap'.lost = heap.lost
          /\ heap'.blueprint = heap.blueprint + 1 /\ heap'.job = heap.job + 1
          /\ heap'.task = heap.task /\ heap'.name = heap.name
          /\ heap'.node = heap.node
      BY <1>6 DEF Inv, Shape
    <3>2. Trees' = Trees
      BY <2>1 DEF Trees
    <3>3. Named(j) = 0 /\ Len(j.tasks) = 0 /\ CountJob(j) = 1
      BY <1>6, <2>2, NamedFacts DEF CountJob
    <3>4. /\ Named(worker.job) \in Nat /\ Len(worker.job.tasks) \in Nat
          /\ CountJob(worker.job) \in Nat /\ worker.taken \in Nat
      BY Numbers DEF Inv, Types
    <3>5. /\ heap.blueprint = worker.taken /\ heap.job = CountJob(worker.job)
          /\ heap.task = Len(worker.job.tasks) /\ heap.name = Named(worker.job)
          /\ heap.node = heap.task /\ heap.json = heap.lost + Trees
          /\ heap.lost \in Nat /\ (heap.lost > 0 => fails > 0)
      BY <1>2, <3>4, Numbers DEF Inv, Balance
    <3>6. worker' = worker /\ fails' = fails
      BY <1>1, <1>6
    <3>7. /\ heap'.blueprint = worker.taken + CountJob(j)
          /\ heap'.job = CountJob(worker.job) + CountJob(j)
      BY <3>1, <3>3, <3>4, <3>5
    <3>8. /\ heap'.task = Len(worker.job.tasks) + Len(j.tasks)
          /\ heap'.name = Named(worker.job) + Named(j)
      BY <3>1, <3>3, <3>4, <3>5
    <3>. QED
      BY <2>1, <3>1, <3>2, <3>5, <3>6, <3>7, <3>8 DEF Balance
  <2>. QED
    BY <1>1, <2>1, <2>5, <2>6, <2>8, <2>9, <2>10 DEF Inv
<1>. QED
  BY <1>4, <1>5, <1>6

(***************************************************************************)
(* A list that is read from the front while another one grows at its end:  *)
(* the next element of the first goes to the end of the second.            *)
(***************************************************************************)
LEMMA Moved ==
  ASSUME NEW M, NEW S, NEW ts \in Seq(M), NEW left \in Seq(M), left # <<>>,
         NEW q \in Seq(S), NEW n \in S, Len(ts) = Len(q) + Len(left),
         \A i \in 1..Len(left) : left[i] = ts[Len(q) + i]
  PROVE  /\ Head(left) \in M /\ Head(left) = ts[Len(q) + 1]
         /\ Tail(left) \in Seq(M)
         /\ Len(ts) = Len(Append(q, n)) + Len(Tail(left))
         /\ \A i \in 1..Len(Tail(left)) :
              Tail(left)[i] = ts[Len(Append(q, n)) + i]
         /\ \A i \in 1..Len(Append(q, n)) :
              \/ i \in 1..Len(q) /\ Append(q, n)[i] = q[i]
              \/ i = Len(q) + 1 /\ Append(q, n)[i] = n
<1>1. Head(left) = left[1] /\ Head(left) \in M /\ Tail(left) \in Seq(M)
      /\ Len(Tail(left)) = Len(left) - 1 /\ Len(left) \in Nat \ {0}
      /\ \A i \in 1..(Len(left) - 1) : Tail(left)[i] = left[i + 1]
  OBVIOUS
<1>2. /\ Len(Append(q, n)) = Len(q) + 1 /\ Len(q) \in Nat
      /\ Append(q, n)[Len(q) + 1] = n
      /\ \A i \in 1..Len(q) : Append(q, n)[i] = q[i]
  OBVIOUS
<1>. DEFINE tl == Tail(left)
            ap == Append(q, n)
<1>. HIDE DEF tl, ap
<1>3. Len(ts) = Len(ap) + Len(tl)
  BY <1>1, <1>2 DEF tl, ap
<1>4. ASSUME NEW i \in 1..Len(tl) PROVE tl[i] = ts[Len(ap) + i]
  <2>1. i + 1 \in 1..Len(left) /\ tl[i] = left[i + 1]
    BY <1>1 DEF tl
  <2>2. left[i + 1] = ts[Len(q) + (i + 1)]
    BY <2>1
  <2>3. Len(q) + (i + 1) = Len(ap) + i
    BY <1>2 DEF ap
  <2>. QED
    BY <2>1, <2>2, <2>3
<1>5. ASSUME NEW i \in 1..Len(ap)
      PROVE  \/ i \in 1..Len(q) /\ ap[i] = q[i]
             \/ i = Len(q) + 1 /\ ap[i] = n
  BY <1>2 DEF ap
<1>6. Head(left) = ts[Len(q) + 1]
  <2>1. 1 \in 1..Len(left)
    BY <1>1
  <2>. QED
    BY <1>1, <2>1
<1>. QED
  BY <1>1, <1>3, <1>4, <1>5, <1>6, Zenon DEF tl, ap

(***************************************************************************)
(* The next task of a job that is being decoded.                           *)
(***************************************************************************)
LEMMA OneMore ==
  ASSUME NEW v, NEW j \in JobType, NEW left, Halfway(v, j, left), left # <<>>,
         NEW n, Names(Head(left).val, n), n \in STRING \cup {NoName}
  PROVE  Halfway(v, job_add_task(j, n), Tail(left))
<1>. DEFINE M == [name : STRING, val : Values]
            S == STRING \cup {NoName}
            ts == TaskList(v).k
            j2 == job_add_task(j, n)
<1>1. left \in Seq(M) /\ ts \in Seq(M)
  BY ValueFacts DEF Halfway
<1>2. /\ Len(ts) = Len(j.tasks) + Len(left)
      /\ \A i \in 1..Len(left) : left[i] = ts[Len(j.tasks) + i]
      /\ \A i \in 1..Len(j.tasks) : Names(ts[i].val, j.tasks[i])
  BY DEF Halfway
<1>3. j.tasks \in Seq(S)
  BY Zenon DEF JobType
<1>4. /\ j2.tasks = Append(j.tasks, n)
      /\ j2.id = j.id /\ j2.exec = j.exec /\ j2.run = j.run
  BY DEF job_add_task, JobType
<1>. HIDE DEF M, S, ts, j2
<1>5. /\ Head(left) = ts[Len(j.tasks) + 1]
      /\ Tail(left) \in Seq(M)
      /\ Len(ts) = Len(j2.tasks) + Len(Tail(left))
      /\ \A i \in 1..Len(Tail(left)) : Tail(left)[i] = ts[Len(j2.tasks) + i]
      /\ \A i \in 1..Len(j2.tasks) :
           \/ i \in 1..Len(j.tasks) /\ j2.tasks[i] = j.tasks[i]
           \/ i = Len(j.tasks) + 1 /\ j2.tasks[i] = n
  <2>1. n \in S
    BY DEF S
  <2>. DEFINE q == j.tasks
  <2>2. q \in Seq(S) /\ Len(ts) = Len(q) + Len(left)
        /\ \A i \in 1..Len(left) : left[i] = ts[Len(q) + i]
    BY <1>2, <1>3
  <2>3. j2.tasks = Append(q, n)
    BY <1>4
  <2>. HIDE DEF q
  <2>4. /\ Head(left) = ts[Len(q) + 1]
        /\ Tail(left) \in Seq(M)
        /\ Len(ts) = Len(Append(q, n)) + Len(Tail(left))
        /\ \A i \in 1..Len(Tail(left)) :
             Tail(left)[i] = ts[Len(Append(q, n)) + i]
        /\ \A i \in 1..Len(Append(q, n)) :
             \/ i \in 1..Len(q) /\ Append(q, n)[i] = q[i]
             \/ i = Len(q) + 1 /\ Append(q, n)[i] = n
    BY <1>1, <2>1, <2>2, Moved, SMTT(30)
  <2>. QED
    BY <2>3, <2>4, Zenon DEF q
<1>6. ASSUME NEW i \in 1..Len(j2.tasks)
      PROVE  Names(ts[i].val, j2.tasks[i])
  <2>1. CASE i \in 1..Len(j.tasks) /\ j2.tasks[i] = j.tasks[i]
    BY <1>2, <2>1, Zenon
  <2>2. CASE i = Len(j.tasks) + 1 /\ j2.tasks[i] = n
    <3>1. ts[i] = Head(left) /\ j2.tasks[i] = n
      BY <1>5, <2>2
    <3>. QED
      BY <3>1
  <2>. QED
    BY <1>5, <2>1, <2>2, Zenon
<1>7. Heads(v, j2)
  BY <1>4 DEF Halfway, Heads
<1>8. /\ TaskList(v) \in Values /\ TaskList(v).t = "array"
      /\ IsMember(v, "tasks", TaskList(v))
      /\ \E i \in DOMAIN v.k : v.k[i].val = TaskList(v)
  BY Zenon DEF Halfway
<1>. QED
  BY <1>5, <1>6, <1>7, <1>8, Zenon DEF Halfway, ts, j2, M

(***************************************************************************)
(* A job all whose tasks are decoded is the one its document describes.    *)
(***************************************************************************)
LEMMA AllDone ==
  ASSUME NEW v, NEW j \in JobType, Halfway(v, j, <<>>)
  PROVE  v # NoValue /\ Describes(v, j) /\ j # NoJob
<1>. DEFINE ts == TaskList(v)
<1>1. /\ ts \in Values /\ ts.t = "array" /\ IsMember(v, "tasks", ts)
      /\ \E i \in DOMAIN v.k : v.k[i].val = ts
      /\ Len(ts.k) = Len(j.tasks) + Len(<<>>)
      /\ \A i \in 1..Len(j.tasks) : Names(ts.k[i].val, j.tasks[i])
      /\ Heads(v, j)
  BY DEF Halfway
<1>2. DOMAIN j.tasks = 1..Len(j.tasks) /\ Len(j.tasks) \in Nat
  <2>1. j.tasks \in Seq(STRING \cup {NoName})
    BY DEF JobType
  <2>. QED
    BY <2>1
<1>3. DOMAIN ts.k = 1..Len(ts.k) /\ Len(ts.k) \in Nat
  <2>1. ts.k \in Seq([name : STRING, val : Values])
    BY <1>1, ValueFacts
  <2>. QED
    BY <2>1
<1>. HIDE DEF ts
<1>4. Len(ts.k) = Len(j.tasks)
  BY <1>1, <1>2
<1>5. DOMAIN ts.k = DOMAIN j.tasks /\ \A h \in DOMAIN ts.k : Names(ts.k[h].val, j.tasks[h])
  BY <1>1, <1>2, <1>3, <1>4
<1>6. Describes(v, j)
  BY <1>1, <1>5 DEF Describes, Heads
<1>7. v # NoValue /\ j # NoJob
  BY <1>1, ValueFacts, NoJobFacts DEF Heads
<1>. QED
  BY <1>6, <1>7

(***************************************************************************)
(* The next task is decoded, or the job is given up.                       *)
(***************************************************************************)
LEMMA DecodeTaskStep == Inv /\ DecodeTask => Inv'
<1>. SUFFICES ASSUME Inv, DecodeTask PROVE Inv'
  OBVIOUS
<1>. DEFINE v == JobDocument
            name == task_decode(Head(c.left).val)
            given == [c EXCEPT !.job = NoJob, !.left = <<>>]
            e == json_object_push(EmptyObject, "Error", Str("blueprint error"))
<1>1. /\ c.pc = "tasks" /\ ~crashed /\ c.left # <<>>
      /\ UNCHANGED <<peer, worker, conns, crashed>>
  BY DEF DecodeTask, At
<1>2. /\ c.job # NoJob /\ c.job \in JobType /\ c.resp = EmptyObject
      /\ c.req # NoValue /\ c.status = NoValue /\ c.phase = "open"
      /\ c.req.t = "object" /\ Command \in {"run", "assign"}
      /\ Halfway(v, c.job, c.left)
  BY <1>1 DEF Inv, Types, Holds, Told, Decoding, Before, Busy, Checked
<1>3. \/ \E n \in {name, NoName} :
           /\ name # ""
           /\ c' = [c EXCEPT !.left = Tail(@), !.job = job_add_task(@, n)]
           /\ heap' = [heap EXCEPT !.task = @ + 1, !.node = @ + 1,
                                   !.name = @ + (IF n = NoName THEN 0 ELSE 1)]
           /\ fails' = fails \/ (fails < MaxFails /\ fails' = fails + 1)
      \/ /\ \/ PushError(given, "blueprint error")
            \/ OutOfMemory(given, "blueprint error")
         /\ heap' = GiveUp(heap, c.job)
  <2>. HIDE DEF name
  <2>. QED
    BY Zenon DEF DecodeTask, Event, name
<1>. HIDE DEF v, name, given, e
<1>4. /\ Named(worker.job) \in Nat /\ Len(worker.job.tasks) \in Nat
      /\ CountJob(worker.job) \in Nat /\ worker.taken \in Nat
      /\ Named(c.job) \in Nat /\ Len(c.job.tasks) \in Nat /\ CountJob(c.job) = 1
  BY <1>2, Numbers DEF Inv, Types, CountJob
<1>5. ASSUME NEW n \in {name, NoName}, name # "",
             c' = [c EXCEPT !.left = Tail(@), !.job = job_add_task(@, n)],
             heap' = [heap EXCEPT !.task = @ + 1, !.node = @ + 1,
                                  !.name = @ + (IF n = NoName THEN 0 ELSE 1)],
             fails' = fails \/ (fails < MaxFails /\ fails' = fails + 1)
      PROVE  Inv'
  <2>. DEFINE j == job_add_task(c.job, n)
              k == IF n = NoName THEN 0 ELSE 1
  <2>1. Head(c.left).val \in Values
    <3>. DEFINE M == [name : STRING, val : Values]
    <3>1. c.left \in Seq(M)
      BY <1>2, Zenon DEF Halfway
    <3>2. Head(c.left) \in M
      <4>. HIDE DEF M
      <4>. QED
        BY <1>1, <3>1
    <3>. QED
      BY <3>2
  <2>2. n \in STRING \cup {NoName} /\ Names(Head(c.left).val, n)
    BY <1>5, <2>1, TaskName DEF name
  <2>3. Halfway(v, j, Tail(c.left))
    BY <1>1, <1>2, <2>2, OneMore
  <2>4. j \in JobType /\ j.tasks = Append(c.job.tasks, n) /\ Named(j) = Named(c.job) + k
    BY <1>2, <2>2, NamedFacts
  <2>5. /\ Len(j.tasks) = Len(c.job.tasks) + 1 /\ k \in Nat
        /\ Named(j) = Named(c.job) + k
    <3>1. c.job.tasks \in Seq(STRING \cup {NoName})
      BY <1>2, Zenon DEF JobType
    <3>. DEFINE q == c.job.tasks
    <3>2. j.tasks = Append(q, n)
      BY <2>4
    <3>3. Named(j) = Named(c.job) + k /\ k \in Nat
      BY <2>4
    <3>. HIDE DEF q, j, k
    <3>4. Len(j.tasks) = Len(q) + 1
      BY <2>2, <3>1, <3>2 DEF q
    <3>. QED
      BY <3>3, <3>4 DEF q
  <2>6. j # NoJob
    <3>1. j.id = c.job.id
      BY <1>2 DEF job_add_task, JobType
    <3>2. c.job.id \in 1..IntMax
      BY <1>2 DEF Halfway, Heads
    <3>. QED
      BY <3>1, <3>2, NoJobFacts
  <2>. HIDE DEF j, k
  <2>7. Shape' /\ c'.pc = "tasks" /\ c'.job = j /\ c'.left = Tail(c.left)
        /\ c'.req = c.req /\ c'.resp = c.resp /\ c'.status = c.status
        /\ c'.phase = c.phase
    BY <1>1, <1>5 DEF Inv, Shape, j
  <2>8. Types'
    <3>1. fails' \in 0..MaxFails
      BY <1>5, Failing, Zenon
    <3>2. j \in JobType
      BY <2>4
    <3>. QED
      BY <1>1, <1>2, <2>7, <3>1, <3>2 DEF Inv, Types, PC
  <2>9. Holds'
    BY <1>2, <2>6, <2>7 DEF Holds, Before, Busy, Checked
  <2>10. Command' = Command /\ JobDocument' = v
    BY <2>7 DEF Command, JobDocument, v
  <2>11. Told'
    BY <1>1, <1>2, <2>7, <2>10 DEF Inv, Told, Before, Busy, Checked
  <2>12. Decoding'
    BY <2>3, <2>7, <2>10 DEF Decoding
  <2>13. Balance'
    <3>1. /\ heap'.json = heap.json /\ heap'.lost = heap.lost
          /\ heap'.blueprint = heap.blueprint /\ heap'.job = heap.job
          /\ heap'.task = heap.task + 1 /\ heap'.name = heap.name + k
          /\ heap'.node = heap.node + 1
      BY <1>5 DEF Inv, Shape, k
    <3>2. Trees' = Trees
      BY <2>7 DEF Trees
    <3>3. /\ heap.blueprint = worker.taken + 1
          /\ heap.job = CountJob(worker.job) + 1
          /\ heap.task = Len(worker.job.tasks) + Len(c.job.tasks)
          /\ heap.name = Named(worker.job) + Named(c.job)
          /\ heap.node = heap.task /\ heap.json = heap.lost + Trees
          /\ heap.lost \in Nat /\ (heap.lost > 0 => fails > 0)
      BY <1>4 DEF Inv, Balance
    <3>4. worker' = worker /\ (heap.lost > 0 => fails' > 0)
      BY <1>1, <1>5, Failing, Zenon
    <3>5. CountJob(j) = 1
      BY <2>6 DEF CountJob
    <3>6. heap'.task = Len(worker.job.tasks) + Len(j.tasks)
      <4>. DEFINE a == Len(worker.job.tasks)
                  b == Len(c.job.tasks)
                  d == Len(j.tasks)
      <4>1. a \in Nat /\ b \in Nat /\ d = b + 1 /\ heap.task = a + b
        BY <1>4, <2>5, <3>3
      <4>. HIDE DEF a, b, d
      <4>2. heap'.task = a + d
        BY <3>1, <4>1
      <4>. QED
        BY <4>2 DEF a, d
    <3>7. heap'.node = heap'.task
      BY <1>4, <3>1, <3>3
    <3>8. heap'.name = Named(worker.job) + Named(j)
      BY <1>4, <2>5, <3>1, <3>3
    <3>. QED
      BY <2>7, <3>1, <3>2, <3>3, <3>4, <3>5, <3>6, <3>7, <3>8 DEF Balance
  <2>. QED
    BY <1>1, <2>7, <2>8, <2>9, <2>11, <2>12, <2>13 DEF Inv
<1>6. ASSUME heap' = GiveUp(heap, c.job), NEW r,
             r = EmptyObject \/ r = e,
             c' = [given EXCEPT !.pc = "answer", !.resp = r],
             fails' = fails \/ (fails < MaxFails /\ fails' = fails + 1)
      PROVE  Inv'
  <2>1. c'.pc = "answer" /\ c'.job = NoJob
        /\ c'.req = c.req /\ c'.resp = r /\ c'.status = c.status
        /\ c'.phase = c.phase
    BY <1>1, <1>6 DEF Inv, Shape, given
  <2>2. /\ heap'.json = heap.json /\ heap'.lost = heap.lost
        /\ heap'.blueprint = heap.blueprint - 1 /\ heap'.job = heap.job - 1
        /\ heap'.task = heap.task - Len(c.job.tasks)
        /\ heap'.name = heap.name - Named(c.job)
        /\ heap'.node = heap.node - Len(c.job.tasks)
    BY <1>2, <1>6 DEF Inv, Shape, GiveUp, job_destroy
  <2>3. Shape'
    <3>1. /\ c' = [pc |-> c'.pc, buf |-> c'.buf, resp |-> c'.resp, req |-> c'.req,
                   job |-> c'.job, left |-> c'.left, status |-> c'.status,
                   out |-> c'.out, phase |-> c'.phase]
      BY <1>6 DEF Inv, Shape, given
    <3>2. heap' = [json |-> heap'.json, blueprint |-> heap'.blueprint,
                   job |-> heap'.job, task |-> heap'.task, name |-> heap'.name,
                   node |-> heap'.node, lost |-> heap'.lost]
      BY <1>2, <1>6 DEF Inv, Shape, GiveUp, job_destroy
    <3>. QED
      BY <1>1, <3>1, <3>2 DEF Inv, Shape
  <2>4. e # NoValue /\ EmptyObject # NoValue
    BY Answers, Zenon DEF e
  <2>5. Trees' = Trees
    BY <1>2, <1>6, <2>1, <2>4 DEF Trees, Count
  <2>6. Balance'
    <3>1. /\ heap.blueprint = worker.taken + 1
          /\ heap.job = CountJob(worker.job) + 1
          /\ heap.task = Len(worker.job.tasks) + Len(c.job.tasks)
          /\ heap.name = Named(worker.job) + Named(c.job)
          /\ heap.node = heap.task /\ heap.json = heap.lost + Trees
          /\ heap.lost \in Nat /\ (heap.lost > 0 => fails > 0)
      BY <1>4 DEF Inv, Balance
    <3>2. worker' = worker /\ (heap.lost > 0 => fails' > 0)
      BY <1>1, <1>6, <3>1 DEF Inv, Types
    <3>3. /\ heap'.blueprint = worker.taken + CountJob(NoJob)
          /\ heap'.job = CountJob(worker.job) + CountJob(NoJob)
          /\ heap'.task = Len(worker.job.tasks) + Len(NoJob.tasks)
          /\ heap'.name = Named(worker.job) + Named(NoJob)
          /\ heap'.node = heap'.task
      BY <1>4, <2>2, <3>1, Numbers
    <3>. QED
      BY <2>1, <2>2, <2>5, <3>1, <3>2, <3>3 DEF Balance
  <2>7. c.pc \in Busy \cup {"parse"}
    BY <1>1 DEF Busy, Checked
  <2>8. \/ c'.resp = EmptyObject
        \/ \E m : c'.resp = json_object_push(EmptyObject, "Error", Str(m))
    BY <1>6, <2>1 DEF e
  <2>. QED
    BY <1>1, <1>6, <2>1, <2>3, <2>6, <2>7, <2>8, Answered
<1>7. /\ given.resp = EmptyObject
      /\ [given EXCEPT !.pc = "answer"] =
           [given EXCEPT !.pc = "answer", !.resp = EmptyObject]
  BY <1>2 DEF Inv, Shape, given
<1>8. [given EXCEPT !.pc = "answer", !.resp =
         json_object_push(@, "Error", Str("blueprint error"))]
      = [given EXCEPT !.pc = "answer", !.resp = e]
  BY <1>7 DEF e
<1>9. ASSUME \/ PushError(given, "blueprint error")
             \/ OutOfMemory(given, "blueprint error"),
             heap' = GiveUp(heap, c.job)
      PROVE  Inv'
  BY <1>6, <1>7, <1>8, <1>9 DEF PushError, OutOfMemory, PutError, Event
<1>. QED
  BY <1>3, <1>5, <1>9

(***************************************************************************)
(* All tasks are decoded.                                                  *)
(***************************************************************************)
LEMMA DecodedStep == Inv /\ Decoded => Inv'
<1>. SUFFICES ASSUME Inv, Decoded PROVE Inv'
  OBVIOUS
<1>1. /\ c.pc = "tasks" /\ ~crashed /\ c.left = <<>>
      /\ c' = [c EXCEPT !.pc = "call"]
      /\ UNCHANGED <<peer, worker, heap, fails, conns, crashed>>
  BY DEF Decoded, At
<1>2. /\ c.job # NoJob /\ c.job \in JobType /\ Command \in {"run", "assign"}
      /\ Halfway(JobDocument, c.job, <<>>)
  BY <1>1 DEF Inv, Types, Holds, Told, Decoding
<1>3. JobDocument # NoValue /\ Describes(JobDocument, c.job)
  BY <1>2, AllDone
<1>4. Shape' /\ c'.pc = "call" /\ c'.job = c.job /\ c'.req = c.req
      /\ c'.resp = c.resp /\ c'.status = c.status /\ c'.phase = c.phase
  BY <1>1 DEF Inv, Shape
<1>5. Types'
  BY <1>1, <1>4 DEF Inv, Types, PC
<1>6. Holds'
  BY <1>1, <1>4 DEF Inv, Holds, Before, Busy, Checked
<1>7. Command' = Command /\ JobDocument' = JobDocument
  BY <1>4 DEF Command, JobDocument
<1>8. Told'
  BY <1>1, <1>2, <1>4, <1>7 DEF Inv, Told, Before, Busy, Checked
<1>9. Decoding'
  BY <1>3, <1>4, <1>7 DEF Decoding
<1>10. Balance'
  BY <1>1, <1>4 DEF Inv, Balance, Trees
<1>. QED
  BY <1>1, <1>4, <1>5, <1>6, <1>8, <1>9, <1>10 DEF Inv

(* An object that json_object_push has made.                                *)
Pushed(o) == "t" \in DOMAIN o /\ o.t = "object"

(***************************************************************************)
(* The status of the worker is never NULL.                                 *)
(***************************************************************************)
LEMMA StatusFacts == \A w : \A s \in Statuses(w) : s # NoValue
<1>1. \A o, name, v : Pushed(o) => Pushed(json_object_push(o, name, v))
  <2>. SUFFICES ASSUME NEW o, NEW name, NEW v, Pushed(o)
                PROVE  Pushed(json_object_push(o, name, v))
    OBVIOUS
  <2>. DEFINE x == Append(o.k, [name |-> name, val |-> v])
  <2>1. json_object_push(o, name, v) = [o EXCEPT !.k = x]
    BY Zenon DEF json_object_push
  <2>. HIDE DEF x
  <2>. QED
    BY <2>1 DEF Pushed
<1>2. Pushed(EmptyObject)
  BY DEF Pushed, EmptyObject, Value
<1>3. \A o, name, s : Pushed(o) => Pushed(json_object_push_string(o, name, s))
  BY <1>1, Zenon DEF json_object_push_string
<1>4. ASSUME NEW ws, NEW j, NEW js, NEW ts
      PROVE  Pushed(pyoneer_worker_get_status(ws, j, js, ts))
  <2>1. Pushed(get_status(ws, j, js, ts))
    BY <1>1, <1>2, Zenon DEF get_status
  <2>. QED
    BY <1>1, <1>3, <2>1, Zenon DEF pyoneer_worker_get_status, json_object_push_integer
<1>5. \A o : Pushed(o) => o.t = "object"
  BY DEF Pushed
<1>6. \A o : Pushed(o) => o # NoValue
  BY <1>5, ValueFacts
<1>7. ASSUME NEW w, NEW s \in Statuses(w)
      PROVE  \E ws, js, ts : s = pyoneer_worker_get_status(ws, w.job, js, ts)
  BY DEF Statuses
<1>. QED
  BY <1>4, <1>6, <1>7

(***************************************************************************)
(* The worker takes the job: the old one is freed, and the new one is      *)
(* counted as the worker's.                                                *)
(***************************************************************************)
LEMMA TakenStep ==
  ASSUME Inv, c.pc = "call", ~crashed,
         UNCHANGED <<peer, conns, crashed, fails>>,
         Command \in {"run", "assign"}, Command = "run" => c.job.tasks # <<>>,
         worker' = [worker EXCEPT !.job = c.job, !.ran = (Command = "run"),
                                  !.taken = @ + 1],
         NEW s, s # NoValue,
         c' = [c EXCEPT !.pc = "push", !.job = NoJob, !.status = s,
                        !.phase = "applied"],
         heap' = [job_destroy(heap, worker.job) EXCEPT !.json = @ + 1]
  PROVE  Inv'
<1>1. /\ c.job # NoJob /\ c.job \in JobType /\ c.resp = EmptyObject
      /\ c.req # NoValue /\ c.status = NoValue /\ worker.job \in JobType
      /\ worker.taken \in Nat
  BY DEF Inv, Types, Holds, Told, Busy, Checked
<1>2. c'.pc = "push" /\ c'.job = NoJob /\ c'.req = c.req /\ c'.resp = c.resp
      /\ c'.status = s /\ c'.phase = "applied"
      /\ c' = [pc |-> c'.pc, buf |-> c'.buf, resp |-> c'.resp, req |-> c'.req,
               job |-> c'.job, left |-> c'.left, status |-> c'.status,
               out |-> c'.out, phase |-> c'.phase]
  BY DEF Inv, Shape
<1>3. worker'.job = c.job /\ worker'.ran = (Command = "run")
      /\ worker'.taken = worker.taken + 1
      /\ worker' = [job |-> worker'.job, ran |-> worker'.ran, taken |-> worker'.taken]
  BY DEF Inv, Shape
<1>4. /\ Named(worker.job) \in Nat /\ Len(worker.job.tasks) \in Nat
      /\ CountJob(worker.job) \in Nat
      /\ Named(c.job) \in Nat /\ Len(c.job.tasks) \in Nat /\ CountJob(c.job) = 1
  BY <1>1, Numbers DEF CountJob
<1>5. /\ heap'.json = heap.json + 1 /\ heap'.lost = heap.lost
      /\ heap'.blueprint = heap.blueprint
      /\ heap' = [json |-> heap'.json, blueprint |-> heap'.blueprint,
                  job |-> heap'.job, task |-> heap'.task, name |-> heap'.name,
                  node |-> heap'.node, lost |-> heap'.lost]
  BY DEF Inv, Shape, job_destroy
<1>6. /\ heap'.job = heap.job - CountJob(worker.job)
      /\ heap'.task = heap.task - Len(worker.job.tasks)
      /\ heap'.name = heap.name - Named(worker.job)
      /\ heap'.node = heap.node - Len(worker.job.tasks)
  <2>1. CASE worker.job = NoJob
    <3>1. /\ heap'.job = heap.job /\ heap'.task = heap.task
          /\ heap'.name = heap.name /\ heap'.node = heap.node
      BY <2>1 DEF Inv, Shape, job_destroy
    <3>2. /\ CountJob(worker.job) = 0 /\ Named(worker.job) = 0
          /\ Len(worker.job.tasks) = 0
      BY <2>1, Numbers
    <3>3. heap.job \in Int /\ heap.task \in Int /\ heap.name \in Int /\ heap.node \in Int
      BY <1>4 DEF Inv, Balance
    <3>. QED
      BY <3>1, <3>2, <3>3
  <2>2. CASE worker.job # NoJob
    <3>1. CountJob(worker.job) = 1
      BY <2>2 DEF CountJob
    <3>2. /\ heap'.job = heap.job - 1
          /\ heap'.task = heap.task - Len(worker.job.tasks)
          /\ heap'.name = heap.name - Named(worker.job)
          /\ heap'.node = heap.node - Len(worker.job.tasks)
      BY <2>2 DEF Inv, Shape, job_destroy
    <3>. QED
      BY <3>1, <3>2
  <2>. QED
    BY <2>1, <2>2
<1>7. Shape'
  BY <1>2, <1>3, <1>5 DEF Inv, Shape
<1>8. Types'
  <2>1. worker'.ran \in BOOLEAN /\ (worker'.ran => worker'.job.tasks # <<>>)
    BY <1>3, Zenon
  <2>2. /\ worker'.job \in JobType /\ worker'.taken \in Nat /\ c'.job \in JobType
        /\ c'.pc \in PC /\ c'.phase \in {"closed", "open", "applied", "replied"}
    BY <1>1, <1>2, <1>3, NoJobFacts DEF PC
  <2>3. /\ peer'.state \in {"away", "silent", "waiting", "gone"}
        /\ crashed' \in BOOLEAN /\ fails' \in 0..MaxFails /\ conns' \in 0..MaxConns
    BY Zenon DEF Inv, Types
  <2>. QED
    BY <2>1, <2>2, <2>3, Zenon DEF Types
<1>9. Holds'
  BY <1>1, <1>2 DEF Holds, Before, Busy, Checked
<1>10. Told' /\ Decoding'
  BY <1>2 DEF Inv, Told, Decoding, Before, Busy, Checked
<1>11. Trees = 2 /\ Trees' = 3
  <2>1. EmptyObject # NoValue
    BY Answers
  <2>. QED
    BY <1>1, <1>2, <2>1 DEF Trees, Count
<1>12. Balance'
  <2>1. /\ heap.blueprint = worker.taken + 1
        /\ heap.job = CountJob(worker.job) + 1
        /\ heap.name = Named(worker.job) + Named(c.job)
        /\ heap.node = heap.task /\ heap.json = heap.lost + 2
        /\ heap.lost \in Nat /\ (heap.lost > 0 => fails > 0)
    BY <1>4, <1>11 DEF Inv, Balance
  <2>2. heap.task = Len(worker.job.tasks) + Len(c.job.tasks)
    BY <1>4 DEF Inv, Balance
  <2>3. heap'.json = heap'.lost + Trees' /\ heap'.lost \in Nat /\ (heap'.lost > 0 => fails' > 0)
    BY <1>5, <1>11, <2>1
  <2>4. heap'.blueprint = worker'.taken + CountJob(NoJob)
    BY <1>1, <1>3, <1>5, <2>1, Numbers
  <2>5. heap'.job = CountJob(c.job) + CountJob(NoJob)
    BY <1>4, <1>6, <2>1, Numbers
  <2>6. heap'.name = Named(c.job) + Named(NoJob)
    BY <1>4, <1>6, <2>1, Numbers
  <2>7. heap'.task = Len(c.job.tasks) + Len(NoJob.tasks) /\ heap'.node = heap'.task
    <3>. DEFINE a == Len(worker.job.tasks)
                b == Len(c.job.tasks)
    <3>1. /\ a \in Nat /\ b \in Nat /\ heap.task = a + b /\ heap'.task = heap.task - a
          /\ heap.node = heap.task /\ heap'.node = heap.node - a
      BY <1>4, <1>6, <2>1, <2>2
    <3>. HIDE DEF a, b
    <3>2. heap'.task = b + 0 /\ heap'.node = heap'.task
      BY <3>1
    <3>. QED
      BY <3>2, Numbers DEF b
  <2>. QED
    BY <1>2, <1>3, <2>3, <2>4, <2>5, <2>6, <2>7 DEF Balance
<1>. QED
  BY <1>7, <1>8, <1>9, <1>10, <1>12 DEF Inv

(***************************************************************************)
(* The call of the worker.                                                 *)
(***************************************************************************)
LEMMA CallStep == Inv /\ Call => Inv'
<1>. SUFFICES ASSUME Inv, Call PROVE Inv'
  OBVIOUS
<1>1. c.pc = "call" /\ ~crashed /\ UNCHANGED <<peer, conns, crashed>>
  BY DEF Call, At
<1>2. /\ c.resp = EmptyObject /\ c.req # NoValue /\ c.status = NoValue
      /\ c.phase = "open" /\ (c.job # NoJob <=> Command \in {"run", "assign"})
  BY <1>1 DEF Inv, Holds, Told, Before, Busy, Checked
<1>3. EmptyObject # NoValue /\ ~HasError(EmptyObject)
  BY Answers
<1>4. ASSUME Take PROVE Inv'
  <2>1. CASE /\ Command = "run" => c.job.tasks # <<>>
             /\ LET w == [worker EXCEPT !.job = c.job, !.ran = (Command = "run"),
                                        !.taken = @ + 1]
                IN  /\ worker' = w
                    /\ \E s \in Statuses(w) :
                         c' = [c EXCEPT !.pc = "push", !.job = NoJob,
                                        !.status = s, !.phase = "applied"]
             /\ heap' = [job_destroy(heap, worker.job) EXCEPT !.json = @ + 1]
             /\ UNCHANGED fails
    <3>. DEFINE w == [worker EXCEPT !.job = c.job, !.ran = (Command = "run"),
                                    !.taken = @ + 1]
    <3>1. PICK s \in Statuses(w) :
            c' = [c EXCEPT !.pc = "push", !.job = NoJob, !.status = s,
                           !.phase = "applied"]
      BY <2>1, Zenon
    <3>2. s # NoValue
      BY <3>1, StatusFacts, Zenon
    <3>3. Command \in {"run", "assign"}
      BY <1>4, Zenon DEF Take
    <3>. QED
      BY <1>1, <2>1, <3>1, <3>2, <3>3, TakenStep, Zenon
  <2>2. CASE /\ c' = [c EXCEPT !.pc = "push"] /\ UNCHANGED <<worker, heap>>
             /\ fails' = fails \/ (fails < MaxFails /\ fails' = fails + 1)
    <3>1. Shape' /\ c'.pc = "push" /\ c'.job = c.job /\ c'.req = c.req
          /\ c'.resp = c.resp /\ c'.status = c.status /\ c'.phase = c.phase
      BY <1>1, <2>2 DEF Inv, Shape
    <3>2. fails' \in 0..MaxFails /\ (heap.lost > 0 => fails' > 0)
      BY <2>2, Failing
    <3>3. Types'
      BY <1>1, <2>2, <3>1, <3>2 DEF Inv, Types, PC
    <3>4. c.job # NoJob
      BY <1>2, <1>4 DEF Take
    <3>5. Holds'
      BY <1>2, <3>1, <3>4 DEF Holds, Before, Busy, Checked
    <3>6. Told' /\ Decoding'
      BY <1>1, <3>1 DEF Inv, Told, Decoding, Before, Busy, Checked
    <3>7. Balance'
      BY <1>1, <2>2, <3>1, <3>2 DEF Inv, Balance, Trees
    <3>. QED
      BY <1>1, <3>1, <3>3, <3>5, <3>6, <3>7 DEF Inv
  <2>. QED
    BY <1>4, <2>1, <2>2, Zenon DEF Take, Event
<1>5. ASSUME GetStatus PROVE Inv'
  <2>1. PICK s \in Statuses(worker) : c' = [c EXCEPT !.pc = "push", !.status = s]
    BY <1>5 DEF GetStatus
  <2>2. s # NoValue
    BY StatusFacts
  <2>3. /\ heap' = [heap EXCEPT !.json = @ + 1] /\ UNCHANGED <<worker, fails>>
        /\ c.job = NoJob
    BY <1>2, <1>5 DEF GetStatus
  <2>4. Shape' /\ c'.pc = "push" /\ c'.job = c.job /\ c'.req = c.req
        /\ c'.resp = c.resp /\ c'.status = s /\ c'.phase = c.phase
    BY <1>1, <2>1, <2>3 DEF Inv, Shape
  <2>5. Types'
    BY <1>1, <2>3, <2>4 DEF Inv, Types, PC
  <2>6. Holds'
    BY <1>2, <2>2, <2>3, <2>4 DEF Holds, Before, Busy, Checked
  <2>7. Told' /\ Decoding'
    BY <1>1, <2>4 DEF Inv, Told, Decoding, Before, Busy, Checked
  <2>8. Trees = 2 /\ Trees' = 3
    BY <1>2, <1>3, <2>2, <2>4 DEF Trees, Count
  <2>9. /\ heap'.json = heap.json + 1 /\ heap'.lost = heap.lost
        /\ heap'.blueprint = heap.blueprint /\ heap'.job = heap.job
        /\ heap'.task = heap.task /\ heap'.name = heap.name
        /\ heap'.node = heap.node
    BY <2>3 DEF Inv, Shape
  <2>10. Balance'
    <3>1. heap.lost \in Nat /\ (heap.lost > 0 => fails > 0) /\ heap.json = heap.lost + Trees
      BY DEF Inv, Balance
    <3>. QED
      BY <2>3, <2>4, <2>8, <2>9, <3>1, Books DEF Inv
  <2>. QED
    BY <1>1, <2>4, <2>5, <2>6, <2>7, <2>10 DEF Inv
<1>6. ASSUME Control PROVE Inv'
  <2>1. PICK ran \in BOOLEAN :
          /\ ran => worker.ran \/ worker.job.tasks # <<>>
          /\ worker' = [worker EXCEPT !.ran = ran]
    BY <1>6 DEF Control
  <2>2. /\ c' = [c EXCEPT !.pc = "answer", !.phase = "applied"]
        /\ UNCHANGED <<heap, fails>> /\ c.job = NoJob
    BY <1>2, <1>6 DEF Control, Signals
  <2>3. Shape' /\ c'.pc = "answer" /\ c'.job = c.job /\ c'.req = c.req
        /\ c'.resp = c.resp /\ c'.status = c.status /\ c'.phase = "applied"
    BY <1>1, <2>1, <2>2 DEF Inv, Shape
  <2>4. worker'.job = worker.job /\ worker'.ran = ran /\ worker'.taken = worker.taken
    BY <2>1 DEF Inv, Shape
  <2>5. Types'
    <3>1. worker'.ran \in BOOLEAN /\ (worker'.ran => worker'.job.tasks # <<>>)
      BY <2>1, <2>4, Zenon DEF Inv, Types
    <3>. QED
      BY <1>1, <2>2, <2>3, <2>4, <3>1 DEF Inv, Types, PC
  <2>6. Holds'
    BY <1>2, <1>3, <2>2, <2>3 DEF Holds, Before, Busy, Checked
  <2>7. Told' /\ Decoding'
    BY <1>1, <2>3 DEF Inv, Told, Decoding, Before, Busy, Checked
  <2>8. Balance'
    BY <1>1, <2>2, <2>3, <2>4 DEF Inv, Balance, Trees
  <2>. QED
    BY <1>1, <2>3, <2>5, <2>6, <2>7, <2>8 DEF Inv
<1>. QED
  BY <1>4, <1>5, <1>6 DEF Call

(***************************************************************************)
(* Of a status that could not be completed at most one value is lost.      *)
(***************************************************************************)
LEMMA LostMember ==
  ASSUME NEW o, NEW plain, NEW made, NEW x \in Lacking(o, plain, made)
  PROVE  x[2] \in {0, 1}
<1>1. PICK y, m : x = <<y, IF m \in plain THEN 1 ELSE 0>>
  BY Zenon DEF Lacking
<1>. QED
  BY <1>1

LEMMA LostMembers ==
  ASSUME NEW s
  PROVE  \A x \in Incomplete(s) : x[2] \in {0, 1}
<1>. DEFINE job   == s.k[2].val
            tasks == job.k[2].val.k
            InTask(i) ==
              {<<[s EXCEPT !.k[2].val.k[2].val.k[i].val = x[1]], x[2]>> :
                 x \in Lacking(tasks[i].val, {"status"}, {"name"})}
            InJob ==
              {<<[s EXCEPT !.k[2].val = x[1]], x[2]>> :
                 x \in Lacking(job, {"status", "tasks"}, {"id"})}
            Top == Lacking(s, {"status", "job"}, {"role", "id"})
<1>1. Incomplete(s) =
        Top \cup (IF job = Null THEN {}
                  ELSE InJob \cup UNION {InTask(i) : i \in DOMAIN tasks})
  BY Zenon DEF Incomplete
<1>2. \A x \in Top : x[2] \in {0, 1}
  BY LostMember, Zenon
<1>3. ASSUME NEW y, NEW l \in {0, 1} PROVE <<y, l>>[2] \in {0, 1}
  OBVIOUS
<1>4. \A x \in InJob : x[2] \in {0, 1}
  BY <1>3, LostMember, Zenon
<1>5. \A i : \A x \in InTask(i) : x[2] \in {0, 1}
  BY <1>3, LostMember, Zenon
<1>. HIDE DEF Top, InJob, InTask, job, tasks
<1>. QED
  BY <1>1, <1>2, <1>4, <1>5, Zenon

(***************************************************************************)
(* The status goes into the answer, is lost, or brings the process down.   *)
(***************************************************************************)
LEMMA PushStep == Inv /\ Push => Inv'
<1>. SUFFICES ASSUME Inv, Push PROVE Inv'
  OBVIOUS
<1>1. c.pc = "push" /\ ~crashed /\ UNCHANGED <<worker, conns>>
  BY DEF Push, At
<1>2. /\ c.resp = EmptyObject /\ c.phase \in {"open", "applied"}
      /\ (c.job = NoJob <=> c.status # NoValue)
  BY <1>1 DEF Inv, Holds
<1>3. EmptyObject # NoValue /\ ~HasError(EmptyObject)
      /\ \A v : /\ json_object_push(EmptyObject, "pyoneer", v) # NoValue
                /\ ~HasError(json_object_push(EmptyObject, "pyoneer", v))
  BY Answers
<1>4. CASE Die /\ UNCHANGED heap /\ (fails' = fails \/ Event)
  BY <1>1, <1>4, Dead DEF Event
<1>5. ASSUME NEW r, r = EmptyObject \/ \E v : r = json_object_push(EmptyObject, "pyoneer", v),
             c' = [c EXCEPT !.pc = "answer", !.status = NoValue, !.resp = r],
             c.status # NoValue, NEW l \in {0, 1},
             heap' = [heap EXCEPT !.json = @ - 1 + l, !.lost = @ + l],
             UNCHANGED <<crashed, peer>>,
             \/ fails' = fails /\ l = 0
             \/ fails < MaxFails /\ fails' = fails + 1
      PROVE  Inv'
  <2>1. r # NoValue /\ ~HasError(r)
    BY <1>3, <1>5, Zenon
  <2>2. Shape' /\ c'.pc = "answer" /\ c'.job = NoJob /\ c'.req = c.req
        /\ c'.resp = r /\ c'.status = NoValue /\ c'.phase = c.phase /\ c'.job = c.job
    BY <1>1, <1>2, <1>5 DEF Inv, Shape
  <2>3. fails' \in 0..MaxFails
    BY <1>5, Failing
  <2>4. Types'
    BY <1>1, <1>5, <2>2, <2>3, NoJobFacts DEF Inv, Types, PC
  <2>5. Holds'
    BY <1>2, <2>1, <2>2 DEF Holds, Before, Busy, Checked
  <2>6. Told' /\ Decoding'
    BY <1>1, <1>5, <2>2 DEF Inv, Told, Decoding, Before, Busy, Checked
  <2>7. Trees' = Trees - 1 /\ Trees \in Nat
    BY <1>2, <1>3, <1>5, <2>1, <2>2 DEF Trees, Count
  <2>8. /\ heap'.json = heap.json - 1 + l /\ heap'.lost = heap.lost + l
        /\ heap'.blueprint = heap.blueprint /\ heap'.job = heap.job
        /\ heap'.task = heap.task /\ heap'.name = heap.name
        /\ heap'.node = heap.node
    BY <1>5 DEF Inv, Shape
  <2>9. Balance'
    <3>1. /\ heap.lost \in Nat /\ (heap.lost > 0 => fails > 0) /\ heap.json = heap.lost + Trees
          /\ fails \in Nat
      BY ClientAssumption DEF Inv, Balance, Types
    <3>2. \/ fails' = fails /\ l = 0
          \/ fails < MaxFails /\ fails' = fails + 1
      BY <1>5
    <3>3. heap'.lost \in Nat /\ (heap'.lost > 0 => fails' > 0) /\ heap'.json = heap'.lost + Trees'
      BY <2>7, <2>8, <3>1, <3>2
    <3>. QED
      BY <1>1, <2>2, <2>8, <3>3, Books DEF Inv
  <2>. QED
    BY <1>1, <1>5, <2>2, <2>4, <2>5, <2>6, <2>9 DEF Inv
<1>6. /\ [c EXCEPT !.pc = "answer", !.status = NoValue] =
           [c EXCEPT !.pc = "answer", !.status = NoValue, !.resp = EmptyObject]
      /\ \A v : [c EXCEPT !.pc = "answer", !.status = NoValue,
                          !.resp = json_object_push(@, "pyoneer", v)] =
                [c EXCEPT !.pc = "answer", !.status = NoValue,
                          !.resp = json_object_push(EmptyObject, "pyoneer", v)]
  BY <1>2 DEF Inv, Shape
<1>7. heap.json \in Nat /\ heap.lost \in Nat
  BY DEF Inv, Balance, Trees, Count
<1>8. /\ [heap EXCEPT !.json = @ - 1] = [heap EXCEPT !.json = @ - 1 + 0, !.lost = @ + 0]
      /\ [heap EXCEPT !.lost = @ + 1] = [heap EXCEPT !.json = @ - 1 + 1, !.lost = @ + 1]
  <2>1. \A x, y :
          /\ [heap EXCEPT !.json = x] = [heap EXCEPT !.json = x, !.lost = heap.lost]
          /\ [heap EXCEPT !.lost = y] = [heap EXCEPT !.json = heap.json, !.lost = y]
    BY DEF Inv, Shape
  <2>2. heap.lost + 0 = heap.lost /\ (heap.json - 1) + 0 = heap.json - 1
        /\ (heap.json - 1) + 1 = heap.json
    BY <1>7
  <2>. QED
    BY <2>1, <2>2, Zenon
<1>9. ASSUME c.status # NoValue, UNCHANGED <<fails, crashed, peer>>,
             c' = [c EXCEPT !.pc = "answer", !.status = NoValue,
                            !.resp = json_object_push(@, "pyoneer", c.status)],
             heap' = [heap EXCEPT !.json = @ - 1]
      PROVE  Inv'
  <2>. DEFINE r == json_object_push(EmptyObject, "pyoneer", c.status)
  <2>1. c' = [c EXCEPT !.pc = "answer", !.status = NoValue, !.resp = r]
    BY <1>6, <1>9
  <2>2. heap' = [heap EXCEPT !.json = @ - 1 + 0, !.lost = @ + 0]
    BY <1>8, <1>9
  <2>3. \E v : r = json_object_push(EmptyObject, "pyoneer", v)
    BY Zenon
  <2>4. 0 \in {0, 1} /\ fails' = fails
    BY <1>9
  <2>. HIDE DEF r
  <2>. QED
    BY <1>5, <1>9, <2>1, <2>2, <2>3, <2>4, Zenon
<1>10. ASSUME c.status # NoValue, Event, UNCHANGED <<crashed, peer>>,
              c' = [c EXCEPT !.pc = "answer", !.status = NoValue],
              heap' = [heap EXCEPT !.lost = @ + 1]
       PROVE  Inv'
  <2>1. /\ c' = [c EXCEPT !.pc = "answer", !.status = NoValue, !.resp = EmptyObject]
        /\ heap' = [heap EXCEPT !.json = @ - 1 + 1, !.lost = @ + 1]
    BY <1>6, <1>8, <1>10, Zenon
  <2>2. 1 \in {0, 1}
    OBVIOUS
  <2>. QED
    BY <1>5, <1>10, <2>1, <2>2, Zenon DEF Event
<1>11. ASSUME c.status # NoValue, Event, UNCHANGED <<crashed, peer>>,
              NEW s,
              c' = [c EXCEPT !.pc = "answer", !.status = NoValue,
                             !.resp = json_object_push(@, "pyoneer", s)],
              NEW l \in {0, 1},
              heap' = [heap EXCEPT !.json = @ - 1 + l, !.lost = @ + l]
       PROVE  Inv'
  <2>. DEFINE r == json_object_push(EmptyObject, "pyoneer", s)
  <2>1. c' = [c EXCEPT !.pc = "answer", !.status = NoValue, !.resp = r]
    BY <1>6, <1>11
  <2>2. \E v : r = json_object_push(EmptyObject, "pyoneer", v)
    BY Zenon
  <2>. HIDE DEF r
  <2>. QED
    BY <1>5, <1>11, <2>1, <2>2, Zenon DEF Event
<1>12. \/ /\ c.status # NoValue /\ UNCHANGED <<fails, crashed, peer>>
          /\ c' = [c EXCEPT !.pc = "answer", !.status = NoValue,
                            !.resp = json_object_push(@, "pyoneer", c.status)]
          /\ heap' = [heap EXCEPT !.json = @ - 1]
       \/ /\ c.status # NoValue /\ Event /\ UNCHANGED <<crashed, peer>>
          /\ c' = [c EXCEPT !.pc = "answer", !.status = NoValue]
          /\ heap' = [heap EXCEPT !.lost = @ + 1]
       \/ /\ c.status # NoValue /\ Event /\ UNCHANGED <<crashed, peer>>
          /\ \E s : \E l \in {0, 1} :
               /\ c' = [c EXCEPT !.pc = "answer", !.status = NoValue,
                                 !.resp = json_object_push(@, "pyoneer", s)]
               /\ heap' = [heap EXCEPT !.json = @ - 1 + l, !.lost = @ + l]
       \/ Die /\ UNCHANGED heap /\ (fails' = fails \/ Event)
  <2>1. \A x \in Incomplete(c.status) : x[2] \in {0, 1}
    BY LostMembers
  <2>. QED
    BY <2>1, Zenon DEF Push
<1>. QED
  BY <1>4, <1>9, <1>10, <1>11, <1>12, Zenon

(***************************************************************************)
(* The answer is written and sent, and the connection is closed.           *)
(***************************************************************************)
LEMMA EndSteps == Inv /\ (Answer \/ Send \/ Close) => Inv'
<1>. SUFFICES ASSUME Inv, Answer \/ Send \/ Close PROVE Inv'
  OBVIOUS
<1>1. ~crashed /\ UNCHANGED <<worker, fails, conns, crashed>>
  BY DEF Answer, Send, Close, At
<1>2. ASSUME Answer PROVE Inv'
  <2>. DEFINE out == IF MeasureText(c.resp, default_opts) > BufLen
                     THEN Raw ELSE WriteText(c.resp, default_opts)
  <2>1. /\ c.pc = "answer" /\ UNCHANGED <<peer, heap>>
        /\ c' = [c EXCEPT !.pc = "send", !.out = out]
    BY <1>2 DEF Answer, At
  <2>. HIDE DEF out
  <2>2. Shape' /\ c'.pc = "send" /\ c'.job = c.job /\ c'.req = c.req
        /\ c'.resp = c.resp /\ c'.status = c.status /\ c'.phase = c.phase
    BY <1>1, <2>1 DEF Inv, Shape
  <2>3. Types'
    BY <1>1, <2>1, <2>2 DEF Inv, Types, PC
  <2>4. Holds'
    BY <1>1, <2>1, <2>2 DEF Inv, Holds, Before, Busy, Checked
  <2>5. Told' /\ Decoding'
    BY <1>1, <2>1, <2>2 DEF Inv, Told, Decoding, Before, Busy, Checked
  <2>6. Balance'
    BY <1>1, <2>1, <2>2 DEF Inv, Balance, Trees
  <2>. QED
    BY <1>1, <2>2, <2>3, <2>4, <2>5, <2>6 DEF Inv
<1>3. ASSUME Send PROVE Inv'
  <2>. DEFINE freed == IF c.req = NoValue THEN 1 ELSE 2
  <2>1. c.pc = "send" /\ peer' = peer /\ heap' = [heap EXCEPT !.json = @ - freed]
    BY <1>3 DEF Send, At
  <2>2. PICK phase \in {"replied", c.phase} :
          c' = [c EXCEPT !.pc = "close", !.resp = NoValue, !.req = NoValue,
                         !.phase = phase]
    BY <1>3 DEF Send
  <2>3. /\ c.resp # NoValue /\ c.status = NoValue /\ c.job = NoJob
        /\ c.phase \in {"open", "applied"}
    BY <1>1, <2>1 DEF Inv, Holds
  <2>4. Trees = freed /\ freed \in Nat
    BY <2>3 DEF Trees, Count
  <2>. HIDE DEF freed
  <2>5. Shape' /\ c'.pc = "close" /\ c'.job = c.job /\ c'.req = NoValue
        /\ c'.resp = NoValue /\ c'.status = c.status /\ c'.phase = phase
    BY <1>1, <2>1, <2>2 DEF Inv, Shape
  <2>6. Types'
    BY <1>1, <2>1, <2>3, <2>5 DEF Inv, Types, PC
  <2>7. Holds'
    BY <2>3, <2>5 DEF Holds, Before, Busy, Checked
  <2>8. Told' /\ Decoding'
    BY <1>1, <2>1, <2>5 DEF Inv, Told, Decoding, Before, Busy, Checked
  <2>9. Balance'
    <3>1. /\ heap'.json = heap.json - freed /\ heap'.lost = heap.lost
          /\ heap'.blueprint = heap.blueprint /\ heap'.job = heap.job
          /\ heap'.task = heap.task /\ heap'.name = heap.name
          /\ heap'.node = heap.node
      BY <2>1 DEF Inv, Shape
    <3>2. heap.lost \in Nat /\ (heap.lost > 0 => fails > 0) /\ heap.json = heap.lost + Trees
      BY DEF Inv, Balance
    <3>3. Trees' = 0
      BY <2>3, <2>5 DEF Trees, Count
    <3>4. heap'.json = heap'.lost + Trees'
      BY <2>4, <3>1, <3>2, <3>3
    <3>. QED
      BY <1>1, <2>5, <3>1, <3>2, <3>4, Books DEF Inv
  <2>. QED
    BY <1>1, <2>5, <2>6, <2>7, <2>8, <2>9 DEF Inv
<1>4. ASSUME Close PROVE Inv'
  <2>1. /\ c.pc = "close" /\ heap' = heap
        /\ c' = [pc |-> "idle", buf |-> <<>>, resp |-> NoValue, req |-> NoValue,
                 job |-> NoJob, left |-> <<>>, status |-> NoValue, out |-> <<>>,
                 phase |-> "closed"]
        /\ peer' = [state |-> "away", text |-> <<>>, sent |-> <<>>]
        /\ c' = NoConn /\ peer' = NoPeer
    BY <1>4 DEF Close, At, NoConn, NoPeer
  <2>2. c.resp = NoValue /\ c.req = NoValue /\ c.status = NoValue /\ c.job = NoJob
    BY <1>1, <2>1 DEF Inv, Holds
  <2>3. Shape'
    BY <1>1, <2>1 DEF Inv, Shape
  <2>4. Types'
    BY <1>1, <2>1, NoJobFacts DEF Inv, Types, PC
  <2>5. Holds' /\ Told' /\ Decoding'
    BY <2>1 DEF Holds, Told, Decoding, Before, Busy, Checked
  <2>6. Balance'
    <3>1. c'.job = c.job /\ Trees' = Trees
      BY <2>1, <2>2 DEF Trees
    <3>. QED
      BY <1>1, <2>1, <3>1 DEF Inv, Balance
  <2>. QED
    BY <2>3, <2>4, <2>5, <2>6 DEF Inv
<1>. QED
  BY <1>2, <1>3, <1>4

(***************************************************************************)
(* Nothing changes.                                                        *)
(***************************************************************************)
LEMMA StutterStep == Inv /\ UNCHANGED vars => Inv'
<1>. SUFFICES ASSUME Inv, UNCHANGED vars PROVE Inv'
  OBVIOUS
<1>. USE DEF vars
<1>1. Shape'
  BY DEF Inv, Shape
<1>2. Types'
  BY DEF Inv, Types
<1>3. (~crashed => Holds /\ Told /\ Decoding)'
  BY DEF Inv, Holds, Told, Decoding, Command, JobDocument
<1>4. Balance'
  BY DEF Inv, Balance, Trees
<1>. QED
  BY <1>1, <1>2, <1>3, <1>4 DEF Inv

(***************************************************************************)
(* Every step preserves the invariant.                                     *)
(***************************************************************************)
LEMMA Inductive == Inv /\ [Next]_vars => Inv'
<1>. SUFFICES ASSUME Inv, [Next]_vars PROVE Inv'
  OBVIOUS
<1>1. CASE Handler
  BY <1>1, RecvStep, RecvEnds, NewRespStep, ParseStep, CheckStep, DispatchStep,
     DecodeStep, DecodeTaskStep, DecodedStep, CallStep, PushStep, EndSteps
     DEF Handler
<1>2. CASE Connect \/ RecvErr \/ ClientClose \/ \E t \in Texts : ClientSend(t)
  BY <1>2, ConnectStep, RecvEnds, PeerStep
<1>3. CASE Ended \/ UNCHANGED vars
  BY <1>3, StutterStep DEF Ended
<1>. QED
  BY <1>1, <1>2, <1>3 DEF Next

-----------------------------------------------------------------------------
(* What follows from the invariant.                                         *)

(***************************************************************************)
(* The invariant holds in every reachable state: the pointers of the       *)
(* handler, the text it has, the job half decoded and the books agree.     *)
(***************************************************************************)
THEOREM Invariant == Spec => []Inv
<1>. QED
  BY InitHolds, Inductive, PTL DEF Spec

(***************************************************************************)
(* Nothing is freed twice, and the worker's id is an int: TypeOK, for any  *)
(* texts and any failures of memory.                                       *)
(***************************************************************************)
THEOREM TypeCorrect == Spec => []TypeOK
<1>1. Inv => TypeOK
  <2>. SUFFICES ASSUME Inv PROVE TypeOK
    OBVIOUS
  <2>1. /\ Named(worker.job) \in Nat /\ Len(worker.job.tasks) \in Nat
        /\ CountJob(worker.job) \in Nat /\ worker.taken \in Nat
        /\ Named(c.job) \in Nat /\ Len(c.job.tasks) \in Nat /\ CountJob(c.job) \in Nat
    BY Numbers DEF Inv, Types
  <2>2. Trees \in Nat
    BY DEF Trees, Count
  <2>3. heap.lost \in Nat /\ heap.json = heap.lost + Trees
        /\ heap.blueprint = worker.taken + CountJob(c.job)
        /\ heap.job = CountJob(worker.job) + CountJob(c.job)
        /\ heap.name = Named(worker.job) + Named(c.job)
    BY DEF Inv, Balance
  <2>4. heap.task = Len(worker.job.tasks) + Len(c.job.tasks) /\ heap.node = heap.task
    BY DEF Inv, Balance
  <2>5. heap.json \in Nat /\ heap.blueprint \in Nat /\ heap.job \in Nat /\ heap.name \in Nat
    <3>1. \A m, n \in Nat : m + n \in Nat
      OBVIOUS
    <3>. QED
      BY <2>1, <2>2, <2>3, <3>1, Zenon
  <2>6. heap.task \in Nat /\ heap.node \in Nat
    <3>1. \A m, n \in Nat : m + n \in Nat
      OBVIOUS
    <3>. QED
      BY <2>1, <2>4, <3>1, Zenon
  <2>7. heap \in [json : Nat, blueprint : Nat, job : Nat, task : Nat, name : Nat,
                  node : Nat, lost : Nat]
    BY <2>3, <2>5, <2>6 DEF Inv, Shape
  <2>8. worker.job.id \in 0..IntMax
    <3>. DEFINE j == worker.job
    <3>1. j \in JobType
      BY DEF Inv, Types
    <3>. HIDE DEF j
    <3>2. j.id \in 0..IntMax
      BY <3>1 DEF JobType
    <3>. QED
      BY <3>2 DEF j
  <2>. QED
    BY <2>7, <2>8, Zenon DEF Inv, Types, TypeOK
<1>. QED
  BY <1>1, Invariant, PTL

(***************************************************************************)
(* A heap with some of its counters replaced.                              *)
(***************************************************************************)
LEMMA Replaced ==
  ASSUME NEW h, h = [json |-> h.json, blueprint |-> h.blueprint, job |-> h.job,
                     task |-> h.task, name |-> h.name, node |-> h.node,
                     lost |-> h.lost],
         NEW x, NEW y, NEW z
  PROVE  /\ [h EXCEPT !.job = x, !.task = y, !.node = y, !.name = z] =
              [json |-> h.json, blueprint |-> h.blueprint, job |-> x, task |-> y,
               name |-> z, node |-> y, lost |-> h.lost]
         /\ [h EXCEPT !.job = x].task = h.task
         /\ [h EXCEPT !.job = x, !.task = y].node = h.node
         /\ [h EXCEPT !.job = x, !.task = y, !.node = y].name = h.name
<1>1. ASSUME NEW r, r = [h EXCEPT !.job = x, !.task = y, !.node = y, !.name = z]
      PROVE  r = [json |-> h.json, blueprint |-> h.blueprint, job |-> x,
                  task |-> y, name |-> z, node |-> y, lost |-> h.lost]
  <2>1. /\ r.json = h.json /\ r.blueprint = h.blueprint /\ r.job = x
        /\ r.task = y /\ r.name = z /\ r.node = y /\ r.lost = h.lost
    BY <1>1
  <2>2. r = [json |-> r.json, blueprint |-> r.blueprint, job |-> r.job,
             task |-> r.task, name |-> r.name, node |-> r.node, lost |-> r.lost]
    BY <1>1
  <2>. QED
    BY <2>1, <2>2, Zenon
<1>2. /\ [h EXCEPT !.job = x].task = h.task
      /\ [h EXCEPT !.job = x, !.task = y].node = h.node
      /\ [h EXCEPT !.job = x, !.task = y, !.node = y].name = h.name
  OBVIOUS
<1>. QED
  BY <1>1, <1>2, Zenon

(***************************************************************************)
(* Between two connections nothing is left but the worker's job, one       *)
(* Blueprint for every job taken, and what was lost for want of memory:    *)
(* MemoryBalance.                                                          *)
(***************************************************************************)
THEOREM Memory == Spec => []MemoryBalance
<1>1. Inv => MemoryBalance
  <2>. SUFFICES ASSUME Inv, c.pc = "idle", ~crashed
                PROVE  heap = [(IF worker.job = NoJob THEN NoHeap
                                ELSE Plus(NoHeap, worker.job))
                                 EXCEPT !.blueprint = worker.taken,
                                        !.json = heap.lost, !.lost = heap.lost]
    BY DEF Inv, Balance, MemoryBalance, At
  <2>1. c.resp = NoValue /\ c.req = NoValue /\ c.status = NoValue /\ c.job = NoJob
    BY DEF Inv, Holds, NoConn
  <2>2. Trees = 0
    BY <2>1 DEF Trees, Count
  <2>3. /\ Named(worker.job) \in Nat /\ Len(worker.job.tasks) \in Nat
        /\ CountJob(worker.job) \in Nat /\ worker.taken \in Nat
    BY Numbers DEF Inv, Types
  <2>4. /\ heap.lost \in Nat /\ heap.json = heap.lost /\ heap.blueprint = worker.taken
        /\ heap.job = CountJob(worker.job) /\ heap.name = Named(worker.job)
        /\ heap.task = Len(worker.job.tasks) /\ heap.node = heap.task
    BY <2>1, <2>2, <2>3, Numbers DEF Inv, Balance
  <2>5. heap = [json |-> heap.json, blueprint |-> heap.blueprint, job |-> heap.job,
                task |-> heap.task, name |-> heap.name, node |-> heap.node,
                lost |-> heap.lost]
    BY DEF Inv, Shape
  <2>. DEFINE l == heap.lost
              w == worker.taken
              a == Len(worker.job.tasks)
              b == Named(worker.job)
              p == Plus(NoHeap, worker.job)
  <2>6. /\ NoHeap.json = 0 /\ NoHeap.blueprint = 0 /\ NoHeap.job = 0
        /\ NoHeap.task = 0 /\ NoHeap.name = 0 /\ NoHeap.node = 0 /\ NoHeap.lost = 0
        /\ NoHeap = [json |-> NoHeap.json, blueprint |-> NoHeap.blueprint,
                     job |-> NoHeap.job, task |-> NoHeap.task,
                     name |-> NoHeap.name, node |-> NoHeap.node,
                     lost |-> NoHeap.lost]
    BY DEF NoHeap
  <2>7. CASE worker.job = NoJob
    <3>1. heap.job = 0 /\ heap.task = 0 /\ heap.name = 0 /\ heap.node = 0
      BY <2>4, <2>7, Numbers
    <3>2. [NoHeap EXCEPT !.blueprint = w, !.json = l, !.lost = l] =
            [json |-> l, blueprint |-> w, job |-> 0, task |-> 0, name |-> 0,
             node |-> 0, lost |-> l]
      <4>. HIDE DEF l, w
      <4>1. PICK r : r = [NoHeap EXCEPT !.blueprint = w, !.json = l, !.lost = l]
        BY Zenon
      <4>2. /\ r.json = l /\ r.blueprint = w /\ r.job = 0 /\ r.task = 0
            /\ r.name = 0 /\ r.node = 0 /\ r.lost = l
        BY <4>1, <2>6
      <4>3. r = [json |-> r.json, blueprint |-> r.blueprint, job |-> r.job,
                 task |-> r.task, name |-> r.name, node |-> r.node, lost |-> r.lost]
        BY <4>1, <2>6
      <4>4. r = [json |-> l, blueprint |-> w, job |-> 0, task |-> 0,
                 name |-> 0, node |-> 0, lost |-> l]
        BY <4>2, <4>3, Zenon
      <4>. QED
        BY <4>1, <4>4, Zenon
    <3>3. heap = [json |-> l, blueprint |-> w, job |-> 0, task |-> 0, name |-> 0,
                  node |-> 0, lost |-> l]
      BY <2>4, <2>5, <3>1
    <3>. QED
      BY <2>7, <3>2, <3>3, Zenon
  <2>8. CASE worker.job # NoJob
    <3>1. heap.job = 1 /\ heap.task = a /\ heap.name = b /\ heap.node = a
      BY <2>4, <2>8 DEF CountJob
    <3>2. 0 + 1 = 1 /\ 0 + a = a /\ 0 + b = b
      BY <2>3
    <3>3. p = [NoHeap EXCEPT !.job = @ + 1, !.task = @ + a, !.node = @ + a,
                             !.name = @ + b]
      BY Zenon DEF Plus
    <3>. HIDE DEF l, w, a, b, p
    <3>4. p = [NoHeap EXCEPT !.job = 1, !.task = a, !.node = a, !.name = b]
      <4>1. /\ [NoHeap EXCEPT !.job = 1].task = 0
            /\ [NoHeap EXCEPT !.job = 1, !.task = a].node = 0
            /\ [NoHeap EXCEPT !.job = 1, !.task = a, !.node = a].name = 0
        BY <2>6, Replaced
      <4>. QED
        BY <2>6, <3>2, <3>3, <4>1
    <3>5. p = [json |-> 0, blueprint |-> 0, job |-> 1, task |-> a, name |-> b,
               node |-> a, lost |-> 0]
      BY <2>6, <3>4, Replaced
    <3>6. /\ p.json = 0 /\ p.blueprint = 0 /\ p.job = 1 /\ p.task = a /\ p.name = b
          /\ p.node = a /\ p.lost = 0
          /\ p = [json |-> p.json, blueprint |-> p.blueprint, job |-> p.job,
                  task |-> p.task, name |-> p.name, node |-> p.node,
                  lost |-> p.lost]
      BY <3>5
    <3>7. [p EXCEPT !.blueprint = w, !.json = l, !.lost = l] =
            [json |-> l, blueprint |-> w, job |-> 1, task |-> a, name |-> b,
             node |-> a, lost |-> l]
      <4>1. PICK r : r = [p EXCEPT !.blueprint = w, !.json = l, !.lost = l]
        BY Zenon
      <4>2. /\ r.json = l /\ r.blueprint = w /\ r.job = 1 /\ r.task = a
            /\ r.name = b /\ r.node = a /\ r.lost = l
        BY <4>1, <3>6
      <4>3. r = [json |-> r.json, blueprint |-> r.blueprint, job |-> r.job,
                 task |-> r.task, name |-> r.name, node |-> r.node, lost |-> r.lost]
        BY <4>1, <3>6
      <4>4. r = [json |-> l, blueprint |-> w, job |-> 1, task |-> a,
                 name |-> b, node |-> a, lost |-> l]
        BY <4>2, <4>3, Zenon
      <4>. QED
        BY <4>1, <4>4, Zenon
    <3>8. heap = [json |-> l, blueprint |-> w, job |-> 1, task |-> a, name |-> b,
                  node |-> a, lost |-> l]
      BY <2>4, <2>5, <3>1 DEF l, w
    <3>. QED
      BY <2>8, <3>7, <3>8, Zenon DEF p, l, w
  <2>. QED
    BY <2>7, <2>8
<1>. QED
  BY <1>1, Invariant, PTL

(* A request that was not turned down.                                      *)
Passed(v) == v # NoValue /\ Refusal(v) = ""

(* The answers that fit in any case.                                        *)
Small == {EmptyObject} \cup {ErrorAnswer(m) : m \in Messages}

(* What is known of an answer and the request that is answered.             *)
Replies ==
  ~crashed =>
    /\ c.pc = "push" => Passed(c.req)
    /\ c.pc \in {"answer", "send"} => c.resp \in Small \/ Passed(c.req)
    /\ c.pc = "send" /\ c.out = Raw => Passed(c.req)

(***************************************************************************)
(* An Error is pushed into the empty answer, or there is no memory for it. *)
(***************************************************************************)
LEMMA SmallAnswer ==
  ASSUME NEW d, NEW m \in Messages, d.resp = EmptyObject,
         "pc" \in DOMAIN d, "resp" \in DOMAIN d,
         PushError(d, m) \/ OutOfMemory(d, m)
  PROVE  c'.pc = "answer" /\ c'.resp \in Small
<1>1. \/ c' = [d EXCEPT !.pc = "answer"]
      \/ c' = [d EXCEPT !.pc = "answer", !.resp =
                 json_object_push(@, "Error", Str(m))]
  BY Zenon DEF PushError, OutOfMemory, PutError
<1>. DEFINE e == json_object_push(EmptyObject, "Error", Str(m))
<1>2. e \in Small /\ EmptyObject \in Small
  BY Zenon DEF Small, ErrorAnswer
<1>3. [d EXCEPT !.pc = "answer", !.resp = json_object_push(@, "Error", Str(m))]
      = [d EXCEPT !.pc = "answer", !.resp = e]
  OBVIOUS
<1>. HIDE DEF e
<1>. QED
  BY <1>1, <1>2, <1>3

(***************************************************************************)
(* Only requests that passed the checks get a status, and no other answer  *)
(* is too long.                                                            *)
(***************************************************************************)
LEMMA RepliesStep == Inv /\ Replies /\ [Next]_vars => Replies'
<1>. SUFFICES ASSUME Inv, Replies, [Next]_vars, ~crashed' PROVE Replies'
  BY DEF Replies
<1>1. /\ "pc" \in DOMAIN c /\ "resp" \in DOMAIN c
      /\ c = [pc |-> c.pc, buf |-> c.buf, resp |-> c.resp, req |-> c.req,
              job |-> c.job, left |-> c.left, status |-> c.status, out |-> c.out,
              phase |-> c.phase]
  BY DEF Inv, Shape
<1>2. At(c.pc) /\ c.pc \in Busy \cup {"parse", "push"} => c.resp = EmptyObject
  BY DEF Inv, Holds, At
<1>3. At(c.pc) /\ c.pc \in Checked => Passed(c.req)
  BY DEF Inv, Holds, Told, Passed, Busy, At
<1>4. ASSUME c'.pc \notin {"push", "answer", "send"} PROVE Replies'
  BY <1>4 DEF Replies
<1>5. ASSUME c'.pc = "answer", c'.resp \in Small PROVE Replies'
  BY <1>5 DEF Replies
<1>6. ASSUME c'.pc \in {"push", "answer"}, c'.req = c.req, Passed(c.req) PROVE Replies'
  BY <1>6 DEF Replies
<1>7. CASE Connect \/ RecvEof \/ RecvErr \/ NewResp \/ Decoded \/ Close
  <2>1. CASE Connect \/ Close
    <3>1. /\ NoConn.pc = "idle"
          /\ [NoConn EXCEPT !.pc = "recv", !.phase = "open"].pc = "recv"
      BY DEF NoConn
    <3>2. c' \in {NoConn, [NoConn EXCEPT !.pc = "recv", !.phase = "open"]}
      BY <2>1, Zenon DEF Connect, Close
    <3>3. c'.pc \in {"idle", "recv"}
      BY <3>1, <3>2, Zenon
    <3>. QED
      BY <1>4, <3>3
  <2>2. CASE RecvEof \/ RecvErr \/ Decoded
    BY <1>1, <1>4, <2>2 DEF RecvEof, RecvErr, Decoded
  <2>3. CASE NewResp
    BY <1>1, <1>4, <2>3 DEF NewResp
  <2>. QED
    BY <1>7, <2>1, <2>2, <2>3
<1>8. CASE Recv
  <2>1. PICK b : c' = [c EXCEPT !.pc = "resp", !.buf = b]
    BY <1>8, Zenon DEF Recv
  <2>. QED
    BY <1>1, <1>4, <2>1
<1>9. CASE Parse
  <2>. DEFINE d == [c EXCEPT !.buf = <<>>]
  <2>1. /\ c.pc = "parse" /\ At(c.pc)
        /\ \/ PushError(d, "invalid JSON payload")
           \/ OutOfMemory(d, "invalid JSON payload")
           \/ \E v : c' = [d EXCEPT !.pc = "check", !.req = v]
    BY <1>9, Zenon DEF Parse, At, Die
  <2>2. d.resp = EmptyObject /\ "pc" \in DOMAIN d /\ "resp" \in DOMAIN d
    BY <1>1, <1>2, <2>1
  <2>3. "invalid JSON payload" \in Messages
    BY DEF Messages
  <2>. HIDE DEF d
  <2>4. CASE \E v : c' = [d EXCEPT !.pc = "check", !.req = v]
    BY <1>4, <2>2, <2>4
  <2>. QED
    BY <1>5, <2>1, <2>2, <2>3, <2>4, SmallAnswer
<1>10. CASE Check
  <2>1. c.pc = "check" /\ c.resp = EmptyObject
    BY <1>2, <1>10 DEF Check, At, Busy
  <2>2. \/ c' = [c EXCEPT !.pc = "dispatch"]
        \/ Refusal(c.req) # "" /\ PushError(c, Refusal(c.req))
    BY <1>10 DEF Check
  <2>3. Refusal(c.req) # "" => Refusal(c.req) \in Messages
    BY DEF Refusal, Messages
  <2>. QED
    BY <1>1, <1>4, <1>5, <2>1, <2>2, <2>3, SmallAnswer
<1>11. CASE Dispatch
  <2>1. c.pc = "dispatch" /\ c.resp = EmptyObject
    BY <1>2, <1>11 DEF Dispatch, At, Busy, Checked
  <2>2. \/ \E p \in {"decode", "call"} : c' = [c EXCEPT !.pc = p]
        \/ PushError(c, "command error")
    BY <1>11 DEF Dispatch
  <2>3. "command error" \in Messages
    BY DEF Messages
  <2>. QED
    BY <1>1, <1>4, <1>5, <2>1, <2>2, <2>3, SmallAnswer
<1>12. CASE Decode \/ DecodeTask
  <2>. DEFINE given == [c EXCEPT !.job = NoJob, !.left = <<>>]
  <2>1. c.pc \in {"decode", "tasks"} /\ c.resp = EmptyObject
    BY <1>2, <1>12 DEF Decode, DecodeTask, At, Busy, Checked
  <2>2. \/ \E x, y : c' = [c EXCEPT !.pc = "tasks", !.job = x, !.left = y]
        \/ c.pc = "tasks" /\ \E x, y : c' = [c EXCEPT !.left = x, !.job = y]
        \/ \E d \in {c, given} : \/ PushError(d, "blueprint error")
                                \/ OutOfMemory(d, "blueprint error")
    BY <1>12, Zenon DEF Decode, DecodeTask, At
  <2>3. \A d \in {c, given} :
          d.resp = EmptyObject /\ "pc" \in DOMAIN d /\ "resp" \in DOMAIN d
    BY <1>1, <2>1
  <2>4. "blueprint error" \in Messages
    BY DEF Messages
  <2>. HIDE DEF given
  <2>5. CASE \/ \E x, y : c' = [c EXCEPT !.pc = "tasks", !.job = x, !.left = y]
             \/ c.pc = "tasks" /\ \E x, y : c' = [c EXCEPT !.left = x, !.job = y]
    BY <1>1, <1>4, <2>5
  <2>. QED
    BY <1>5, <2>2, <2>3, <2>4, <2>5, SmallAnswer
<1>13. CASE Call
  <2>1. c.pc = "call" /\ Passed(c.req)
    BY <1>3, <1>13 DEF Call, At, Checked
  <2>2. \/ \E s : c' = [c EXCEPT !.pc = "push", !.job = NoJob, !.status = s,
                                !.phase = "applied"]
        \/ c' = [c EXCEPT !.pc = "push"]
        \/ \E s : c' = [c EXCEPT !.pc = "push", !.status = s]
        \/ c' = [c EXCEPT !.pc = "answer", !.phase = "applied"]
    BY <1>13, Zenon DEF Call, Take, GetStatus, Control
  <2>. QED
    BY <1>1, <1>6, <2>1, <2>2
<1>14. CASE Push
  <2>1. c.pc = "push" /\ Passed(c.req)
    BY <1>14 DEF Push, At, Replies
  <2>2. \/ \E r : c' = [c EXCEPT !.pc = "answer", !.status = NoValue, !.resp = r]
        \/ c' = [c EXCEPT !.pc = "answer", !.status = NoValue]
    BY <1>14, Zenon DEF Push, Die
  <2>. QED
    BY <1>1, <1>6, <2>1, <2>2
<1>15. CASE Answer
  <2>. DEFINE out == IF MeasureText(c.resp, default_opts) > BufLen
                     THEN Raw ELSE WriteText(c.resp, default_opts)
  <2>1. c.pc = "answer" /\ ~crashed /\ c' = [c EXCEPT !.pc = "send", !.out = out]
    BY <1>15, Zenon DEF Answer, At
  <2>2. c.resp \in Small => out # Raw
    <3>1. c.resp \in Small =>
            /\ MeasureText(c.resp, default_opts) \in 0..BufLen
            /\ WriteText(c.resp, default_opts) # Raw
      BY AnswerAssumption, Zenon DEF Small
    <3>2. c.resp \in Small => ~(MeasureText(c.resp, default_opts) > BufLen)
      BY <3>1, ClientAssumption
    <3>. QED
      BY <3>1, <3>2, Zenon
  <2>. HIDE DEF out
  <2>3. c'.pc = "send" /\ c'.out = out /\ c'.req = c.req /\ c'.resp = c.resp
    BY <1>1, <2>1
  <2>. QED
    BY <2>1, <2>2, <2>3 DEF Replies
<1>16. CASE Send
  <2>1. PICK phase : c' = [c EXCEPT !.pc = "close", !.resp = NoValue,
                                    !.req = NoValue, !.phase = phase]
    BY <1>16, Zenon DEF Send
  <2>. QED
    BY <1>1, <1>4, <2>1
<1>17. CASE c' = c /\ crashed' = crashed
  BY <1>17 DEF Replies
<1>. QED
  BY <1>7, <1>8, <1>9, <1>10, <1>11, <1>12, <1>13, <1>14, <1>15, <1>16, <1>17
     DEF Next, Handler, ClientSend, ClientClose, Ended, vars

(***************************************************************************)
(* An answer that is an object with an Error is one to a request that had  *)
(* no effect and holds no job, and the text that is not quoted, which      *)
(* stands for an answer that does not fit, is never the answer to a        *)
(* request that was turned down: ErrorTellsEffect.                         *)
(***************************************************************************)
THEOREM Errors == Spec => []ErrorTellsEffect
<1>1. Inv /\ Replies => ErrorTellsEffect
  <2>1. ASSUME Inv, ~crashed, HasError(c.resp)
        PROVE  c.phase = "open" /\ c.job = NoJob
    <3>1. c.resp # NoValue /\ c.resp # EmptyObject
      BY <2>1, Answers
    <3>2. c.pc \in {"answer", "send"}
      BY <2>1, <3>1 DEF Inv, Types, PC, Holds, NoConn, Before, Busy, Checked
    <3>. QED
      BY <2>1, <3>2 DEF Inv, Holds
  <2>. QED
    BY <2>1 DEF ErrorTellsEffect, HasError, Replies, Passed
<1>2. Init => Replies
  BY DEF Init, Replies, NoConn
<1>. QED
  BY <1>1, <1>2, RepliesStep, Invariant, PTL DEF Spec

(***************************************************************************)
(* What a request that gets to the worker asks for: its text begins with a *)
(* document that has the token, and a signal or the job that was decoded.  *)
(***************************************************************************)
LEMMA Asked ==
  ASSUME Inv, ~crashed, c.pc = "call"
  PROVE  /\ Command \in Signals => Asks(peer.sent, worker.job, worker.job)
         /\ Command \in {"run", "assign"} => Asks(peer.sent, worker.job, c.job)
<1>. DEFINE d == c.req
<1>1. /\ d \in Docs /\ d \in Values /\ Begins(peer.sent, d) /\ Refusal(d) = ""
  BY ValuesAssumption DEF Inv, Told, Busy, Checked
<1>2. IsMember(d, "token", Str(Token)) /\ IsMember(d, "command", Str(Command))
  BY <1>1, Accepted DEF Command
<1>3. Command \in Signals => Asks(peer.sent, worker.job, worker.job)
  BY <1>1, <1>2, Zenon DEF Asks
<1>4. ASSUME Command \in {"run", "assign"} PROVE Asks(peer.sent, worker.job, c.job)
  <2>1. JobDocument # NoValue /\ Describes(JobDocument, c.job)
    BY <1>4 DEF Inv, Told, Decoding
  <2>2. /\ IsMember(d, "job", JobDocument)
        /\ \E i \in DOMAIN d.k : d.k[i].val = JobDocument
    BY <1>1, <2>1, Lookup DEF JobDocument
  <2>3. \E i \in DOMAIN d.k : IsMember(d, "job", d.k[i].val)
                              /\ Describes(d.k[i].val, c.job)
    BY <2>1, <2>2, Zenon
  <2>. QED
    BY <1>1, <1>2, <1>4, <2>3, Zenon DEF Asks
<1>. QED
  BY <1>3, <1>4

(***************************************************************************)
(* Steps of the exchange.                                                  *)
(***************************************************************************)
LEMMA ExchangeSteps ==
  /\ c'.phase = c.phase /\ peer'.sent = peer.sent /\ worker'.job = worker.job
       => UNCHANGED Abstract!vars
  /\ c.phase = "closed" /\ c'.phase = "open" /\ peer'.sent = peer.sent
     /\ worker'.job = worker.job => Abstract!Open
  /\ c.phase # "closed" /\ peer.sent = <<>> /\ peer'.sent # <<>>
     /\ c'.phase = c.phase /\ worker'.job = worker.job => Abstract!Send
  /\ c.phase = "open" /\ c'.phase = "applied" /\ peer'.sent = peer.sent
     /\ Asks(peer.sent, worker.job, worker'.job) => Abstract!Apply
  /\ c.phase \in {"open", "applied"} /\ c'.phase = "replied"
     /\ peer'.sent = peer.sent /\ worker'.job = worker.job => Abstract!Reply
  /\ c.phase # "closed" /\ c'.phase = "closed" /\ peer'.sent = <<>>
     /\ worker'.job = worker.job => Abstract!Close
BY Zenon DEF Abstract!vars, Abstract!Open, Abstract!Send, Abstract!Apply,
             Abstract!Reply, Abstract!Close

(***************************************************************************)
(* Before the request reaches the worker, no step but the end of the       *)
(* process is one of the exchange.                                         *)
(***************************************************************************)
LEMMA QuietSteps ==
  ASSUME Inv,
         Recv \/ RecvEof \/ RecvErr \/ Check \/ Dispatch \/ Decode \/ DecodeTask
           \/ Decoded \/ Answer \/ ClientClose
  PROVE  UNCHANGED Abstract!vars
<1>1. worker' = worker
  BY DEF Recv, RecvEof, RecvErr, Check, Dispatch, Decode, DecodeTask, Decoded, Answer,
         ClientClose
<1>2. peer'.sent = peer.sent
  <2>1. CASE Recv
    <3>1. PICK x : peer' = [peer EXCEPT !.text = x]
      BY <2>1, Zenon DEF Recv
    <3>. QED
      BY <3>1 DEF Inv, Shape
  <2>2. CASE ClientClose
    BY <2>2 DEF ClientClose, Inv, Shape
  <2>. QED
    BY <2>1, <2>2
       DEF RecvEof, RecvErr, Check, Dispatch, Decode, DecodeTask, Decoded, Answer
<1>3. ASSUME NEW d, d.phase = c.phase, "phase" \in DOMAIN d, NEW m,
             PushError(d, m) \/ OutOfMemory(d, m)
      PROVE  c'.phase = c.phase
  <2>1. \/ c' = [d EXCEPT !.pc = "answer"]
        \/ \E x : c' = [d EXCEPT !.pc = "answer", !.resp = x]
    BY <1>3, Zenon DEF PushError, OutOfMemory, PutError
  <2>. QED
    BY <1>3, <2>1
<1>4. "phase" \in DOMAIN c
  BY DEF Inv, Shape
<1>5. c'.phase = c.phase
  <2>1. CASE Recv
    <3>1. PICK x : c' = [c EXCEPT !.pc = "resp", !.buf = x]
      BY <2>1, Zenon DEF Recv
    <3>. QED
      BY <1>4, <3>1
  <2>2. CASE RecvEof \/ RecvErr \/ Decoded \/ ClientClose
    BY <1>4, <2>2 DEF RecvEof, RecvErr, Decoded, ClientClose
  <2>3. CASE Check
    BY <1>3, <1>4, <2>3 DEF Check
  <2>4. CASE Dispatch
    BY <1>3, <1>4, <2>4 DEF Dispatch
  <2>5. CASE Decode
    <3>1. \/ \E x, y : c' = [c EXCEPT !.pc = "tasks", !.job = x, !.left = y]
          \/ PushError(c, "blueprint error") \/ OutOfMemory(c, "blueprint error")
      BY <2>5, Zenon DEF Decode
    <3>. QED
      BY <1>3, <1>4, <3>1
  <2>6. CASE DecodeTask
    <3>. DEFINE given == [c EXCEPT !.job = NoJob, !.left = <<>>]
    <3>1. \/ \E x, y : c' = [c EXCEPT !.left = x, !.job = y]
          \/ PushError(given, "blueprint error")
          \/ OutOfMemory(given, "blueprint error")
      BY <2>6, Zenon DEF DecodeTask
    <3>2. given.phase = c.phase /\ "phase" \in DOMAIN given
      BY <1>4
    <3>. HIDE DEF given
    <3>3. CASE \E x, y : c' = [c EXCEPT !.left = x, !.job = y]
      BY <1>4, <3>3
    <3>4. CASE \/ PushError(given, "blueprint error")
               \/ OutOfMemory(given, "blueprint error")
      BY <1>3, <3>2, <3>4
    <3>. QED
      BY <3>1, <3>3, <3>4
  <2>7. CASE Answer
    <3>1. PICK x : c' = [c EXCEPT !.pc = "send", !.out = x]
      BY <2>7, Zenon DEF Answer
    <3>. QED
      BY <1>4, <3>1
  <2>. QED
    BY <2>1, <2>2, <2>3, <2>4, <2>5, <2>6, <2>7
<1>. QED
  BY <1>1, <1>2, <1>5, ExchangeSteps

(***************************************************************************)
(* The process dies: the connection is closed.                             *)
(***************************************************************************)
LEMMA DeadStep ==
  ASSUME Inv, ~crashed, c.pc # "idle", Die, worker' = worker
  PROVE  Abstract!Close
<1>1. c'.phase = "closed" /\ peer'.sent = <<>> /\ worker'.job = worker.job
  BY DEF Die, NoPeer, Inv, Shape
<1>2. c.phase # "closed"
  BY DEF Inv, Holds
<1>. QED
  BY <1>1, <1>2, ExchangeSteps

(***************************************************************************)
(* The worker is called: the exchange is applied, at most once.            *)
(***************************************************************************)
LEMMA CallApplies ==
  ASSUME Inv, Call
  PROVE  Abstract!Apply \/ UNCHANGED Abstract!vars
<1>1. c.pc = "call" /\ ~crashed /\ peer' = peer
  BY DEF Call, At
<1>2. c.phase = "open"
  BY <1>1 DEF Inv, Holds, Busy, Checked
<1>3. ASSUME Take PROVE Abstract!Apply \/ UNCHANGED Abstract!vars
  <2>1. CASE /\ \E x, y : worker' = [worker EXCEPT !.job = c.job, !.ran = x, !.taken = y]
             /\ \E s : c' = [c EXCEPT !.pc = "push", !.job = NoJob, !.status = s,
                                      !.phase = "applied"]
    <3>1. c'.phase = "applied" /\ worker'.job = c.job
      BY <2>1 DEF Inv, Shape
    <3>2. Asks(peer.sent, worker.job, c.job)
      BY <1>1, <1>3, Asked DEF Take
    <3>. QED
      BY <1>1, <1>2, <3>1, <3>2, ExchangeSteps
  <2>2. CASE c' = [c EXCEPT !.pc = "push"] /\ worker' = worker
    <3>1. c'.phase = c.phase
      BY <2>2 DEF Inv, Shape
    <3>. QED
      BY <1>1, <2>2, <3>1, ExchangeSteps
  <2>. QED
    <3>1. \/ /\ \E x, y : worker' = [worker EXCEPT !.job = c.job, !.ran = x, !.taken = y]
             /\ \E s : c' = [c EXCEPT !.pc = "push", !.job = NoJob, !.status = s,
                                      !.phase = "applied"]
          \/ c' = [c EXCEPT !.pc = "push"] /\ worker' = worker
      BY <1>3, Zenon DEF Take
    <3>. QED
      BY <2>1, <2>2, <3>1
<1>4. ASSUME GetStatus PROVE UNCHANGED Abstract!vars
  <2>1. PICK s : c' = [c EXCEPT !.pc = "push", !.status = s]
    BY <1>4 DEF GetStatus
  <2>2. c'.phase = c.phase /\ worker' = worker
    BY <1>4, <2>1 DEF GetStatus, Inv, Shape
  <2>. QED
    BY <1>1, <2>2, ExchangeSteps
<1>5. ASSUME Control PROVE Abstract!Apply
  <2>1. PICK ran : worker' = [worker EXCEPT !.ran = ran]
    BY <1>5 DEF Control
  <2>2. c'.phase = "applied" /\ worker'.job = worker.job
    BY <1>5, <2>1 DEF Control, Inv, Shape
  <2>3. Asks(peer.sent, worker.job, worker.job)
    BY <1>1, <1>5, Asked DEF Control
  <2>. QED
    BY <1>1, <1>2, <2>2, <2>3, ExchangeSteps
<1>. QED
  BY <1>3, <1>4, <1>5 DEF Call

(***************************************************************************)
(* Every step is one of the exchange or changes nothing of it.             *)
(***************************************************************************)
LEMMA Simulates == Inv /\ [Next]_vars => [Abstract!Next]_(Abstract!vars)
<1>. SUFFICES ASSUME Inv, [Next]_vars
              PROVE  Abstract!Next \/ UNCHANGED Abstract!vars
  OBVIOUS
<1>. USE DEF Abstract!Next
<1>1. CASE Recv \/ RecvEof \/ RecvErr \/ Check \/ Dispatch \/ Decode \/ DecodeTask
             \/ Decoded \/ Answer \/ ClientClose
  BY <1>1, QuietSteps
<1>2. CASE Connect
  <2>1. c.pc = "idle" /\ ~crashed
    BY <1>2 DEF Connect, At
  <2>2. c = NoConn /\ peer = NoPeer
    BY <2>1 DEF Inv, Holds
  <2>3. /\ c.phase = "closed" /\ c'.phase = "open"
        /\ peer'.sent = peer.sent /\ worker'.job = worker.job
    BY <1>2, <2>2 DEF Connect, NoConn, NoPeer
  <2>. QED
    BY <2>3, ExchangeSteps
<1>3. ASSUME NEW t \in Texts, ClientSend(t)
      PROVE  Abstract!Next
  <2>1. /\ peer.state = "silent" /\ ~crashed /\ UNCHANGED <<c, worker>>
        /\ peer' = [peer EXCEPT !.state = "waiting", !.text = t, !.sent = t]
    BY <1>3 DEF ClientSend
  <2>2. c.pc # "idle"
    <3>1. NoPeer.state # "silent"
      BY DEF NoPeer
    <3>. QED
      BY <2>1, <3>1 DEF Inv, Holds
  <2>3. c.phase # "closed" /\ peer.sent = <<>>
    BY <2>1, <2>2 DEF Inv, Holds, Told
  <2>4. peer'.sent = t /\ t # <<>>
    BY <2>1, ClientAssumption DEF Inv, Shape
  <2>. QED
    BY <2>1, <2>3, <2>4, ExchangeSteps
<1>4. CASE NewResp
  <2>1. c.pc = "resp" /\ ~crashed /\ UNCHANGED <<peer, worker>>
    BY <1>4 DEF NewResp, At
  <2>2. c.phase = "open"
    BY <2>1 DEF Inv, Holds, Before
  <2>3. c'.phase = c.phase \/ c'.phase = "replied"
    <3>1. \/ c' = [c EXCEPT !.pc = "parse", !.resp = EmptyObject]
          \/ c' = [c EXCEPT !.pc = "close", !.out = Raw, !.phase = "replied"]
      BY <1>4 DEF NewResp
    <3>. QED
      BY <3>1 DEF Inv, Shape
  <2>. QED
    BY <2>1, <2>2, <2>3, ExchangeSteps
<1>5. CASE Parse
  <2>1. c.pc = "parse" /\ ~crashed /\ worker' = worker
    BY <1>5 DEF Parse, At
  <2>2. \/ Die
        \/ peer' = peer /\ c'.phase = c.phase
    <3>. DEFINE d == [c EXCEPT !.buf = <<>>]
    <3>1. \/ Die
          \/ /\ peer' = peer
             /\ \/ PushError(d, "invalid JSON payload")
                \/ OutOfMemory(d, "invalid JSON payload")
          \/ peer' = peer /\ \E x : c' = [d EXCEPT !.pc = "check", !.req = x]
      BY <1>5, Zenon DEF Parse
    <3>2. d.phase = c.phase /\ "phase" \in DOMAIN d
      BY DEF Inv, Shape
    <3>. HIDE DEF d
    <3>3. ASSUME \/ PushError(d, "invalid JSON payload")
                 \/ OutOfMemory(d, "invalid JSON payload")
          PROVE  \/ c' = [d EXCEPT !.pc = "answer"]
                 \/ \E x : c' = [d EXCEPT !.pc = "answer", !.resp = x]
      BY <3>3, Zenon DEF PushError, OutOfMemory, PutError
    <3>4. ASSUME NEW x, \/ c' = [d EXCEPT !.pc = "check", !.req = x]
                        \/ c' = [d EXCEPT !.pc = "answer", !.resp = x]
                        \/ c' = [d EXCEPT !.pc = "answer"]
          PROVE  c'.phase = c.phase
      BY <3>2, <3>4
    <3>. QED
      BY <3>1, <3>3, <3>4, Zenon
  <2>. QED
    BY <2>1, <2>2, DeadStep, ExchangeSteps
<1>6. CASE Call
  BY <1>6, CallApplies
<1>7. CASE Push
  <2>1. c.pc = "push" /\ ~crashed /\ worker' = worker
    BY <1>7 DEF Push, At
  <2>2. \/ Die
        \/ peer' = peer /\ c'.phase = c.phase
    <3>1. \/ Die
          \/ peer' = peer /\ c' = [c EXCEPT !.pc = "answer", !.status = NoValue]
          \/ peer' = peer /\ \E x : c' = [c EXCEPT !.pc = "answer", !.status = NoValue,
                                                   !.resp = x]
      BY <1>7, Zenon DEF Push
    <3>. QED
      BY <3>1 DEF Inv, Shape
  <2>. QED
    BY <2>1, <2>2, DeadStep, ExchangeSteps
<1>8. CASE Send
  <2>1. c.pc = "send" /\ ~crashed /\ UNCHANGED <<peer, worker>>
    BY <1>8 DEF Send, At
  <2>2. c.phase \in {"open", "applied"}
    BY <2>1 DEF Inv, Holds
  <2>3. PICK phase \in {"replied", c.phase} :
          c' = [c EXCEPT !.pc = "close", !.resp = NoValue, !.req = NoValue,
                         !.phase = phase]
    BY <1>8 DEF Send
  <2>4. c'.phase = phase
    BY <2>3 DEF Inv, Shape
  <2>. QED
    BY <2>1, <2>2, <2>3, <2>4, ExchangeSteps
<1>9. CASE Close
  <2>1. c.pc = "close" /\ ~crashed /\ worker' = worker /\ c' = NoConn /\ peer' = NoPeer
    BY <1>9 DEF Close, At
  <2>2. c.phase # "closed"
    BY <2>1 DEF Inv, Holds
  <2>3. c'.phase = "closed" /\ peer'.sent = <<>>
    BY <2>1 DEF NoConn, NoPeer
  <2>. QED
    BY <2>1, <2>2, <2>3, ExchangeSteps
<1>10. CASE Ended \/ UNCHANGED vars
  <2>1. UNCHANGED <<c, peer, worker>>
    BY <1>10 DEF Ended, vars
  <2>. QED
    BY <2>1, ExchangeSteps
<1>. QED
  BY <1>1, <1>2, <1>3, <1>4, <1>5, <1>6, <1>7, <1>8, <1>9, <1>10 DEF Next, Handler

(***************************************************************************)
(* A connection is an exchange: however the network cuts the request and   *)
(* wherever memory runs out, the worker gets at most one job or signal     *)
(* from it, exactly the one a complete document with the token asks for,   *)
(* before the only answer: ImplementsExchange.                             *)
(***************************************************************************)
THEOREM Implements == Spec => ImplementsExchange
<1>1. Init => c.phase = "closed" /\ peer.sent = <<>>
  BY DEF Init, NoConn, NoPeer
<1>. QED
  BY <1>1, Invariant, Simulates, PTL DEF Spec, ImplementsExchange, Abstract!Spec
=============================================================================
