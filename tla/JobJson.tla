------------------------------- MODULE JobJson -------------------------------
(***************************************************************************)
(* How jobs, tasks and statuses are read from and written to JSON          *)
(* (src/src/blueprint/job.c and task.c, src/src/pyoneer/worker.c and       *)
(* pyoneer.c).                                                             *)
(***************************************************************************)
EXTENDS Json

CONSTANTS IntMax,      \* INT_MAX; JSON integers are wider than an int
          WorkerId

ASSUME WidthAssumption == IntMax \in Nat /\ WorkerId \in Nat

(* How many values an int has.                                              *)
IntRange == 2 * (IntMax + 1)

TaskStatus == {"not_ready", "ready", "running", "completed", "incomplete"}
WorkerStatus == {"not_assigned", "assigned", "not_working", "working"}

(* A decoded job.  A task is its name; the name is NULL if strdup failed.   *)
NoName == ""

job_create(id) ==
  [id |-> id, exec |-> "sequential", run |-> "once", tasks |-> <<>>]

NoJob == job_create(0)

job_add_task(j, name) == [j EXCEPT !.tasks = Append(@, name)]

-----------------------------------------------------------------------------
(* Reading.                                                                 *)

(* The conversion of a JSON integer to the int that job_create takes.       *)
AsInt(n) == ((n + IntMax + 1) % IntRange) - (IntMax + 1)

(* A mode that is missing, not a string or not known leaves the default.    *)
Mode(v, known, default) ==
  IF v.t = "string" /\ v.s \in known THEN v.s ELSE default

(* Fault: the modes are looked up in each other's member.                   *)
FaultJobOpts(v, j) ==
  [j EXCEPT
     !.exec = Mode(json_object_get_value(v, "runMode"),
                   {"parallel", "sequential"}, @),
     !.run = Mode(json_object_get_value(v, "execMode"), {"repeat", "once"}, @)]

JobOpts(v, j) ==
  [j EXCEPT
     !.exec = Mode(json_object_get_value(v, "execMode"),
                   {"parallel", "sequential"}, @),
     !.run = Mode(json_object_get_value(v, "runMode"), {"repeat", "once"}, @)]

(* Fault: only an id of zero is turned down.                                *)
FaultJobHeader(v) ==
  LET id    == json_object_get_value(v, "id")
      tasks == json_object_get_value(v, "tasks")
  IN  IF v.t = "object" /\ id.t = "integer" /\ tasks.t = "array"
      THEN JobOpts(v, job_create(AsInt(id.n)))
      ELSE NoJob

(* job_decode up to its loop over the tasks: the job without them, or NULL. *)
JobHeader(v) ==
  LET id    == json_object_get_value(v, "id")
      tasks == json_object_get_value(v, "tasks")
  IN  IF /\ v.t = "object"
         /\ id.t = "integer" /\ tasks.t = "array"
         /\ AsInt(id.n) > 0
      THEN JobOpts(v, job_create(AsInt(id.n)))
      ELSE NoJob

(* task_decode: the name, which is not empty, or NULL.                      *)
task_decode(v) ==
  LET name == json_object_get_value(v, "name")
  IN  IF name.t = "string" THEN name.s ELSE ""

-----------------------------------------------------------------------------
(* Writing.                                                                 *)

(* json_object_push_string pushes nothing for a NULL string.                *)
json_object_push_string(o, name, s) ==
  IF s = NoName THEN o ELSE json_object_push(o, name, Str(s))

json_object_push_integer(o, name, n) == json_object_push(o, name, Integer(n))

task_encode(name) == json_object_push_string(EmptyObject, "name", name)

job_encode(j) ==
  LET id   == json_object_push_integer(EmptyObject, "id", j.id)
      exec == json_object_push_string(id, "execMode", j.exec)
      run  == json_object_push_string(exec, "runMode", j.run)
  IN  json_object_push(run, "tasks",
        Array([i \in DOMAIN j.tasks |-> task_encode(j.tasks[i])]))

task_encode_status(s) == json_object_push(EmptyObject, "status", Str(s))

(* ts: the status each task is seen in, js: the one derived for the job.    *)
job_encode_status(j, js, ts) ==
  json_object_push(
    json_object_push(EmptyObject, "status", Str(js)), "tasks",
    Array([i \in DOMAIN j.tasks |->
             json_object_push_string(task_encode_status(ts[i]), "name",
                                     j.tasks[i])]))

get_status(ws, j, js, ts) ==
  json_object_push(
    json_object_push(EmptyObject, "status", Str(ws)), "job",
    IF j = NoJob THEN Null
    ELSE json_object_push_integer(job_encode_status(j, js, ts), "id", j.id))

(* What the function table of Pyoneer adds.                                 *)
pyoneer_worker_get_status(ws, j, js, ts) ==
  json_object_push_integer(
    json_object_push_string(get_status(ws, j, js, ts), "role", "worker"),
    "id", WorkerId)

-----------------------------------------------------------------------------
(* What it means that a JSON value describes a job: the reference for the   *)
(* decoding.                                                                *)

(* The value of the first member of that name.                              *)
IsMember(v, name, m) ==
  \E i \in DOMAIN v.k :
    /\ v.k[i].name = name /\ v.k[i].val = m
    /\ \A h \in 1..(i - 1) : v.k[h].name # name

ModeOf(v, name, known, chosen, default) ==
  \/ IsMember(v, name, Str(chosen))
  \/ chosen = default /\ \A m \in known : ~IsMember(v, name, Str(m))

(* A task's name is not empty.  It may have been lost.                      *)
Names(v, name) ==
  \E i \in DOMAIN v.k :
    LET m == v.k[i].val
    IN  /\ IsMember(v, "name", m)
        /\ m.t = "string" /\ m.s # ""
        /\ name \in {m.s, NoName}

Describes(v, j) ==
  /\ v.t = "object"
  /\ \E i \in DOMAIN v.k :
       LET id == v.k[i].val
       IN  /\ IsMember(v, "id", id)
           /\ id.t = "integer"
           /\ (id.n - j.id) % IntRange = 0
  /\ j.id \in 1..IntMax
  /\ \E i \in DOMAIN v.k :
       LET ts == v.k[i].val
       IN  /\ IsMember(v, "tasks", ts)
           /\ ts.t = "array"
           /\ DOMAIN ts.k = DOMAIN j.tasks
           /\ \A h \in DOMAIN ts.k : Names(ts.k[h].val, j.tasks[h])
  /\ ModeOf(v, "execMode", {"parallel", "sequential"}, j.exec, "sequential")
  /\ ModeOf(v, "runMode", {"repeat", "once"}, j.run, "once")
=============================================================================
