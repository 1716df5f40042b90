------------------------------ MODULE MCClient ------------------------------
(***************************************************************************)
(* Client for TLC: every command with a good job, jobs that are wrong in   *)
(* one way each, requests without a good token or command, and texts that  *)
(* are not one document.                                                   *)
(***************************************************************************)
EXTENDS Client, JsonText

RECURSIVE Obj(_)
Obj(ms) ==
  IF ms = <<>> THEN EmptyObject
  ELSE json_object_push(Obj(Front(ms)), Last(ms)[1], Last(ms)[2])

TaskDoc(v) == Obj(<< <<"name", v>> >>)

JobDoc(id, tasks) == Obj(<< <<"id", Integer(id)>>, <<"tasks", Array(tasks)>> >>)

One == <<TaskDoc(Str("a"))>>
Two == <<TaskDoc(Str("b")), TaskDoc(Str("q"))>>

(* An int has 4 bits here: 8 becomes negative, 16 zero and 17 one.          *)
GoodJobs ==
  {JobDoc(1, One), JobDoc(17, Two), JobDoc(2, <<>>),
   Obj(<< <<"execMode", Str("parallel")>>, <<"id", Integer(3)>>,
          <<"runMode", Str("repeat")>>, <<"tasks", Array(One)>>, <<"id", Null>> >>),
   json_object_push(JobDoc(1, One), "execMode", Str("repeat"))}

BadJobs ==
  {JobDoc(8, One), JobDoc(16, One), EmptyObject,
   Obj(<< <<"id", Str("1")>>, <<"tasks", Array(One)>> >>),
   Obj(<< <<"id", Integer(1)>>, <<"tasks", EmptyObject>> >>),
   JobDoc(1, Append(One, Null)), JobDoc(1, Append(One, TaskDoc(Integer(1)))),
   JobDoc(1, Append(One, TaskDoc(Str(""))))}

Request(cmd, token) == Obj(<< <<"command", cmd>>, <<"token", token>> >>)

WithJob(cmd, j) == json_object_push(Request(Str(cmd), Str("t")), "job", j)

(* What the command line client sends for "run --parallel", less a newline. *)
Cli ==
  json_object_push(
    json_object_push(Request(Str("run"), Str("t")), "worker_id", Integer(2)),
    "job", json_object_push(JobDoc(1, One), "parallel", True))

MCDocs ==
  {WithJob("assign", j) : j \in GoodJobs \cup BadJobs}
  \cup {WithJob("run", j) : j \in {JobDoc(1, One), JobDoc(17, Two), JobDoc(2, <<>>)}}
  \cup {Request(Str(cmd), Str("t")) :
          cmd \in {"get_status", "start", "stop", "restart", "halt", "run"}}
  \cup {Cli, Request(Str("start"), Str("u")), Request(Str("start"), Null),
        Request(True, Str("t")), EmptyObject,
        json_object_push(Request(Str("start"), Str("u")), "token", Str("t")),
        json_object_push(Request(Str("run"), Str("u")), "job", JobDoc(1, One))}

RECURSIVE Within(_)
Within(v) == {v} \cup UNION {Within(v.k[i].val) : i \in DOMAIN v.k}

MCValues == UNION {Within(d) : d \in MCDocs}

Text(d) == json_serialize_ex(d, Packed)

MCTexts ==
  {Text(d) : d \in MCDocs \cup {EmptyArray, Integer(12), False}}
  \cup {Text(WithJob("assign", JobDoc(1, One))) \o Text(Request(Str("start"), Str("t"))),
        Text(Request(Str("start"), Str("t"))) \o <<Nul, Part>>,
        json_serialize_ex(WithJob("assign", JobDoc(1, One)), default_opts),
        Front(Text(Request(Str("start"), Str("t")))) \o <<Punct(","), Punct("}")>>,
        <<Punct("{"), Punct(","), Punct("}")>>,
        Text(Cli) \o <<Ws(1)>>, <<Punct("["), Punct("}")>>}

MCOpts ==
  {default_opts, Packed,
   [mode |-> "single_line", indent_size |-> 3, opts |-> {"pack_brackets"}],
   [mode |-> "multiline", indent_size |-> 1,
    opts |-> {"CRLF", "no_space_after_colon"}]}

MCEscapes == [s \in {"q"} |-> 1]
=============================================================================
