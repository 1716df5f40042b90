------------------------------ MODULE JsonText ------------------------------
(***************************************************************************)
(* The parser of src/src/shared/json.c, and the measuring and writing of   *)
(* src/src/shared/json-builder.c.                                          *)
(*                                                                         *)
(* The parser's two passes over the text, one to count and one to fill in, *)
(* are one here, and its walk over characters inside a string or number is *)
(* one token.  Doubles and comments are left out: no answer contains a     *)
(* double, and the server does not enable comments.                        *)
(***************************************************************************)
EXTENDS Json

-----------------------------------------------------------------------------
(* The parser.                                                              *)

Scalars == {"string", "integer", "true", "false", "null"}

(***************************************************************************)
(* The flags seek, comma, colon and done of json_parse_ex; the containers  *)
(* that are open, the innermost last, each with the name of the member at  *)
(* hand in its field s.                                                    *)
(***************************************************************************)
ParserStart ==
  [ok |-> TRUE, seek |-> TRUE, comma |-> FALSE, colon |-> FALSE,
   done |-> FALSE, open |-> <<>>, root |-> NoValue]

Fail(p) == [p EXCEPT !.ok = FALSE]

(* flag_next: a value is complete and goes into its parent.                 *)
Complete(p, v) ==
  IF p.open = <<>>
  THEN [p EXCEPT !.comma = TRUE, !.done = TRUE, !.root = v]
  ELSE LET top == Last(p.open)
           up  == [json_object_push(top, top.s, v) EXCEPT !.s = ""]
       IN  [p EXCEPT !.comma = TRUE, !.seek = (top.t = "array"),
                     !.open = Append(Front(p.open), up)]

CloseTop(p) == Complete([p EXCEPT !.open = Front(p.open)], Last(p.open))

OpenNew(p, v) ==
  [p EXCEPT !.open = Append(p.open, v), !.seek = (v.t = "array")]

BeginValue(p, b) ==
  CASE b.t = "{"       -> OpenNew(p, EmptyObject)
    [] b.t = "["       -> OpenNew(p, EmptyArray)
    [] b.t \in Scalars -> Complete([p EXCEPT !.seek = FALSE],
                                   Value(b.t, b.s, b.n, <<>>))
    [] OTHER           -> Fail(p)

(* flag_seek_value: a value, after what has to come before it.              *)
SeekValue(p, b) ==
  CASE b.t = "]" -> IF p.open # <<>> /\ Last(p.open).t = "array"
                    THEN CloseTop(p) ELSE Fail(p)
    [] b.t # "]" /\ p.comma ->
         IF b.t = "," THEN [p EXCEPT !.comma = FALSE] ELSE Fail(p)
    [] b.t # "]" /\ ~p.comma /\ p.colon ->
         IF b.t = ":" THEN [p EXCEPT !.colon = FALSE] ELSE Fail(p)
    [] OTHER -> BeginValue(p, b)

(* The members of an object: a comma may also follow the last one.          *)
InObject(p, b) ==
  CASE b.t = "string" /\ ~p.comma ->
         [p EXCEPT !.seek = TRUE, !.colon = TRUE,
                   !.open[Len(p.open)].s = b.s]
    [] b.t = "}"            -> CloseTop(p)
    [] b.t = "," /\ p.comma -> [p EXCEPT !.comma = FALSE]
    [] OTHER                -> Fail(p)

Read(p, b) ==
  CASE ~p.ok \/ b.t = "ws"     -> p
    [] p.ok /\ b.t # "ws" /\ p.done -> Fail(p)
    [] p.ok /\ b.t # "ws" /\ ~p.done /\ p.seek -> SeekValue(p, b)
    [] OTHER                   -> InObject(p, b)

(* (The set of one state is there for TLC, which would otherwise compute    *)
(* the state again wherever it is used.)                                    *)
RECURSIVE ReadFrom(_, _, _)
ReadFrom(p, text, i) ==
  IF i > Len(text) \/ text[i].t = "nul" THEN p
  ELSE CHOOSE r \in {ReadFrom(q, text, i + 1) : q \in {Read(p, text[i])}} : TRUE

(* The value, or NULL.  A NUL character ends the text.                      *)
json_parse_ex(text) ==
  LET p == ReadFrom(ParserStart, text, 1)
  IN  IF p.ok /\ p.done THEN p.root ELSE NoValue

-----------------------------------------------------------------------------
(* The writer.                                                              *)

get_serialize_flags(o) ==
  {f \in {"brackets", "commas", "colons"} :
     /\ o.mode # "packed"
     /\ f \in {"brackets", "commas"} => o.mode # "multiline"
     /\ CASE f = "brackets" -> "pack_brackets" \notin o.opts
          [] f = "commas"   -> "no_space_after_comma" \notin o.opts
          [] f = "colons"   -> "no_space_after_colon" \notin o.opts}

(* Fault: an escaped character counts once.                                 *)
FaultMeasureString(s) == Len(s)

measure_string(s) == Len(s) + EscapesOf(s)

SizeWith(o, flag) == IF flag \in get_serialize_flags(o) THEN 2 ELSE 1

(* A line end is counted with one indent too many.                          *)
MeasureNewline(o, depth) ==
  IF o.mode # "multiline" THEN 0
  ELSE (IF "CRLF" \in o.opts THEN 2 ELSE 1) + o.indent_size
       + depth * o.indent_size

RECURSIVE MeasureValue(_, _, _)
MeasureValue(o, v, depth) ==
  LET Size(i) ==
        (IF i > 1 THEN SizeWith(o, "commas") + MeasureNewline(o, depth + 1)
         ELSE 0)
        + (IF v.t = "object"
           THEN 2 + SizeWith(o, "colons") + measure_string(v.k[i].name) ELSE 0)
        + MeasureValue(o, v.k[i].val, depth + 1)
      Sum[i \in 0..Len(v.k)] == IF i = 0 THEN 0 ELSE Sum[i - 1] + Size(i)
  IN  CASE v.t \in {"object", "array"} ->
             IF v.k = <<>> THEN 2
             ELSE 2 * SizeWith(o, "brackets") + MeasureNewline(o, depth + 1)
                  + MeasureNewline(o, depth) + Sum[Len(v.k)]
        [] v.t = "string"           -> 2 + measure_string(v.s)
        [] v.t = "integer"          -> IntegerLength(v.n)
        [] v.t \in {"true", "null"} -> 4
        [] v.t = "false"            -> 5
        [] OTHER                    -> 0

(* With the byte for the terminating NUL.                                   *)
json_measure_ex(v, o) == 1 + MeasureValue(o, v, 0)

(***************************************************************************)
(* json_serialize_ex, as the tokens it writes.                             *)
(***************************************************************************)
Space(o, flag) == IF flag \in get_serialize_flags(o) THEN <<Ws(1)>> ELSE <<>>

PrintNewline(o, depth) ==
  IF o.mode # "multiline" THEN <<>>
  ELSE <<Ws((IF "CRLF" \in o.opts THEN 2 ELSE 1) + depth * o.indent_size)>>

(* Fault: the first element gets a comma too.                               *)
FaultSeparator(o, i, depth) ==
  <<Punct(",")>> \o Space(o, "commas") \o PrintNewline(o, depth)

Separator(o, i, depth) ==
  IF i = 1 THEN <<>>
  ELSE <<Punct(",")>> \o Space(o, "commas") \o PrintNewline(o, depth)

RECURSIVE SerializeValue(_, _, _)
SerializeValue(o, v, depth) ==
  LET br == IF v.t = "object" THEN <<"{", "}">> ELSE <<"[", "]">>
      Element(i) ==
        Separator(o, i, depth + 1)
        \o (IF v.t = "object"
            THEN <<Tok("string", v.k[i].name, 0), Punct(":")>> \o Space(o, "colons")
            ELSE <<>>)
        \o SerializeValue(o, v.k[i].val, depth + 1)
      All[i \in 0..Len(v.k)] == IF i = 0 THEN <<>> ELSE All[i - 1] \o Element(i)
  IN  CASE v.t \in {"object", "array"} ->
             IF v.k = <<>> THEN <<Punct(br[1]), Punct(br[2])>>
             ELSE <<Punct(br[1])>> \o Space(o, "brackets")
                  \o PrintNewline(o, depth + 1) \o All[Len(v.k)]
                  \o PrintNewline(o, depth) \o Space(o, "brackets")
                  \o <<Punct(br[2])>>
        [] OTHER -> <<Tok(v.t, v.s, v.n)>>

json_serialize_ex(v, o) == SerializeValue(o, v, 0)
=============================================================================
