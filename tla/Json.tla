-------------------------------- MODULE Json --------------------------------
(***************************************************************************)
(* JSON values and texts, as the program sees them (src/src/shared/json.h, *)
(* json-builder.h and json-helpers.c).  How a text is parsed and written   *)
(* is in module JsonText.                                                  *)
(*                                                                         *)
(* A text is a sequence of tokens: the punctuation, strings, numbers, the  *)
(* three literals, white space, the NUL character, and "part", a string or *)
(* literal of which only the beginning is there.  Every token knows how    *)
(* many bytes it has, so that measured and written lengths can be          *)
(* compared.                                                               *)
(***************************************************************************)
EXTENDS Integers, Sequences, SequencesExt

CONSTANT Escapes    \* strings with characters to escape -> how many of them

(***************************************************************************)
(* Values.  All have the same four fields, of which a type uses some: s a  *)
(* string, n a number, k the members of an object or elements of an array. *)
(***************************************************************************)
Value(t, s, n, k) == [t |-> t, s |-> s, n |-> n, k |-> k]

NoValue == Value("none", "", 0, <<>>)     \* NULL
Null == Value("null", "", 0, <<>>)
True == Value("true", "", 0, <<>>)
False == Value("false", "", 0, <<>>)
Str(s) == Value("string", s, 0, <<>>)
Integer(n) == Value("integer", "", n, <<>>)
EmptyObject == Value("object", "", 0, <<>>)
EmptyArray == Value("array", "", 0, <<>>)

json_object_push(o, name, v) ==
  [o EXCEPT !.k = Append(@, [name |-> name, val |-> v])]

(* The first member of that name.                                           *)
json_object_get_value(o, name) ==
  LET i == SelectInSeq(o.k, LAMBDA m : m.name = name)
  IN  IF o.t = "object" /\ i # 0 THEN o.k[i].val ELSE NoValue

(* The array that json_array_push makes of these values.                    *)
Array(vs) == [EmptyArray EXCEPT !.k = [i \in DOMAIN vs |-> [name |-> "", val |-> vs[i]]]]

-----------------------------------------------------------------------------
(* Tokens and how long they are.                                            *)

Tok(t, s, n) == [t |-> t, s |-> s, n |-> n]
Punct(t) == Tok(t, "", 1)
Ws(n) == Tok("ws", "", n)
Nul == Tok("nul", "", 1)
Part == Tok("part", "", 1)

EscapesOf(s) == IF s \in DOMAIN Escapes THEN Escapes[s] ELSE 0

Digits[n \in Nat] == IF n >= 10 THEN 1 + Digits[n \div 10] ELSE 1

(* The length of the text of a number.                                      *)
IntegerLength(n) == IF n < 0 THEN 1 + Digits[-n] ELSE Digits[n]

(* The bytes of a token.                                                    *)
TokSize(b) ==
  CASE b.t = "string"           -> 2 + (Len(b.s) - EscapesOf(b.s))
                                     + 2 * EscapesOf(b.s)
    [] b.t = "integer"          -> IntegerLength(b.n)
    [] b.t \in {"true", "null"} -> 4
    [] b.t = "false"            -> 5
    [] OTHER                    -> b.n

TextSize(text) == FoldLeft(LAMBDA n, b : n + TokSize(b), 0, text)

-----------------------------------------------------------------------------
(* The options of the writer.                                               *)

Opts == [mode : {"packed", "single_line", "multiline"},
         opts : SUBSET {"CRLF", "pack_brackets", "no_space_after_comma",
                        "no_space_after_colon"},
         indent_size : Nat]

default_opts == [mode |-> "single_line", opts |-> {}, indent_size |-> 3]
=============================================================================
