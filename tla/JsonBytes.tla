----------------------------- MODULE JsonBytes ------------------------------
(***************************************************************************)
(* Byte strings as the decoders of run state and of contracts and the      *)
(* writers of evidence tell them apart: the JSON value they hold, and how  *)
(* they are laid out.  A value is a tuple whose first element is its kind, *)
(* so that values of different kinds are different values.                 *)
(***************************************************************************)

Text(t) == <<"text", t>>          \* t is a tuple too: its sort and its content
Name(x) == Text(<<"name", x>>)
Number(n) == <<"int", n>>
Float(n) == <<"float", n>>
Null == <<"null">>
Object(fields) == <<"object", fields>>
Array(values) == <<"array", values>>

Kind(v) == v[1]
Fields(v) == v[2]

\* What has the form of a JSON value; the content of an object is a function.
IsFunction(f) == f = [k \in DOMAIN f |-> f[k]]
Shaped(v) ==
    \/ v = Null
    \/ /\ v = <<Kind(v), Fields(v)>>
       /\ Kind(v) = "object" => IsFunction(Fields(v))

\* "canonical": exactly the bytes _dump writes for the value; "spaced": another
\* text of the same value; "duplicate", "constant": a repeated key, a NaN; and
\* bytes that are no JSON text, or not even UTF-8.
Layouts == {"canonical", "spaced", "duplicate", "constant", "no_json", "no_utf8"}

Bytes(layout, v) == [layout |-> layout, value |-> v]

\* json.dumps with sorted keys and compact separators.
Dump(v) == Bytes("canonical", v)

\* json.loads with a hook that refuses duplicate keys and one that refuses the
\* nonstandard constants.
Parses(data) == data.layout \in {"canonical", "spaced"}
=============================================================================
