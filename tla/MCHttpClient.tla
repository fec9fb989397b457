---------------------------- MODULE MCHttpClient ----------------------------
(* HttpClient on small instances: the requests the application may make,    *)
(* each with a text of a few bytes.                                         *)
EXTENDS HttpClientInvariant, TLC

CONSTANT TextLengths   \* the lengths the texts may have

All == [method : Methods, body : Bodies, length : TextLengths]
Sound == {input \in All : HasText(input) /\ (input.method = "GET" => input.body = "NULL")}
Gets == {input \in Sound : input.method = "GET"}
Posts == {input \in All : input.method = "POST"}

(* One input of each kind the switch on the method tells apart. *)
Kinds == Gets \cup {input \in All : input.method # "GET" /\ input.body = "empty"}

Symmetry == Permutations(Clients)
=============================================================================
