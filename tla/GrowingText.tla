---------------------------- MODULE GrowingText ----------------------------
(* What a String_Buffer promises: a text that only changes by having a      *)
(* piece put behind it, whole and once.                                     *)
EXTENDS Sequences

CONSTANT Bytes   \* what a text is made of

VARIABLES
  text,    \* the text so far
  pending  \* the piece being appended, or the empty sequence

textVars == <<text, pending>>

Init == text = <<>> /\ pending = <<>>

Begin ==
  /\ pending = <<>>
  /\ pending' \in Seq(Bytes) \ {<<>>}
  /\ UNCHANGED text

Finish ==
  /\ pending # <<>>
  /\ text' = text \o pending
  /\ pending' = <<>>

Next == Begin \/ Finish

Spec == Init /\ [][Next]_textVars
=============================================================================
