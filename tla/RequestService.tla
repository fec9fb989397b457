--------------------------- MODULE RequestService ---------------------------
(***************************************************************************)
(* What the HTTP client promises the application that asks it for          *)
(* something, with no socket, no buffer and no pass: a request is called   *)
(* back at most once, and it goes away only when it was called back or its *)
(* connection has failed.  The process may end at any time, but the        *)
(* network is the cause only when it has failed some connection.           *)
(***************************************************************************)
CONSTANT Requests  \* what identifies a request: the address of its context

VARIABLES
  asked,     \* the requests under way
  answered,  \* those whose done_callback was called
  failed,    \* those whose connection has failed
  ended      \* what has ended the process; "nothing" while it runs

serviceVars == <<asked, answered, failed, ended>>

Causes == {"nothing", "network", "program"}

Init ==
  /\ asked = {} /\ answered = {} /\ failed = {}
  /\ ended = "nothing"

Ask(r) ==
  /\ ended = "nothing"
  /\ r \notin asked
  /\ asked' = asked \cup {r}
  /\ UNCHANGED <<answered, failed, ended>>

Answer(r) ==
  /\ ended = "nothing"
  /\ r \in asked \ answered
  /\ answered' = answered \cup {r}
  /\ UNCHANGED <<asked, failed, ended>>

Leave(r) ==
  /\ ended = "nothing"
  /\ r \in answered \cup failed
  /\ asked' = asked \ {r}
  /\ answered' = answered \ {r}
  /\ failed' = failed \ {r}
  /\ UNCHANGED ended

(* A connection fails, which may end the process in the same step. *)
Fail(r, cause) ==
  /\ ended = "nothing"
  /\ r \in asked \ failed
  /\ failed' = failed \cup {r}
  /\ ended' = cause
  /\ UNCHANGED <<asked, answered>>

End(cause) ==
  /\ ended = "nothing"
  /\ cause = "network" => failed # {}
  /\ ended' = cause
  /\ UNCHANGED <<asked, answered, failed>>

Next ==
  \/ \E r \in Requests : Ask(r) \/ Answer(r) \/ Leave(r)
  \/ \E r \in Requests, cause \in Causes : Fail(r, cause)
  \/ \E cause \in Causes : End(cause)

Spec == Init /\ [][Next]_serviceVars
=============================================================================
