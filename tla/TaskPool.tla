------------------------------ MODULE TaskPool ------------------------------
(***************************************************************************)
(* What the cooperative scheduler of src/worker promises its users, with   *)
(* no array, no index and no order: a bounded set of tasks, worked in      *)
(* passes.  In a pass every task is called exactly once, and the tasks     *)
(* whose call answered "done" leave the pool before the pass is over.      *)
(***************************************************************************)
EXTENDS Naturals, FiniteSets

CONSTANTS
  Contexts,      \* what identifies a task: the address of its context
  Capacity,      \* how many tasks the pool holds at most
  LifetimeRange  \* calls are counted modulo this

VARIABLES
  phase,     \* "idle", "calling" or "reaping"
  age,       \* the tasks in the pool, each with the number of its calls so far
  waiting,   \* the tasks this pass has yet to call
  finished   \* the tasks that answered "done" and are still in the pool

poolVars == <<phase, age, waiting, finished>>

Live == DOMAIN age

Init ==
  /\ phase = "idle"
  /\ age = [c \in {} |-> 0]
  /\ waiting = {}
  /\ finished = {}

(* A task may be added between two passes or by a task that is being called; *)
(* the latter is still called in the pass under way.                         *)
Add(c) ==
  /\ \/ phase = "idle"
     \/ phase = "calling" /\ waiting # {}
  /\ c \notin Live
  /\ Cardinality(Live) < Capacity
  /\ age' = [d \in Live \cup {c} |-> IF d = c THEN 0 ELSE age[d]]
  /\ waiting' = IF phase = "calling" THEN waiting \cup {c} ELSE waiting
  /\ UNCHANGED <<phase, finished>>

BeginPass ==
  /\ phase = "idle"
  /\ Live # {}
  /\ phase' = "calling"
  /\ waiting' = Live
  /\ UNCHANGED <<age, finished>>

Call(c, done) ==
  /\ phase = "calling"
  /\ c \in waiting
  /\ waiting' = waiting \ {c}
  /\ age' = [age EXCEPT ![c] = (@ + 1) % LifetimeRange]
  /\ finished' = IF done THEN finished \cup {c} ELSE finished
  /\ UNCHANGED phase

EndCalls ==
  /\ phase = "calling"
  /\ waiting = {}
  /\ phase' = "reaping"
  /\ UNCHANGED <<age, waiting, finished>>

Reap(c) ==
  /\ phase = "reaping"
  /\ c \in finished
  /\ finished' = finished \ {c}
  /\ age' = [d \in Live \ {c} |-> age[d]]
  /\ UNCHANGED <<phase, waiting>>

EndPass ==
  /\ phase = "reaping"
  /\ finished = {}
  /\ phase' = "idle"
  /\ UNCHANGED <<age, waiting, finished>>

Next ==
  \/ \E c \in Contexts : Add(c)
  \/ BeginPass
  \/ \E c \in Contexts, done \in BOOLEAN : Call(c, done)
  \/ EndCalls
  \/ \E c \in Contexts : Reap(c)
  \/ EndPass

Spec == Init /\ [][Next]_poolVars
=============================================================================
