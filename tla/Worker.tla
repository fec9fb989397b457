------------------------------- MODULE Worker -------------------------------
(***************************************************************************)
(* The cooperative scheduler of src/worker/worker.c: a fixed array of      *)
(* tasks, worker_add_task and worker_work.  worker_work is the loop that   *)
(* calls every task (steps BeginWork, RunTask, EndOfTasks) followed by the *)
(* loop that removes the finished ones from the top of the array down,     *)
(* filling each gap with the last task (SweepKeep, SweepRemove, EndWork).  *)
(* A task is identified by the address of the context the worker malloc'd  *)
(* for it.  A callback may add tasks to the worker that is calling it.     *)
(***************************************************************************)
EXTENDS Integers, FiniteSets

CONSTANTS
  MAX_WORKER_TASKS,  \* length of the task array: 64 in the build
  Contexts,          \* the addresses malloc may return for a context
  UINT32_VALUES,     \* how many values a uint32_t has: 2^32 in the build
  NULL               \* the null pointer

ASSUME WorkerAssumption ==
  /\ MAX_WORKER_TASKS \in Nat \ {0}
  /\ UINT32_VALUES \in Nat \ {0}
  /\ NULL \notin Contexts

VARIABLES
  tasks,       \* Worker.tasks
  task_count,  \* Worker.task_count
  next_uid,    \* Worker.next_uid
  heap,        \* the contexts malloc'd and not yet freed
  pc,          \* where worker_work is: "idle" (not running), "work" or "sweep"
  i            \* the index of the loop that is running

workerVars == <<tasks, task_count, next_uid, heap, pc, i>>

Slots == 0 .. MAX_WORKER_TASKS - 1
UInt32 == 0 .. UINT32_VALUES - 1
Task == [uid : UInt32, context : Contexts \cup {NULL}, lifetime : UInt32, done : BOOLEAN]
Cleared == [uid |-> 0, context |-> NULL, lifetime |-> 0, done |-> FALSE]
Live == 0 .. task_count - 1
Last == task_count - 1

(* The array before the pool is used: Worker worker = {0}. *)
WorkerInit ==
  /\ tasks = [s \in Slots |-> Cleared]
  /\ task_count = 0
  /\ next_uid = 0
  /\ heap = {}
  /\ pc = "idle"
  /\ i = 0

(* Who may call worker_add_task: the application between two passes, or the *)
(* callback that the work loop is in.                                       *)
MayAdd == (pc = "idle") \/ (pc = "work" /\ i < task_count)

(* Seeded fault: one task too many is accepted. *)
NotFullOffByOne == task_count <= MAX_WORKER_TASKS

NotFull == task_count < MAX_WORKER_TASKS

(* The slot of a new task.  Its done flag is left as it is. *)
Added(task, context) ==
  [task EXCEPT !.uid = next_uid, !.lifetime = 0, !.context = context]

(* A full worker answers false and changes nothing. *)
worker_add_task(context) ==
  /\ MayAdd
  /\ NotFull
  /\ context \notin heap
  /\ tasks' = [tasks EXCEPT ![task_count] = Added(@, context)]
  /\ task_count' = task_count + 1
  /\ next_uid' = (next_uid + 1) % UINT32_VALUES
  /\ heap' = heap \cup {context}
  /\ UNCHANGED <<pc, i>>

(* worker_work is entered; with no task it returns 0 at once. *)
BeginWork ==
  /\ pc = "idle"
  /\ task_count > 0
  /\ pc' = "work"
  /\ i' = 0
  /\ UNCHANGED <<tasks, task_count, next_uid, heap>>

Called(task, done) ==
  [task EXCEPT !.done = done, !.lifetime = (@ + 1) % UINT32_VALUES]

(* One iteration of the work loop: the task's callback returns done. *)
RunTask(done) ==
  /\ pc = "work"
  /\ i < task_count
  /\ tasks' = [tasks EXCEPT ![i] = Called(@, done)]
  /\ i' = i + 1
  /\ UNCHANGED <<task_count, next_uid, heap, pc>>

(* Seeded fault: the sweep starts one slot too low. *)
SweepStartTooLow == Last - 1

SweepStart == Last

(* The work loop's exit test: task_count is read again in every iteration. *)
EndOfTasks ==
  /\ pc = "work"
  /\ i >= task_count
  /\ pc' = "sweep"
  /\ i' = SweepStart
  /\ UNCHANGED <<tasks, task_count, next_uid, heap>>

(* Seeded fault: continue skips the decrement. *)
SweepKeepStuck ==
  /\ pc = "sweep"
  /\ i >= 0
  /\ ~ tasks[i].done
  /\ UNCHANGED workerVars

SweepKeep ==
  /\ pc = "sweep"
  /\ i >= 0
  /\ ~ tasks[i].done
  /\ i' = i - 1
  /\ UNCHANGED <<tasks, task_count, next_uid, heap, pc>>

(* Seeded faults: the last slot keeps its task; the gap is never filled; *)
(* the moved task starts a new life.                                     *)
FillGapKeepingLast == [tasks EXCEPT ![i] = tasks[Last]]
FillGapWithNothing == [tasks EXCEPT ![Last] = Cleared]
FillGapRestarting == [tasks EXCEPT ![i] = [tasks[Last] EXCEPT !.lifetime = 0], ![Last] = Cleared]

(* The last task takes the finished task's slot and the last slot is zeroed. *)
(* When the finished task is the last one its slot is only zeroed: the       *)
(* second update then overrides the first.                                   *)
FillGap == [tasks EXCEPT ![i] = tasks[Last], ![Last] = Cleared]

SweepRemove ==
  /\ pc = "sweep"
  /\ i >= 0
  /\ tasks[i].done
  /\ heap' = heap \ {tasks[i].context}
  /\ tasks' = FillGap
  /\ task_count' = task_count - 1
  /\ i' = i - 1
  /\ UNCHANGED <<next_uid, pc>>

(* worker_work returns task_count. *)
EndWork ==
  /\ pc = "sweep"
  /\ i < 0
  /\ pc' = "idle"
  /\ i' = 0
  /\ UNCHANGED <<tasks, task_count, next_uid, heap>>

WorkerNext ==
  \/ \E c \in Contexts : worker_add_task(c)
  \/ BeginWork
  \/ \E done \in BOOLEAN : RunTask(done)
  \/ EndOfTasks
  \/ SweepKeep
  \/ SweepRemove
  \/ EndWork

(* Every callback returns, and the loops of worker_work run to their end.  *)
(* Nobody has to add a task, and nobody has to start a pass.               *)
WorkerFairness ==
  /\ WF_workerVars(\E done \in BOOLEAN : RunTask(done))
  /\ WF_workerVars(EndOfTasks \/ SweepKeep \/ SweepRemove \/ EndWork)

WorkerSpec == WorkerInit /\ [][WorkerNext]_workerVars /\ WorkerFairness

-----------------------------------------------------------------------------
(* The array holds at most MAX_WORKER_TASKS tasks, the loop index stays in  *)
(* the range each loop gives it, and every slot holds a task: the bound     *)
(* check of worker_add_task, callbacks that add tasks included.             *)
WorkerTypeOK ==
  /\ tasks \in [Slots -> Task]
  /\ task_count \in 0 .. MAX_WORKER_TASKS
  /\ next_uid \in UInt32
  /\ heap \subseteq Contexts
  /\ pc \in {"idle", "work", "sweep"}
  /\ i \in -1 .. MAX_WORKER_TASKS
  /\ pc = "idle" => i = 0
  /\ pc = "work" => i \in 0 .. task_count
  /\ pc = "sweep" => i \in -1 .. task_count - 1

(* Contexts are owned: every task in the array has a context of its own     *)
(* that is not freed, and every context not freed belongs to a task.  So no *)
(* callback is given a freed context, none is freed twice and none leaks,   *)
(* whatever the swaps of the sweep do.                                      *)
OwnedContexts ==
  /\ heap = {tasks[s].context : s \in Live}
  /\ \A s, t \in Live : tasks[s].context = tasks[t].context => s = t

(* A task whose callback answered true does not survive the pass: between   *)
(* two passes no task in the array is done, although the sweep moves tasks  *)
(* into slots it has already passed.                                        *)
NoFinishedTaskKept == pc = "idle" => \A s \in Live : ~ tasks[s].done

(* Slots above task_count are zeroed.  worker_add_task does not set done,   *)
(* so a task added by a callback depends on it.                             *)
FreeSlotsZeroed == \A s \in Slots \ Live : tasks[s] = Cleared

-----------------------------------------------------------------------------
(* The refinement mapping: the array as the set of its tasks. *)
SlotOf(c) == CHOOSE s \in Live : tasks[s].context = c
Ages == [c \in {tasks[s].context : s \in Live} |-> tasks[SlotOf(c)].lifetime]
PhaseOf == CASE pc = "idle" -> "idle" [] pc = "work" -> "calling" [] pc = "sweep" -> "reaping"
Waiting == IF pc = "work" THEN {tasks[s].context : s \in i .. Last} ELSE {}
Finished == {tasks[s].context : s \in {t \in Live : tasks[t].done}}

Pool == INSTANCE TaskPool WITH
          Capacity <- MAX_WORKER_TASKS, LifetimeRange <- UINT32_VALUES,
          phase <- PhaseOf, age <- Ages, waiting <- Waiting, finished <- Finished

(* The array, its two loops and its swaps implement the task pool: every    *)
(* task is called once per pass, the ones added during the pass included,   *)
(* with its own call count, and exactly the finished ones leave.            *)
RefinesTaskPool == Pool!Spec

(* worker_work returns: the loop bound is read again in each iteration and  *)
(* callbacks may add tasks, but only MAX_WORKER_TASKS of them fit.          *)
EveryPassEnds == pc # "idle" ~> pc = "idle"
=============================================================================
