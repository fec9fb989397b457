---------------------------- MODULE WorkerProofs ----------------------------
(* Proofs about the worker, for an array of any length, any supply of       *)
(* addresses and any width of the counters.                                 *)
EXTENDS Worker, FiniteSetTheorems, TLAPS

(* The slots a loop has already called (work) or has still to look at       *)
(* (sweep): only those may hold a task whose callback answered true.        *)
MayBeDone ==
  CASE pc = "work" -> {s \in Slots : s < i}
    [] pc = "sweep" -> {s \in Slots : s <= i}
    [] OTHER -> {}

DoneConfined == \A s \in Live : tasks[s].done => s \in MayBeDone

(* The inductive invariant.  NoFinishedTaskKept speaks of the end of a pass *)
(* only; DoneConfined says for each step of it where a finished task may be.*)
WorkerInv ==
  /\ WorkerTypeOK
  /\ OwnedContexts
  /\ DoneConfined
  /\ FreeSlotsZeroed

-----------------------------------------------------------------------------
(* One slot's record stays a task when single fields are replaced. *)
LEMMA TaskUpdates ==
  ASSUME NEW t \in Task
  PROVE  /\ next_uid \in UInt32 => \A c \in Contexts : Added(t, c) \in Task
         /\ \A done \in BOOLEAN : Called(t, done) \in Task
         /\ Cleared \in Task
<1>1. 0 \in UInt32
  BY WorkerAssumption DEF UInt32
<1>2. t.lifetime \in UInt32 => (t.lifetime + 1) % UINT32_VALUES \in UInt32
  BY WorkerAssumption DEF UInt32
<1> QED
  BY <1>1, <1>2 DEF Task, Cleared, Added, Called

(* The array is well typed in every state: no step writes outside it.       *)
LEMMA TypeStep ==
  ASSUME WorkerTypeOK, [WorkerNext]_workerVars
  PROVE  WorkerTypeOK'
<1> USE WorkerAssumption DEF WorkerTypeOK, Slots
<1>1. ASSUME NEW c \in Contexts, worker_add_task(c)
      PROVE  WorkerTypeOK'
  <2>1. task_count \in Slots /\ next_uid \in UInt32
    BY <1>1 DEF worker_add_task, NotFull
  <2>2. tasks' \in [Slots -> Task]
    BY <1>1, <2>1, TaskUpdates DEF worker_add_task
  <2>3. next_uid' \in UInt32
    BY <1>1 DEF worker_add_task, UInt32
  <2> QED
    BY <1>1, <2>2, <2>3 DEF worker_add_task, NotFull, MayAdd
<1>2. ASSUME BeginWork
      PROVE  WorkerTypeOK'
  BY <1>2 DEF BeginWork
<1>3. ASSUME NEW done \in BOOLEAN, RunTask(done)
      PROVE  WorkerTypeOK'
  <2>1. i \in Slots
    BY <1>3 DEF RunTask
  <2>2. tasks' \in [Slots -> Task]
    BY <1>3, <2>1, TaskUpdates DEF RunTask
  <2> QED
    BY <1>3, <2>2 DEF RunTask
<1>4. ASSUME EndOfTasks
      PROVE  WorkerTypeOK'
  BY <1>4 DEF EndOfTasks, SweepStart, Last
<1>5. ASSUME SweepKeep
      PROVE  WorkerTypeOK'
  BY <1>5 DEF SweepKeep
<1>6. ASSUME SweepRemove
      PROVE  WorkerTypeOK'
  <2>1. i \in Slots /\ Last \in Slots
    BY <1>6 DEF SweepRemove, Last
  <2>2. tasks' \in [Slots -> Task]
    BY <1>6, <2>1, TaskUpdates DEF SweepRemove, FillGap
  <2> QED
    BY <1>6, <2>1, <2>2 DEF SweepRemove
<1>7. ASSUME EndWork
      PROVE  WorkerTypeOK'
  BY <1>7 DEF EndWork
<1>8. ASSUME UNCHANGED workerVars
      PROVE  WorkerTypeOK'
  BY <1>8 DEF workerVars
<1> QED
  BY <1>1, <1>2, <1>3, <1>4, <1>5, <1>6, <1>7, <1>8 DEF WorkerNext

LEMMA InitInv == WorkerInit => WorkerInv
<1> SUFFICES ASSUME WorkerInit PROVE WorkerInv
  OBVIOUS
<1> USE WorkerAssumption DEF WorkerInit
<1>1. WorkerTypeOK
  BY DEF WorkerTypeOK, Slots, Task, Cleared, UInt32
<1>2. OwnedContexts /\ DoneConfined /\ FreeSlotsZeroed
  BY DEF OwnedContexts, DoneConfined, FreeSlotsZeroed, Live
<1> QED
  BY <1>1, <1>2 DEF WorkerInv

(* What SweepRemove leaves in each slot. *)
LEMMA SweepRemoveSlots ==
  ASSUME WorkerTypeOK, SweepRemove
  PROVE  /\ i \in Live /\ Last \in Live
         /\ Live' = Live \ {Last}
         /\ \A s \in Live' : tasks'[s] = IF s = i THEN tasks[Last] ELSE tasks[s]
         /\ \A s \in Slots \ Live' : tasks'[s] = IF s = Last THEN Cleared ELSE tasks[s]
<1> USE WorkerAssumption DEF WorkerTypeOK, Slots, SweepRemove, Live, Last
<1>1. i \in Live /\ Last \in Live /\ Live' = Live \ {Last}
  OBVIOUS
<1>2. Live \subseteq Slots
  OBVIOUS
<1>3. \A s \in Slots : tasks'[s] = IF s = Last THEN Cleared
                                   ELSE IF s = i THEN tasks[Last] ELSE tasks[s]
  BY <1>1, <1>2 DEF FillGap
<1> QED
  BY <1>1, <1>2, <1>3

(* Contexts are neither shared, nor lost, nor freed while in use.           *)
LEMMA OwnedContextsStep ==
  ASSUME WorkerInv, [WorkerNext]_workerVars
  PROVE  OwnedContexts'
<1> USE WorkerAssumption DEF WorkerInv, WorkerTypeOK, OwnedContexts
<1>1. ASSUME NEW c \in Contexts, worker_add_task(c)
      PROVE  OwnedContexts'
  <2>1. task_count \in Slots /\ task_count \notin Live /\ Live \subseteq Slots
    BY <1>1 DEF worker_add_task, NotFull, Slots, Live
  <2>2. Live' = Live \cup {task_count}
    BY <1>1 DEF worker_add_task, Live
  <2>3. \A s \in Live : tasks'[s] = tasks[s]
    BY <1>1, <2>1 DEF worker_add_task
  <2>4. tasks'[task_count].context = c
    BY <1>1, <2>1 DEF worker_add_task, Added, Task
  <2>5. \A s \in Live : tasks[s].context # c
    BY <1>1 DEF worker_add_task
  <2>6. heap' = {tasks'[s].context : s \in Live'}
    BY <1>1, <2>2, <2>3, <2>4 DEF worker_add_task
  <2> QED
    BY <2>2, <2>3, <2>4, <2>5, <2>6
<1>2. ASSUME NEW done \in BOOLEAN, RunTask(done)
      PROVE  OwnedContexts'
  <2>1. Live' = Live /\ heap' = heap /\ Live \subseteq Slots
    BY <1>2 DEF RunTask, Live, Slots
  <2>2. \A s \in Live : tasks'[s].context = tasks[s].context
    BY <1>2, <2>1 DEF RunTask, Called, Task
  <2> QED
    BY <2>1, <2>2
<1>3. ASSUME SweepRemove
      PROVE  OwnedContexts'
  <2>1. heap' = heap \ {tasks[i].context}
    BY <1>3 DEF SweepRemove
  <2>2. heap' = {tasks'[s].context : s \in Live'}
    BY <1>3, <2>1, SweepRemoveSlots
  <2>3. ASSUME NEW s \in Live', NEW t \in Live', tasks'[s].context = tasks'[t].context
        PROVE  s = t
    BY <1>3, <2>3, SweepRemoveSlots
  <2> QED
    BY <2>2, <2>3
<1>4. ASSUME UNCHANGED <<tasks, task_count, heap>>
      PROVE  OwnedContexts'
  BY <1>4 DEF Live
<1> QED
  BY <1>1, <1>2, <1>3, <1>4
  DEF WorkerNext, workerVars, BeginWork, EndOfTasks, SweepKeep, EndWork

(* The slots above the last task are zeroed again by every removal. *)
LEMMA FreeSlotsStep ==
  ASSUME WorkerInv, [WorkerNext]_workerVars
  PROVE  FreeSlotsZeroed'
<1> USE WorkerAssumption DEF WorkerInv, WorkerTypeOK, FreeSlotsZeroed
<1>1. ASSUME NEW c \in Contexts, worker_add_task(c)
      PROVE  FreeSlotsZeroed'
  BY <1>1 DEF worker_add_task, NotFull, Live, Slots
<1>2. ASSUME NEW done \in BOOLEAN, RunTask(done)
      PROVE  FreeSlotsZeroed'
  BY <1>2 DEF RunTask, Live, Slots
<1>3. ASSUME SweepRemove
      PROVE  FreeSlotsZeroed'
  BY <1>3, SweepRemoveSlots
<1>4. ASSUME UNCHANGED <<tasks, task_count>>
      PROVE  FreeSlotsZeroed'
  BY <1>4 DEF Live
<1> QED
  BY <1>1, <1>2, <1>3, <1>4
  DEF WorkerNext, workerVars, BeginWork, EndOfTasks, SweepKeep, EndWork

(* A finished task is always ahead of the loop that removes it.  The sweep  *)
(* moves the last task into slot i and goes on below i: it relies on the    *)
(* last task having been kept by this sweep, unless it is the task removed. *)
LEMMA DoneConfinedStep ==
  ASSUME WorkerInv, [WorkerNext]_workerVars
  PROVE  DoneConfined'
<1> USE WorkerAssumption DEF WorkerInv, WorkerTypeOK, DoneConfined
<1>1. ASSUME NEW c \in Contexts, worker_add_task(c)
      PROVE  DoneConfined'
  <2>1. task_count \in Slots \ Live
    BY <1>1 DEF worker_add_task, NotFull, Slots, Live
  <2>2. ~ tasks'[task_count].done
    BY <1>1, <2>1 DEF worker_add_task, Added, FreeSlotsZeroed, Cleared
  <2>3. \A s \in Live : tasks'[s] = tasks[s]
    BY <1>1, <2>1 DEF worker_add_task, Live, Slots
  <2>4. Live' = Live \cup {task_count} /\ MayBeDone' = MayBeDone
    BY <1>1 DEF worker_add_task, Live, MayBeDone
  <2> QED
    BY <2>2, <2>3, <2>4
<1>2. ASSUME BeginWork
      PROVE  DoneConfined'
  BY <1>2 DEF BeginWork, MayBeDone, Live
<1>3. ASSUME NEW done \in BOOLEAN, RunTask(done)
      PROVE  DoneConfined'
  BY <1>3 DEF RunTask, MayBeDone, Live, Slots
<1>4. ASSUME EndOfTasks
      PROVE  DoneConfined'
  BY <1>4 DEF EndOfTasks, SweepStart, Last, MayBeDone, Live, Slots
<1>5. ASSUME SweepKeep
      PROVE  DoneConfined'
  BY <1>5 DEF SweepKeep, MayBeDone, Live, Slots
<1>6. ASSUME SweepRemove
      PROVE  DoneConfined'
  <2>1. pc = "sweep" /\ pc' = "sweep" /\ i' = i - 1
    BY <1>6 DEF SweepRemove
  <2>2. \A s \in Live' : tasks'[s].done => s < i
    BY <1>6, <2>1, SweepRemoveSlots DEF MayBeDone, Live, Last, Slots
  <2>3. Live' \subseteq Slots
    BY <1>6 DEF SweepRemove, Live, Slots
  <2> QED
    BY <2>1, <2>2, <2>3 DEF MayBeDone, Slots
<1>7. ASSUME EndWork
      PROVE  DoneConfined'
  BY <1>7 DEF EndWork, MayBeDone, Live, Slots
<1>8. ASSUME UNCHANGED workerVars
      PROVE  DoneConfined'
  BY <1>8 DEF workerVars, MayBeDone, Live
<1> QED
  BY <1>1, <1>2, <1>3, <1>4, <1>5, <1>6, <1>7, <1>8 DEF WorkerNext

LEMMA InvNext == WorkerInv /\ [WorkerNext]_workerVars => WorkerInv'
<1> SUFFICES ASSUME WorkerInv, [WorkerNext]_workerVars
             PROVE  WorkerInv'
  OBVIOUS
<1>1. WorkerTypeOK'
  BY TypeStep DEF WorkerInv
<1> QED
  BY <1>1, OwnedContextsStep, DoneConfinedStep, FreeSlotsStep DEF WorkerInv

-----------------------------------------------------------------------------
(* What each step is to whoever knows the tasks by their contexts only: the *)
(* application that composes the worker with its tasks.                     *)

(* The task the work loop is at is in use and has not answered yet. *)
LEMMA CurrentTask ==
  ASSUME WorkerInv, pc = "work", i < task_count
  PROVE  tasks[i].context \in heap \ Finished
<1> USE DEF WorkerInv, WorkerTypeOK
<1>1. i \in Live
  BY DEF Live
<1>2. ~ tasks[i].done
  BY <1>1 DEF DoneConfined, MayBeDone
<1> QED
  BY <1>1, <1>2 DEF OwnedContexts, Finished

(* A new task has not answered, and no task moves to make room for it. *)
LEMMA AddEffect ==
  ASSUME WorkerInv, NEW c \in Contexts, worker_add_task(c)
  PROVE  /\ c \notin heap /\ heap' = heap \cup {c}
         /\ Finished' = Finished
         /\ task_count' = task_count + 1 /\ pc' = pc /\ i' = i
         /\ pc = "work" => tasks'[i].context = tasks[i].context
<1> USE WorkerAssumption DEF WorkerInv, WorkerTypeOK
<1> DEFINE n == task_count
<1>1. n \in Slots \ Live /\ Live \subseteq Slots /\ Live' = Live \cup {n}
  BY DEF worker_add_task, NotFull, Slots, Live
<1>2. \A s \in Live : tasks'[s] = tasks[s]
  BY <1>1 DEF worker_add_task
<1>3. ~ tasks'[n].done
  BY <1>1 DEF worker_add_task, Added, Task, FreeSlotsZeroed, Cleared
<1>4. Finished' = Finished
  BY <1>1, <1>2, <1>3 DEF Finished
<1>5. pc = "work" => tasks'[i] = tasks[i]
  BY <1>2 DEF worker_add_task, MayAdd, Live
<1> QED
  BY <1>4, <1>5 DEF worker_add_task

(* One task answers; no other task's answer changes. *)
LEMMA RunEffect ==
  ASSUME WorkerInv, NEW done \in BOOLEAN, RunTask(done)
  PROVE  /\ tasks[i].context \in heap \ Finished
         /\ Finished' = IF done THEN Finished \cup {tasks[i].context} ELSE Finished
         /\ heap' = heap /\ task_count' = task_count /\ pc' = pc
<1> USE WorkerAssumption DEF WorkerInv, WorkerTypeOK
<1>1. /\ pc = "work" /\ i < task_count /\ i \in Live /\ Live' = Live /\ Live \subseteq Slots
  BY DEF RunTask, Live, Slots
<1>2. /\ \A s \in Live : tasks'[s].context = tasks[s].context
      /\ \A s \in Live \ {i} : tasks'[s] = tasks[s]
      /\ tasks'[i].done = done
  BY <1>1 DEF RunTask, Called, Task
<1>3. ~ tasks[i].done
  BY <1>1 DEF DoneConfined, MayBeDone
<1>4. Finished' = IF done THEN Finished \cup {tasks[i].context} ELSE Finished
  BY <1>1, <1>2, <1>3 DEF Finished
<1> QED
  BY <1>1, <1>4, CurrentTask DEF RunTask

(* The task that is removed had answered that it is done. *)
LEMMA RemoveEffect ==
  ASSUME WorkerInv, SweepRemove
  PROVE  /\ tasks[i].context \in heap \cap Finished
         /\ heap' = heap \ {tasks[i].context}
         /\ Finished' = Finished \ {tasks[i].context}
         /\ task_count' = task_count - 1 /\ pc = "sweep" /\ pc' = pc
<1> USE DEF WorkerInv, WorkerTypeOK
<1>1. /\ i \in Live /\ Last \in Live /\ Live' = Live \ {Last}
      /\ \A s \in Live' : tasks'[s] = IF s = i THEN tasks[Last] ELSE tasks[s]
  BY SweepRemoveSlots
<1>2. tasks[i].done
  BY DEF SweepRemove
<1>3. /\ tasks[i].context \in heap \cap Finished
      /\ Finished' = Finished \ {tasks[i].context}
  BY <1>1, <1>2 DEF Finished, OwnedContexts
<1> QED
  BY <1>3 DEF SweepRemove

(* The other steps only move the loops on. *)
LEMMA LoopEffect ==
  ASSUME BeginWork \/ EndOfTasks \/ SweepKeep \/ EndWork
  PROVE  heap' = heap /\ task_count' = task_count /\ Finished' = Finished
<1>1. UNCHANGED <<tasks, task_count, heap>>
  BY DEF BeginWork, EndOfTasks, SweepKeep, EndWork
<1> QED
  BY <1>1 DEF Finished, Live

LEMMA FinishedInUse ==
  ASSUME WorkerInv
  PROVE  Finished \subseteq heap
  BY DEF WorkerInv, OwnedContexts, Finished

(* Between two passes no task has answered that it is done. *)
LEMMA IdleFinished ==
  ASSUME WorkerInv, pc = "idle"
  PROVE  Finished = {}
  BY DEF WorkerInv, DoneConfined, MayBeDone, Finished

-----------------------------------------------------------------------------
(* Every reachable state satisfies the inductive invariant. *)
THEOREM Invariance == WorkerSpec => []WorkerInv
  BY InitInv, InvNext, PTL DEF WorkerSpec

(* worker_add_task and the two loops of worker_work never leave the array   *)
(* (worker.c 7-73), whatever tasks the callbacks add while a pass runs.     *)
THEOREM TypeCorrect == WorkerSpec => []WorkerTypeOK
<1>1. WorkerInv => WorkerTypeOK
  BY DEF WorkerInv
<1> QED
  BY <1>1, Invariance, PTL

(* No callback is given a freed context, no context is freed twice, and     *)
(* none leaks (worker.c 23, 56 and the moves of lines 58-65).               *)
THEOREM ContextsOwned == WorkerSpec => []OwnedContexts
<1>1. WorkerInv => OwnedContexts
  BY DEF WorkerInv
<1> QED
  BY <1>1, Invariance, PTL

(* The zeroed slots on which worker_add_task relies (worker.c 58-64). *)
THEOREM FreeSlots == WorkerSpec => []FreeSlotsZeroed
<1>1. WorkerInv => FreeSlotsZeroed
  BY DEF WorkerInv
<1> QED
  BY <1>1, Invariance, PTL

(* The downward sweep with its moves misses no finished task (worker.c      *)
(* 47-68).                                                                  *)
THEOREM FinishedTasksLeave == WorkerSpec => []NoFinishedTaskKept
<1>1. WorkerInv => NoFinishedTaskKept
  BY DEF WorkerInv, DoneConfined, MayBeDone, NoFinishedTaskKept
<1> QED
  BY <1>1, Invariance, PTL

-----------------------------------------------------------------------------
(* The array, its loops and its swaps implement the task pool.  A slot of   *)
(* the array is only a place: the lemmas say that looking a task up by its  *)
(* context finds it wherever the sweep has moved it to.                     *)

(* Among the slots L of an array T whose contexts differ, a context finds   *)
(* the slot it is in.  Stated of any array, to be used before and after a   *)
(* step.                                                                    *)
LEMMA SlotFound ==
  ASSUME NEW T, NEW L, NEW s \in L,
         \A x, y \in L : T[x].context = T[y].context => x = y
  PROVE  (CHOOSE x \in L : T[x].context = T[s].context) = s
<1> DEFINE found == CHOOSE x \in L : T[x].context = T[s].context
<1>1. found \in L /\ T[found].context = T[s].context
  OBVIOUS
<1> QED
  BY <1>1

(* The refinement mapping's ages, task by task. *)
LEMMA AgesOf ==
  ASSUME OwnedContexts
  PROVE  /\ DOMAIN Ages = heap
         /\ \A s \in Live : Ages[tasks[s].context] = tasks[s].lifetime
<1>1. DOMAIN Ages = heap
  BY DEF Ages, OwnedContexts
<1>2. ASSUME NEW s \in Live
      PROVE  Ages[tasks[s].context] = tasks[s].lifetime
  <2>1. \A x, y \in Live : tasks[x].context = tasks[y].context => x = y
    BY DEF OwnedContexts
  <2>2. SlotOf(tasks[s].context) = s
    BY <2>1, SlotFound DEF SlotOf
  <2> QED
    BY <2>2 DEF Ages
<1> QED
  BY <1>1, <1>2

LEMMA AgesOfNext ==
  ASSUME OwnedContexts'
  PROVE  /\ (DOMAIN Ages)' = heap'
         /\ \A s \in Live' : Ages'[tasks'[s].context] = tasks'[s].lifetime
         /\ Ages' = [c \in heap' |-> Ages'[c]]
<1>1. (DOMAIN Ages)' = heap' /\ Ages' = [c \in heap' |-> Ages'[c]]
  BY DEF Ages, OwnedContexts
<1>2. ASSUME NEW s \in Live'
      PROVE  Ages'[tasks'[s].context] = tasks'[s].lifetime
  <2>1. \A x, y \in Live' : tasks'[x].context = tasks'[y].context => x = y
    BY DEF OwnedContexts
  <2>2. (CHOOSE x \in Live' : tasks'[x].context = tasks'[s].context) = s
    BY <2>1, SlotFound
  <2> QED
    BY <2>2 DEF Ages, SlotOf
<1> QED
  BY <1>1, <1>2

(* There are no more contexts than tasks. *)
LEMMA HeapSize ==
  ASSUME WorkerTypeOK, OwnedContexts
  PROVE  Cardinality(heap) \in Nat /\ Cardinality(heap) <= task_count
<1> DEFINE f == [s \in Live |-> tasks[s].context]
<1>1. f \in Surjection(Live, heap)
  BY DEF OwnedContexts, Surjection
<1>2. task_count \in Nat
  BY DEF WorkerTypeOK
<1>3. IsFiniteSet(Live) /\ Cardinality(Live) = task_count
  BY <1>2, FS_Interval DEF Live
<1> QED
  BY <1>1, <1>3, FS_Surjection, FS_CardinalityType

-----------------------------------------------------------------------------
(* What a step leaves of the pool: if neither the tasks' contexts nor their *)
(* lifetimes change, the ages do not.                                       *)
LEMMA SameAges ==
  ASSUME OwnedContexts, UNCHANGED <<tasks, task_count>>
  PROVE  Ages' = Ages
<1>1. Live' = Live
  BY DEF Live
<1> QED
  BY <1>1 DEF Ages, SlotOf

(* The empty array is the empty pool. *)
LEMMA InitRefines == WorkerInit => Pool!Init
<1> SUFFICES ASSUME WorkerInit PROVE Pool!Init
  OBVIOUS
<1>1. Live = {}
  BY DEF WorkerInit, Live
<1>2. Ages = [c \in {} |-> 0]
  BY <1>1 DEF Ages
<1>3. PhaseOf = "idle" /\ Waiting = {} /\ Finished = {}
  BY <1>1 DEF WorkerInit, PhaseOf, Waiting, Finished
<1> QED
  BY <1>2, <1>3 DEF Pool!Init

(* A task appended to the array is a task added to the pool. *)
LEMMA AddRefines ==
  ASSUME WorkerInv, WorkerInv', NEW c \in Contexts, worker_add_task(c)
  PROVE  Pool!Add(c)
<1> USE WorkerAssumption DEF WorkerInv, WorkerTypeOK
<1> DEFINE n == task_count
<1>1. /\ n \in Slots \ Live /\ Live \subseteq Slots /\ Live' = Live \cup {n} /\ n \in Live'
      /\ Last' = n /\ heap' = heap \cup {c} /\ c \notin heap
  BY DEF worker_add_task, NotFull, Slots, Live, Last
<1>2. \A s \in Live : tasks'[s] = tasks[s]
  BY <1>1 DEF worker_add_task
<1>3. tasks'[n].context = c /\ tasks'[n].lifetime = 0 /\ tasks'[n].done = FALSE
  BY <1>1 DEF worker_add_task, Added, Task, FreeSlotsZeroed, Cleared
<1>4. c \notin Pool!Live /\ Pool!Cardinality(Pool!Live) < MAX_WORKER_TASKS
  <2>1. Pool!Live = heap
    BY AgesOf DEF Pool!Live
  <2>2. Pool!Cardinality(heap) = Cardinality(heap)
    BY DEF Pool!Cardinality, Cardinality
  <2>3. Cardinality(heap) < MAX_WORKER_TASKS
    BY HeapSize DEF worker_add_task, NotFull
  <2> QED
    BY <1>1, <2>1, <2>2, <2>3
<1>5. Ages' = [d \in Pool!Live \cup {c} |-> IF d = c THEN 0 ELSE Ages[d]]
  <2>1. \A d \in heap' : Ages'[d] = IF d = c THEN 0 ELSE Ages[d]
    BY <1>1, <1>2, <1>3, AgesOf, AgesOfNext DEF OwnedContexts
  <2> QED
    BY <1>1, <2>1, AgesOf, AgesOfNext DEF Pool!Live
<1>6. PhaseOf' = PhaseOf
  BY DEF worker_add_task, PhaseOf
<1>7. Finished' = Finished
  BY AddEffect
<1>8. CASE pc = "idle"
  <2>1. PhaseOf = "idle" /\ Waiting = {} /\ Waiting' = {}
    BY <1>8 DEF PhaseOf, Waiting, worker_add_task
  <2> QED
    BY <1>4, <1>5, <1>6, <1>7, <2>1 DEF Pool!Add
<1>9. CASE pc = "work"
  <2>1. i < task_count /\ i \in Live
    BY <1>9 DEF worker_add_task, MayAdd, Live
  <2>2. Waiting # {}
    <3>1. i \in i .. Last
      BY <2>1 DEF Live, Last
    <3>2. tasks[i].context \in Waiting
      BY <1>9, <3>1 DEF Waiting
    <3> QED
      BY <3>2
  <2>3. Waiting' = Waiting \cup {c}
    <3>1. (i .. Last)' = (i .. Last) \cup {n} /\ (i .. Last) \subseteq Live
      BY <1>1, <1>9, <2>1 DEF worker_add_task, Last, Live
    <3> QED
      BY <1>2, <1>3, <1>9, <3>1 DEF Waiting, worker_add_task
  <2>4. PhaseOf = "calling"
    BY <1>9 DEF PhaseOf
  <2> QED
    BY <1>4, <1>5, <1>6, <1>7, <2>2, <2>3, <2>4 DEF Pool!Add
<1> QED
  BY <1>8, <1>9 DEF worker_add_task, MayAdd

(* An iteration of the work loop is one call of one waiting task. *)
LEMMA RunRefines ==
  ASSUME WorkerInv, WorkerInv', NEW done \in BOOLEAN, RunTask(done)
  PROVE  Pool!Call(tasks[i].context, done)
<1> USE WorkerAssumption DEF WorkerInv, WorkerTypeOK
<1> DEFINE c == tasks[i].context
<1>1. /\ pc = "work" /\ pc' = "work" /\ i \in Live /\ Live' = Live /\ Live \subseteq Slots
      /\ heap' = heap /\ i' = i + 1
  BY DEF RunTask, Live, Slots
<1>2. /\ \A s \in Live : tasks'[s].context = tasks[s].context
      /\ \A s \in Live \ {i} : tasks'[s] = tasks[s]
      /\ tasks'[i].lifetime = (tasks[i].lifetime + 1) % UINT32_VALUES
      /\ tasks'[i].done = done
  BY <1>1 DEF RunTask, Called, Task
<1>3. Ages' = [Ages EXCEPT ![c] = (@ + 1) % UINT32_VALUES]
  <2>1. \A d \in heap : Ages'[d] = IF d = c THEN (Ages[d] + 1) % UINT32_VALUES ELSE Ages[d]
    BY <1>1, <1>2, AgesOf, AgesOfNext DEF OwnedContexts
  <2> QED
    BY <1>1, <2>1, AgesOf, AgesOfNext
<1>4. c \in Waiting /\ Waiting' = Waiting \ {c}
  <2>1. /\ (i .. Last)' = (i .. Last) \ {i} /\ i \in i .. Last /\ (i .. Last) \subseteq Live
    BY <1>1 DEF Last, Live, RunTask
  <2> QED
    BY <1>1, <1>2, <2>1 DEF Waiting, OwnedContexts
<1>5. Finished' = IF done THEN Finished \cup {c} ELSE Finished
  BY RunEffect
<1>6. PhaseOf = "calling" /\ PhaseOf' = "calling"
  BY <1>1 DEF PhaseOf
<1> QED
  BY <1>3, <1>4, <1>5, <1>6 DEF Pool!Call

(* A removal by the sweep takes that one task from the pool, although the   *)
(* last task changes its place.                                             *)
LEMMA RemoveRefines ==
  ASSUME WorkerInv, WorkerInv', SweepRemove
  PROVE  Pool!Reap(tasks[i].context)
<1> USE WorkerAssumption DEF WorkerInv, WorkerTypeOK
<1> DEFINE c == tasks[i].context
<1>1. /\ i \in Live /\ Last \in Live /\ Live' = Live \ {Last}
      /\ \A s \in Live' : tasks'[s] = IF s = i THEN tasks[Last] ELSE tasks[s]
  BY SweepRemoveSlots
<1>2. pc = "sweep" /\ pc' = "sweep" /\ tasks[i].done /\ heap' = heap \ {c}
  BY DEF SweepRemove
<1>3. c \in Finished /\ Finished' = Finished \ {c}
  BY RemoveEffect
<1>4. Ages' = [d \in Pool!Live \ {c} |-> Ages[d]]
  <2>1. \A d \in heap' : Ages'[d] = Ages[d]
    BY <1>1, <1>2, AgesOf, AgesOfNext DEF OwnedContexts
  <2> QED
    BY <1>2, <2>1, AgesOf, AgesOfNext DEF Pool!Live
<1>5. PhaseOf = "reaping" /\ PhaseOf' = "reaping" /\ Waiting = {} /\ Waiting' = {}
  BY <1>2 DEF PhaseOf, Waiting
<1> QED
  BY <1>3, <1>4, <1>5 DEF Pool!Reap

(* Every step of the worker is a step of the pool or none. *)
LEMMA StepRefines ==
  ASSUME WorkerInv, WorkerInv', [WorkerNext]_workerVars
  PROVE  [Pool!Next]_(Pool!poolVars)
<1> USE WorkerAssumption DEF WorkerInv, WorkerTypeOK
<1>1. ASSUME NEW c \in Contexts, worker_add_task(c)
      PROVE  Pool!Next
  BY <1>1, AddRefines DEF Pool!Next
<1>2. ASSUME BeginWork
      PROVE  Pool!BeginPass
  <2>1. Ages' = Ages /\ Pool!Live = heap /\ 0 \in Live
    BY <1>2, SameAges, AgesOf DEF BeginWork, Pool!Live, Live
  <2>2. Waiting' = heap /\ heap # {}
    BY <1>2, <2>1 DEF BeginWork, Waiting, OwnedContexts, Live, Last
  <2>3. Finished' = Finished
    BY <1>2, LoopEffect
  <2> QED
    BY <1>2, <2>1, <2>2, <2>3 DEF BeginWork, PhaseOf, Pool!BeginPass
<1>3. ASSUME NEW done \in BOOLEAN, RunTask(done)
      PROVE  Pool!Next
  <2>1. tasks[i].context \in Contexts
    BY <1>3 DEF RunTask, OwnedContexts, Live
  <2> QED
    BY <1>3, <2>1, RunRefines DEF Pool!Next
<1>4. ASSUME EndOfTasks
      PROVE  Pool!EndCalls
  <2>1. Ages' = Ages
    BY <1>4, SameAges DEF EndOfTasks
  <2>2. Waiting = {} /\ Waiting' = {}
    BY <1>4 DEF EndOfTasks, Waiting, Last
  <2>3. Finished' = Finished
    BY <1>4, LoopEffect
  <2> QED
    BY <1>4, <2>1, <2>2, <2>3 DEF EndOfTasks, PhaseOf, Pool!EndCalls
<1>5. ASSUME SweepKeep \/ UNCHANGED workerVars
      PROVE  UNCHANGED Pool!poolVars
  <2>1. Ages' = Ages
    BY <1>5, SameAges DEF SweepKeep, workerVars
  <2>2. Finished' = Finished /\ PhaseOf' = PhaseOf /\ Waiting' = Waiting
    BY <1>5 DEF SweepKeep, workerVars, Finished, PhaseOf, Waiting, Live, Last
  <2> QED
    BY <2>1, <2>2 DEF Pool!poolVars
<1>6. ASSUME SweepRemove
      PROVE  Pool!Next
  <2>1. tasks[i].context \in Contexts
    BY <1>6, SweepRemoveSlots DEF OwnedContexts
  <2> QED
    BY <1>6, <2>1, RemoveRefines DEF Pool!Next
<1>7. ASSUME EndWork
      PROVE  Pool!EndPass
  <2>1. Ages' = Ages
    BY <1>7, SameAges DEF EndWork
  <2>2. Finished = {} /\ Finished' = {}
    BY <1>7, LoopEffect DEF EndWork, Finished, DoneConfined, MayBeDone, Live
  <2> QED
    BY <1>7, <2>1, <2>2 DEF EndWork, PhaseOf, Waiting, Pool!EndPass
<1> QED
  BY <1>1, <1>2, <1>3, <1>4, <1>5, <1>6, <1>7 DEF WorkerNext, Pool!Next

(* worker_add_task and worker_work implement the task pool (worker.c 7-73): *)
(* every task, the ones added by callbacks included, is called once in each *)
(* pass, and exactly the finished ones leave it.                            *)
THEOREM Refinement == WorkerSpec => RefinesTaskPool
<1>1. WorkerInit => Pool!Init
  BY InitRefines
<1>2. WorkerInv /\ WorkerInv' /\ [WorkerNext]_workerVars => [Pool!Next]_(Pool!poolVars)
  BY StepRefines
<1> QED
  BY <1>1, <1>2, Invariance, PTL DEF WorkerSpec, RefinesTaskPool, Pool!Spec
=============================================================================
