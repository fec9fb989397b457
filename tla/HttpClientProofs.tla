-------------------------- MODULE HttpClientProofs --------------------------
(***************************************************************************)
(* What holds of the HTTP client for every number of requests, tasks,      *)
(* bytes, addresses and open files, every set of network faults and every  *)
(* order in which the network and the passes interleave.  The worker's     *)
(* half of the argument is that of WorkerProofs, the sockets' half that of *)
(* TcpClientProofs.                                                        *)
(***************************************************************************)
EXTENDS HttpClientInvariant, TcpClientProofs

P == INSTANCE WorkerProofs WITH Contexts <- Clients

(* HttpClient's name for the worker and this module's mean the same. *)
LEMMA SameAssumption == P!WorkerAssumption
  BY HttpClientAssumption DEF HttpClientAssumption, W!WorkerAssumption, P!WorkerAssumption

LEMMA SameType == (W!WorkerTypeOK <=> P!WorkerTypeOK) /\ (W!WorkerTypeOK' <=> P!WorkerTypeOK')
  BY DEF W!WorkerTypeOK, P!WorkerTypeOK, W!Slots, P!Slots, W!Task, P!Task, W!UInt32, P!UInt32

LEMMA SameFinished == W!Finished = P!Finished /\ W!Finished' = P!Finished'
  BY DEF W!Finished, P!Finished, W!Live, P!Live

LEMMA SameInit == W!WorkerInit => P!WorkerInit
  BY DEF W!WorkerInit, P!WorkerInit, W!Slots, P!Slots, W!Cleared, P!Cleared

LEMMA SameAdd ==
  ASSUME NEW c, W!worker_add_task(c)
  PROVE  P!worker_add_task(c)
  BY DEF W!worker_add_task, P!worker_add_task, W!MayAdd, P!MayAdd, W!NotFull, P!NotFull,
         W!Added, P!Added

LEMMA SameRun ==
  ASSUME NEW done, W!RunTask(done)
  PROVE  P!RunTask(done)
  BY DEF W!RunTask, P!RunTask, W!Called, P!Called

LEMMA SameLoop ==
  /\ W!BeginWork => P!BeginWork
  /\ W!EndOfTasks => P!EndOfTasks
  /\ W!SweepKeep => P!SweepKeep
  /\ W!EndWork => P!EndWork
  BY DEF W!BeginWork, P!BeginWork, W!EndOfTasks, P!EndOfTasks, W!SweepKeep, P!SweepKeep,
         W!EndWork, P!EndWork, W!SweepStart, P!SweepStart, W!Last, P!Last

LEMMA SameRemove == W!SweepRemove => P!SweepRemove
  BY DEF W!SweepRemove, P!SweepRemove, W!FillGap, P!FillGap, W!Last, P!Last, W!Cleared, P!Cleared

(* The lemmas of WorkerProofs for this worker. *)
LEMMA PoolInit == W!WorkerInit => P!WorkerInv
  BY SameInit, P!InitInv, SameAssumption

LEMMA PoolNext == P!WorkerInv /\ [P!WorkerNext]_(P!workerVars) => P!WorkerInv'
  BY P!InvNext, SameAssumption

LEMMA PoolType == P!WorkerInv => W!WorkerTypeOK
  BY SameType DEF P!WorkerInv

LEMMA PoolTypeNext == P!WorkerInv' => W!WorkerTypeOK'
  BY SameType DEF P!WorkerInv

LEMMA PoolCurrent ==
  ASSUME P!WorkerInv, pc = "work", i < task_count
  PROVE  Me \in heap \ W!Finished
  BY P!CurrentTask, SameFinished, SameAssumption DEF Me

LEMMA PoolAdd ==
  ASSUME P!WorkerInv, NEW c \in Clients, W!worker_add_task(c)
  PROVE  /\ P!WorkerInv'
         /\ c \notin heap /\ heap' = heap \cup {c}
         /\ W!Finished' = W!Finished
         /\ task_count' = task_count + 1 /\ pc' = pc /\ i' = i
         /\ pc = "work" => Me' = Me
<1>1. P!worker_add_task(c)
  BY SameAdd
<1>2. P!WorkerInv'
  BY <1>1, PoolNext DEF P!WorkerNext
<1> QED
  BY <1>1, <1>2, P!AddEffect, SameFinished, SameAssumption DEF Me

LEMMA PoolRun ==
  ASSUME P!WorkerInv, NEW done \in BOOLEAN, W!RunTask(done)
  PROVE  /\ P!WorkerInv'
         /\ Me \in heap \ W!Finished
         /\ W!Finished' = IF done THEN W!Finished \cup {Me} ELSE W!Finished
         /\ heap' = heap /\ task_count' = task_count
<1>1. P!RunTask(done)
  BY SameRun
<1>2. P!WorkerInv'
  BY <1>1, PoolNext DEF P!WorkerNext
<1> QED
  BY <1>1, <1>2, P!RunEffect, SameFinished, SameAssumption DEF Me

LEMMA PoolLoop ==
  ASSUME P!WorkerInv, W!BeginWork \/ W!EndOfTasks \/ W!SweepKeep \/ W!EndWork
  PROVE  /\ P!WorkerInv'
         /\ W!Finished' = W!Finished
         /\ heap' = heap /\ task_count' = task_count
<1>1. P!BeginWork \/ P!EndOfTasks \/ P!SweepKeep \/ P!EndWork
  BY SameLoop
<1>2. P!WorkerInv'
  BY <1>1, PoolNext DEF P!WorkerNext
<1> QED
  BY <1>1, <1>2, P!LoopEffect, SameFinished, SameAssumption

LEMMA PoolRemove ==
  ASSUME P!WorkerInv, W!SweepRemove
  PROVE  /\ P!WorkerInv'
         /\ Me \in heap \cap W!Finished
         /\ heap' = heap \ {Me} /\ W!Finished' = W!Finished \ {Me}
         /\ task_count' = task_count - 1 /\ pc = "sweep"
<1>1. P!SweepRemove
  BY SameRemove
<1>2. P!WorkerInv'
  BY <1>1, PoolNext DEF P!WorkerNext
<1> QED
  BY <1>1, <1>2, P!RemoveEffect, SameFinished, SameAssumption DEF Me

LEMMA PoolStill ==
  ASSUME P!WorkerInv, UNCHANGED poolVars
  PROVE  P!WorkerInv' /\ W!Finished' = W!Finished /\ Me' = Me
<1>1. UNCHANGED P!workerVars /\ UNCHANGED <<tasks, task_count, i>>
  BY DEF poolVars, P!workerVars
<1>2. P!WorkerInv'
  BY <1>1, PoolNext
<1> QED
  BY <1>1, <1>2 DEF Me, W!Finished, W!Live

LEMMA PoolFinished ==
  ASSUME P!WorkerInv
  PROVE  W!Finished \subseteq heap
  BY P!FinishedInUse, SameFinished, SameAssumption

LEMMA PoolIdle ==
  ASSUME P!WorkerInv, pc = "idle"
  PROVE  W!Finished = {}
  BY P!IdleFinished, SameFinished, SameAssumption

-----------------------------------------------------------------------------
IInv == ClientInv /\ P!WorkerInv

Causes == {"tcp_client_connect", "tcp_client_work", "http_client_request_work",
           "http_tcp_send_request_work"}
Deaths == {"SIGPIPE", "send_failed", "recv_failed", "Not_Connected"}

(* The part of TypeOK that is not the worker's. *)
RecordsOK ==
  /\ conn \in [Clients -> ConnectionStates]
  /\ sock \in [Clients -> Socket]
  /\ ctx \in [Clients -> Context]
  /\ request_string \in Clients \cup {NULL}

(* What a step within a handler has to show, of its own request only.       *)
(* Either the call goes on (or the process has ended in it), or it returns. *)
LEMMA HandlerStep ==
  ASSUME IInv, pc = "work", i < task_count,
         RecordsOK', UNCHANGED <<leaked, made>>,
         \A r \in Clients \ {Me} : ctx'[r] = ctx[r] /\ conn'[r] = conn[r] /\ sock'[r] = sock[r],
         \/ UNCHANGED poolVars /\ stage' \in {"switch", "callback"}
         \/ W!RunTask(conn'[Me] = "Disconnecting") /\ stage' = "tcp",
         RequestFits(ctx'[Me], conn'[Me], sock'[Me], stage'),
         fate' = "running" => ctx'[Me].received + sock'[Me].queued = sock'[Me].answered,
         fate' \notin Causes,
         fate' \in Deaths => IsDead(sock'[Me]) /\ UNCHANGED poolVars,
         Running
  PROVE  IInv'
<1>1. /\ P!WorkerInv /\ Me \in heap \ W!Finished
      /\ W!Finished \subseteq heap /\ heap \subseteq Clients
  BY PoolCurrent, PoolFinished, PoolType DEF IInv, W!WorkerTypeOK
<1>2. /\ P!WorkerInv' /\ heap' = heap /\ task_count' = task_count
      /\ stage' # "tcp" => pc' = "work" /\ i' < task_count'
      /\ \A r \in heap : (StageOf(r))' = IF r = Me THEN stage' ELSE StageOf(r)
      /\ \A r \in W!Finished' : r \in W!Finished \/ conn'[r] = "Disconnecting"
      /\ W!Finished \subseteq W!Finished'
      /\ conn'[Me] = "Disconnecting" => Me \in W!Finished' \/ (stage' # "tcp" /\ Me' = Me)
  <2>1. CASE UNCHANGED poolVars /\ stage' \in {"switch", "callback"}
    <3>1. P!WorkerInv' /\ W!Finished' = W!Finished /\ Me' = Me
      BY <1>1, <2>1, PoolStill
    <3>2. \A r \in heap : (StageOf(r))' = IF r = Me THEN stage' ELSE StageOf(r)
      BY <2>1, <3>1 DEF StageOf
    <3> QED
      BY <2>1, <3>1, <3>2 DEF poolVars
  <2>2. CASE W!RunTask(conn'[Me] = "Disconnecting") /\ stage' = "tcp"
    <3> DEFINE done == conn'[Me] = "Disconnecting"
    <3>1. done \in BOOLEAN /\ W!RunTask(done)
      BY <2>2
    <3> HIDE DEF done
    <3>2. /\ P!WorkerInv'
          /\ W!Finished' = IF done THEN W!Finished \cup {Me} ELSE W!Finished
          /\ heap' = heap /\ task_count' = task_count
      BY <1>1, <3>1, PoolRun
    <3>3. \A r \in heap : (StageOf(r))' = IF r = Me THEN stage' ELSE StageOf(r)
      BY <2>2 DEF StageOf
    <3> QED
      BY <1>1, <2>2, <3>2, <3>3 DEF done
  <2> QED
    BY <2>1, <2>2
<1>3. TypeOK'
  BY <1>2, PoolTypeNext DEF IInv, ClientInv, TypeOK, RecordsOK
<1>4. StageFits' /\ SocketsCounted'
  BY <1>2 DEF IInv, ClientInv, StageFits, SocketsCounted
<1>5. FreeContextsZeroed'
  BY <1>1, <1>2 DEF IInv, ClientInv, FreeContextsZeroed
<1>6. FlagsFit'
  BY <1>1, <1>2 DEF IInv, ClientInv, FlagsFit
<1>7. RequestsFit'
  BY <1>1, <1>2 DEF IInv, ClientInv, RequestsFit
<1>8. BytesConserved'
  BY <1>1, <1>2 DEF IInv, ClientInv, BytesConserved, Running
<1>9. SoundAssertions'
  BY DEF SoundAssertions, Causes
<1>10. NetworkDeaths'
  BY <1>1, <1>2, PoolStill DEF NetworkDeaths, Deaths
<1> QED
  BY <1>10, <1>2, <1>3, <1>4, <1>5, <1>6, <1>7, <1>8, <1>9 DEF IInv, ClientInv

-----------------------------------------------------------------------------
(* The steps outside the handlers. *)
LEMMA InvInit == Init => IInv
<1> SUFFICES ASSUME Init PROVE IInv
  OBVIOUS
<1> USE DEF Init, TcpInit
<1>1. P!WorkerInv /\ W!WorkerTypeOK
  BY PoolInit, PoolType
<1>2. heap = {} /\ task_count = 0 /\ W!Finished = {}
  BY DEF W!WorkerInit, W!Finished, W!Live
<1>3. NoSocket \in Socket
  BY TcpSocketAssumption DEF NoSocket, Socket, TcpStates
<1>4. NoContext \in Context
  BY TcpSocketAssumption DEF NoContext, NewContext, Context, RequestStates
<1>5. TypeOK
  BY <1>1, <1>3, <1>4, HttpClientAssumption DEF TypeOK, ConnectionStates
<1>6. StageFits /\ SocketsCounted /\ FreeContextsZeroed /\ FlagsFit /\ RequestsFit
  BY <1>2 DEF StageFits, SocketsCounted, FreeContextsZeroed, FlagsFit, RequestsFit
<1>7. BytesConserved /\ SoundAssertions /\ NetworkDeaths
  BY <1>2 DEF BytesConserved, SoundAssertions, NetworkDeaths
<1> QED
  BY <1>1, <1>5, <1>6, <1>7 DEF IInv, ClientInv

(* The application gets a context that is as malloc left it. *)
LEMMA RequestInv ==
  ASSUME IInv, NEW input \in Inputs, http_client_request(input)
  PROVE  IInv'
<1> USE DEF http_client_request
<1>1. /\ P!WorkerInv /\ heap \subseteq Clients /\ W!Finished \subseteq heap
      /\ task_count \in Int /\ i \in Int /\ leaked \in Int /\ made \in Int
  BY PoolType, PoolFinished, HttpClientAssumption
  DEF IInv, ClientInv, TypeOK, W!WorkerTypeOK, W!WorkerAssumption
<1>2. request_string' \in Clients \cup {NULL} /\ made' = made + 1 /\ made' \in 0 .. MaxRequests
  BY HttpClientAssumption DEF IInv, ClientInv, TypeOK
<1>3. CASE ~ W!NotFull
  <2>1. UNCHANGED <<poolVars, ctx>>
    BY <1>3
  <2>2. P!WorkerInv' /\ W!Finished' = W!Finished /\ Me' = Me
    BY <1>1, <2>1, PoolStill
  <2>3. UNCHANGED <<heap, task_count, pc, i, ctx, tcpVars, stage, leaked>>
    BY <2>1 DEF poolVars
  <2>4. TypeOK'
    BY <1>2, <2>2, <2>3, PoolTypeNext DEF IInv, ClientInv, TypeOK, tcpVars
  <2>5. StageFits' /\ SocketsCounted'
    BY <1>1, <1>2, <2>3 DEF IInv, ClientInv, StageFits, SocketsCounted
  <2>8. FreeContextsZeroed' /\ FlagsFit'
    BY <2>2, <2>3 DEF IInv, ClientInv, FreeContextsZeroed, FlagsFit, tcpVars
  <2>6. RequestsFit'
    BY <2>2, <2>3 DEF IInv, ClientInv, RequestsFit, StageOf, tcpVars
  <2>7. BytesConserved' /\ SoundAssertions' /\ NetworkDeaths'
    BY <2>2, <2>3 DEF IInv, ClientInv, BytesConserved, SoundAssertions, NetworkDeaths, Running, tcpVars
  <2> QED
    BY <2>2, <2>4, <2>5, <2>6, <2>7, <2>8 DEF IInv, ClientInv
<1>4. CASE W!NotFull
  <2>1. PICK r \in Clients : W!worker_add_task(r) /\ ctx' = [ctx EXCEPT ![r] = NewContext(input)]
    BY <1>4
  <2>2. /\ P!WorkerInv' /\ r \notin heap /\ heap' = heap \cup {r} /\ W!Finished' = W!Finished
        /\ task_count' = task_count + 1 /\ pc' = pc /\ i' = i
        /\ pc = "work" => Me' = Me
    BY <1>1, <2>1, PoolAdd
  <2>3. UNCHANGED <<conn, sock, fate, stage, leaked>>
    BY DEF tcpVars
  <2>4. NewContext(input) \in Context
    BY TcpSocketAssumption, HttpClientAssumption DEF NewContext, Context, RequestStates
  <2>5. /\ ctx' \in [Clients -> Context] /\ ctx'[r] = NewContext(input)
        /\ \A c \in Clients \ {r} : ctx'[c] = ctx[c]
    BY <2>1, <2>4 DEF IInv, ClientInv, TypeOK
  <2>6. /\ stage = "tcp" \/ (pc = "work" /\ i < task_count)
        /\ stage # "tcp" => Me \in heap /\ Me' = Me
    BY <1>1, <2>2, PoolCurrent DEF IInv, ClientInv, StageFits
  <2>7. (StageOf(r))' = "tcp" /\ \A c \in heap : (StageOf(c))' = StageOf(c)
    BY <2>2, <2>3, <2>6 DEF StageOf
  <2>8. TypeOK'
    BY <1>2, <2>2, <2>3, <2>5, PoolTypeNext DEF IInv, ClientInv, TypeOK
  <2>9. /\ conn[r] = "Disconnected" /\ sock[r] = NoSocket
    BY <2>2 DEF IInv, ClientInv, FreeContextsZeroed
  <2>11. StageFits' /\ SocketsCounted'
    BY <1>1, <1>2, <2>2, <2>3 DEF IInv, ClientInv, StageFits, SocketsCounted
  <2>12. FreeContextsZeroed'
    BY <2>2, <2>3, <2>5 DEF IInv, ClientInv, FreeContextsZeroed
  <2>13. FlagsFit'
    BY <1>1, <2>2, <2>3, <2>6, <2>9 DEF IInv, ClientInv, FlagsFit
  <2>14. RequestFits(NewContext(input), "Disconnected", NoSocket, "tcp")
    BY DEF RequestFits, ClientFits, TaskFits, CallsFit, NewContext, NoSocket, Exchanging, InnerTask,
           SentBy, IsDead
  <2>15. RequestsFit'
    BY <1>1, <2>2, <2>3, <2>5, <2>7, <2>9, <2>14 DEF IInv, ClientInv, RequestsFit
  <2>16. NewContext(input).received + NoSocket.queued = NoSocket.answered
    BY DEF NewContext, NoSocket
  <2>17. BytesConserved'
    BY <1>1, <2>2, <2>3, <2>5, <2>9, <2>16 DEF IInv, ClientInv, BytesConserved, Running
  <2>18. SoundAssertions' /\ NetworkDeaths'
    BY <2>3 DEF SoundAssertions, NetworkDeaths, Running
  <2> QED
    BY <2>2, <2>8, <2>11, <2>12, <2>13, <2>15, <2>17, <2>18 DEF IInv, ClientInv
<1> QED
  BY <1>3, <1>4

(* The worker's loops only run while no handler does. *)
LEMMA LoopInv ==
  ASSUME IInv, BeginPass \/ EndOfPass \/ Keep \/ EndPass
  PROVE  IInv'
<1>1. /\ W!BeginWork \/ W!EndOfTasks \/ W!SweepKeep \/ W!EndWork
      /\ UNCHANGED <<conn, sock, fate, stage, ctx, request_string, leaked, made>>
      /\ Running
  BY DEF BeginPass, EndOfPass, Keep, EndPass, tcpVars, clientVars
<1>2. P!WorkerInv' /\ W!Finished' = W!Finished /\ heap' = heap /\ task_count' = task_count
  BY <1>1, PoolLoop DEF IInv
<1>3. stage = "tcp"
  <2>1. i \in Int /\ task_count \in Int
    BY PoolType, HttpClientAssumption DEF IInv, W!WorkerTypeOK, W!WorkerAssumption
  <2> QED
    BY <1>1, <2>1 DEF IInv, ClientInv, StageFits, W!BeginWork, W!EndOfTasks, W!SweepKeep, W!EndWork
<1>4. TypeOK'
  BY <1>1, <1>2, PoolTypeNext DEF IInv, ClientInv, TypeOK
<1>5. StageFits' /\ SocketsCounted' /\ FreeContextsZeroed' /\ FlagsFit'
  BY <1>1, <1>2, <1>3 DEF IInv, ClientInv, StageFits, SocketsCounted, FreeContextsZeroed, FlagsFit
<1>6. RequestsFit'
  BY <1>1, <1>2, <1>3 DEF IInv, ClientInv, RequestsFit, StageOf
<1>7. BytesConserved' /\ SoundAssertions' /\ NetworkDeaths'
  BY <1>1, <1>2 DEF IInv, ClientInv, BytesConserved, SoundAssertions, NetworkDeaths, Running
<1> QED
  BY <1>2, <1>4, <1>5, <1>6, <1>7 DEF IInv, ClientInv

LEMMA SumWithin ==
  \A a, b \in Nat : \A x, y, m \in Int :
    a + b <= x + y /\ x + y <= m => a + b <= m /\ a \in 0 .. m
  OBVIOUS

(* What the sweep frees is zeroed; a socket it leaves open is counted. *)
LEMMA RemoveInv ==
  ASSUME IInv, Remove
  PROVE  IInv'
<1>1. /\ P!WorkerInv' /\ Me \in heap \cap W!Finished
      /\ heap' = heap \ {Me} /\ W!Finished' = W!Finished \ {Me}
      /\ task_count' = task_count - 1 /\ pc = "sweep"
  BY PoolRemove DEF IInv, Remove
<1>2. /\ heap \subseteq Clients /\ W!Finished \subseteq heap
      /\ task_count \in Int /\ leaked \in Nat /\ made \in 0 .. MaxRequests
      /\ task_count' \in Nat /\ MaxRequests \in Nat
  BY <1>1, PoolType, PoolTypeNext, PoolFinished, HttpClientAssumption
  DEF IInv, ClientInv, TypeOK, W!WorkerTypeOK, W!WorkerAssumption
<1>3. UNCHANGED <<fate, stage, request_string, made>> /\ Running /\ stage = "tcp"
  BY <1>1 DEF Remove, IInv, ClientInv, StageFits
<1>4. /\ leaked' \in {leaked, leaked + 1}
      /\ leaked' + task_count' <= leaked + task_count
  BY <1>1, <1>2 DEF Remove, FreeContext
<1>5. /\ ctx' = [ctx EXCEPT ![Me] = NoContext]
      /\ conn' = [conn EXCEPT ![Me] = "Disconnected"]
      /\ sock' = [sock EXCEPT ![Me] = NoSocket]
  BY DEF Remove, FreeContext
<1>6. NoSocket \in Socket /\ NoContext \in Context /\ "Disconnected" \in ConnectionStates
  BY TcpSocketAssumption
  DEF NoSocket, Socket, TcpStates, NoContext, NewContext, Context, RequestStates, ConnectionStates
<1>7. /\ ctx' \in [Clients -> Context] /\ conn' \in [Clients -> ConnectionStates]
      /\ sock' \in [Clients -> Socket]
      /\ ctx'[Me] = NoContext /\ conn'[Me] = "Disconnected" /\ sock'[Me] = NoSocket
      /\ \A r \in Clients \ {Me} : ctx'[r] = ctx[r] /\ conn'[r] = conn[r] /\ sock'[r] = sock[r]
  BY <1>1, <1>2, <1>5, <1>6 DEF IInv, ClientInv, TypeOK
<1>8. TypeOK' /\ SocketsCounted'
  <2>1. /\ made \in Int /\ leaked \in Int /\ leaked' \in Nat
        /\ task_count \in Int /\ task_count' \in Nat
    BY <1>2, <1>4
  <2>2. leaked + task_count <= made
    BY DEF IInv, ClientInv, SocketsCounted
  <2>3. leaked' + task_count' <= made /\ leaked' \in 0 .. made
    BY <1>4, <2>1, <2>2, SumWithin
  <2> QED
    BY <1>1, <1>2, <1>3, <1>7, <2>3, PoolTypeNext DEF IInv, ClientInv, TypeOK, SocketsCounted
<1>9. StageFits' /\ FreeContextsZeroed' /\ FlagsFit'
  BY <1>1, <1>2, <1>3, <1>7 DEF IInv, ClientInv, StageFits, FreeContextsZeroed, FlagsFit
<1>10. RequestsFit'
  BY <1>1, <1>2, <1>3, <1>7 DEF IInv, ClientInv, RequestsFit, StageOf
<1>11. BytesConserved'
  BY <1>1, <1>2, <1>3, <1>7 DEF IInv, ClientInv, BytesConserved, Running
<1>12. SoundAssertions' /\ NetworkDeaths'
  BY <1>3 DEF SoundAssertions, NetworkDeaths, Running
<1> QED
  BY <1>1, <1>8, <1>9, <1>10, <1>11, <1>12 DEF IInv, ClientInv

(* A request whose connection has changed fits as before. *)
LEMMA FitsAfter ==
  ASSUME NEW c, NEW k, NEW s, NEW t, NEW n, NEW at,
         RequestFits(c, k, s, at), Follows(s, t, n)
  PROVE  RequestFits(c, k, t, at)
  BY DEF RequestFits, ClientFits, Follows, Sane

(* No byte is lost when n bytes are taken from the queue. *)
LEMMA BytesAfter ==
  ASSUME NEW received \in Int, NEW s \in Socket, NEW t, NEW n \in Int, Follows(s, t, n),
         received + s.queued = s.answered
  PROVE  (received + n) + t.queued = t.answered
<1>1. n + t.queued - t.answered = s.queued - s.answered /\ t \in Socket
  BY DEF Follows, Sane
<1>2. /\ t.queued \in Int /\ t.answered \in Int
      /\ s.queued \in Int /\ s.answered \in Int
  BY <1>1, SocketFields
<1> QED
  BY <1>1, <1>2

LEMMA NothingTaken ==
  ASSUME NEW received \in Int, NEW s \in Socket, NEW t, Follows(s, t, 0),
         received + s.queued = s.answered
  PROVE  received + t.queued = t.answered
<1>1. (received + 0) + t.queued = t.answered
  BY BytesAfter
<1>2. t \in Socket
  BY DEF Follows, Sane
<1> QED
  BY <1>1, <1>2, SocketFields

(* The network keeps what the request knows of its connection true. *)
LEMMA NetworkInv ==
  ASSUME IInv, NEW r \in Clients, NetworkAt(r, NetworkSteps(sock[r]))
  PROVE  IInv'
<1> USE DEF NetworkAt, Network
<1>1. PICK t \in NetworkSteps(sock[r]) : sock' = [sock EXCEPT ![r] = t]
  OBVIOUS
<1>2. /\ r \in heap /\ Running
      /\ UNCHANGED <<conn, fate, poolVars, stage, ctx, request_string, leaked, made>>
  BY DEF clientVars
<1>3. P!WorkerInv' /\ W!Finished' = W!Finished /\ Me' = Me
  BY <1>2, PoolStill DEF IInv
<1>4. UNCHANGED <<heap, task_count, pc, i>> /\ heap \subseteq Clients
  BY <1>2, PoolType DEF IInv, poolVars, W!WorkerTypeOK
<1>5. Sane(sock[r]) /\ ctx[r] \in Context
  BY <1>2 DEF IInv, ClientInv, TypeOK, RequestsFit, RequestFits, ClientFits, Sane
<1>6. ctx[r].received + sock[r].queued = sock[r].answered
  BY <1>2 DEF IInv, ClientInv, BytesConserved
<1>7. ctx[r].received \in Nat
  BY <1>5, TcpSocketAssumption DEF Context
<1>8. sock[r].queued <= sock[r].answered
  BY <1>5, <1>6, <1>7, SocketFields DEF Sane
<1>9. Follows(sock[r], t, 0)
  BY <1>1, <1>5, <1>8, NetworkFollows
<1>10. t \in Socket /\ ctx[r].received + t.queued = t.answered
  <2>1. t \in Socket
    BY <1>9 DEF Follows, Sane
  <2> QED
    BY <1>5, <1>6, <1>7, <1>9, <2>1, NothingTaken DEF Sane
<1>11. /\ sock' \in [Clients -> Socket] /\ sock'[r] = t
       /\ \A c \in Clients \ {r} : sock'[c] = sock[c]
  BY <1>1, <1>10 DEF IInv, ClientInv, TypeOK
<1>12. TypeOK' /\ StageFits' /\ SocketsCounted'
  BY <1>2, <1>3, <1>4, <1>11, PoolTypeNext
  DEF IInv, ClientInv, TypeOK, StageFits, SocketsCounted
<1>13. FreeContextsZeroed' /\ FlagsFit'
  BY <1>2, <1>3, <1>4, <1>11 DEF IInv, ClientInv, FreeContextsZeroed, FlagsFit
<1>14. RequestsFit'
  <2>1. RequestFits(ctx[r], conn[r], t, StageOf(r))
    BY <1>2, <1>9, FitsAfter DEF IInv, ClientInv, RequestsFit
  <2> QED
    BY <1>2, <1>3, <1>4, <1>11, <2>1 DEF IInv, ClientInv, RequestsFit, StageOf
<1>15. BytesConserved'
  BY <1>2, <1>4, <1>10, <1>11 DEF IInv, ClientInv, BytesConserved
<1>16. SoundAssertions' /\ NetworkDeaths'
  BY <1>2 DEF SoundAssertions, NetworkDeaths, Running
<1> QED
  BY <1>3, <1>12, <1>13, <1>14, <1>15, <1>16 DEF IInv, ClientInv

-----------------------------------------------------------------------------
(* The handlers: what each of them knows of its own request ... *)
LEMMA Mine ==
  ASSUME IInv, Running, pc = "work", i < task_count
  PROVE  /\ RecordsOK /\ Me \in heap /\ Me \in Clients
         /\ ctx[Me] \in Context /\ conn[Me] \in ConnectionStates /\ Sane(sock[Me])
         /\ RequestFits(ctx[Me], conn[Me], sock[Me], stage)
         /\ ctx[Me].received + sock[Me].queued = sock[Me].answered
         /\ sock[Me].queued <= sock[Me].answered
         /\ stage = "tcp" => conn[Me] # "Disconnecting"
         /\ fate \notin Causes /\ fate \notin Deaths
<1>1. P!WorkerInv /\ Me \in heap \ W!Finished /\ heap \subseteq Clients
  BY PoolCurrent, PoolType DEF IInv, W!WorkerTypeOK
<1>2. RecordsOK
  BY DEF IInv, ClientInv, TypeOK, RecordsOK
<1>3. ctx[Me] \in Context /\ conn[Me] \in ConnectionStates /\ sock[Me] \in Socket
  BY <1>1, <1>2 DEF RecordsOK
<1>4. RequestFits(ctx[Me], conn[Me], sock[Me], stage)
  BY <1>1 DEF IInv, ClientInv, RequestsFit, StageOf
<1>5. Sane(sock[Me])
  BY <1>3, <1>4 DEF Sane, RequestFits, ClientFits
<1>6. ctx[Me].received + sock[Me].queued = sock[Me].answered
  BY <1>1 DEF IInv, ClientInv, BytesConserved
<1>7. ctx[Me].received \in Nat
  BY <1>3, TcpSocketAssumption DEF Context
<1>8. sock[Me].queued <= sock[Me].answered
  BY <1>3, <1>6, <1>7, SocketFields
<1>9. stage = "tcp" => conn[Me] # "Disconnecting"
  BY <1>1 DEF IInv, ClientInv, FlagsFit
<1>10. fate \notin Causes /\ fate \notin Deaths
  BY DEF Running, Causes, Deaths
<1> QED
  BY <1>1, <1>2, <1>3, <1>4, <1>5, <1>6, <1>8, <1>9, <1>10

(* ... and how its return ends it. *)
LEMMA Returned ==
  ASSUME Return, stage \in {"switch", "callback"}
  PROVE  \/ fate' # "running" /\ UNCHANGED poolVars /\ stage' = stage
         \/ fate' = "running" /\ W!RunTask(conn'[Me] = "Disconnecting") /\ stage' = "tcp"
  BY DEF Return, TickResult

LEMMA ContextFields ==
  ASSUME NEW c \in Context
  PROVE  /\ c.state \in RequestStates /\ c.input \in Inputs \cup {NULL} /\ c.found \in Nat
         /\ c.inner \in {"none", "send", "receive"} /\ c.to_send \in Nat /\ c.sent \in Nat
         /\ c.received \in 0 .. RESPONSE_LENGTH /\ c.received \in Int /\ c.calls \in Nat
         /\ c.wire \in SUBSET (Clients \cup {NULL})
  BY TcpSocketAssumption DEF Context

(* The updates the handlers make of a context. *)
LEMMA StateSet ==
  ASSUME NEW c \in Context, NEW x \in RequestStates, NEW d, d = [c EXCEPT !.state = x]
  PROVE  /\ d \in Context /\ d.state = x
         /\ d.input = c.input /\ d.inner = c.inner /\ d.to_send = c.to_send /\ d.sent = c.sent
         /\ d.received = c.received /\ d.calls = c.calls
  BY DEF Context

LEMMA FoundSet ==
  ASSUME NEW c \in Context, NEW n \in Nat, NEW d, d = [c EXCEPT !.found = n]
  PROVE  /\ d \in Context
         /\ d.input = c.input /\ d.inner = c.inner /\ d.to_send = c.to_send /\ d.sent = c.sent
         /\ d.received = c.received /\ d.calls = c.calls
  BY DEF Context

LEMMA InnerSet ==
  ASSUME NEW c \in Context, NEW x \in {"none", "send", "receive"}, NEW d, d = [c EXCEPT !.inner = x]
  PROVE  /\ d \in Context /\ d.inner = x
         /\ d.input = c.input /\ d.state = c.state /\ d.to_send = c.to_send /\ d.sent = c.sent
         /\ d.received = c.received /\ d.calls = c.calls
  BY DEF Context

LEMMA SentSet ==
  ASSUME NEW c \in Context, NEW n \in Nat, NEW d, d = [c EXCEPT !.sent = n]
  PROVE  /\ d \in Context /\ d.sent = n /\ d.wire = c.wire
         /\ d.input = c.input /\ d.state = c.state /\ d.to_send = c.to_send /\ d.inner = c.inner
         /\ d.received = c.received /\ d.calls = c.calls
  BY DEF Context

LEMMA WireSet ==
  ASSUME NEW c \in Context, NEW w \in SUBSET (Clients \cup {NULL}), NEW d, d = [c EXCEPT !.wire = w]
  PROVE  /\ d \in Context
         /\ d.input = c.input /\ d.state = c.state /\ d.to_send = c.to_send /\ d.sent = c.sent
         /\ d.inner = c.inner /\ d.received = c.received /\ d.calls = c.calls
  BY DEF Context

LEMMA ReceivedSet ==
  ASSUME NEW c \in Context, NEW n \in 0 .. RESPONSE_LENGTH, NEW d, d = [c EXCEPT !.received = n]
  PROVE  /\ d \in Context /\ d.received = n
         /\ d.input = c.input /\ d.state = c.state /\ d.to_send = c.to_send /\ d.sent = c.sent
         /\ d.inner = c.inner /\ d.calls = c.calls
  BY DEF Context

LEMMA CallsSet ==
  ASSUME NEW c \in Context, NEW n \in Nat, NEW d, d = [c EXCEPT !.calls = n]
  PROVE  /\ d \in Context /\ d.calls = n
         /\ d.input = c.input /\ d.state = c.state /\ d.to_send = c.to_send /\ d.sent = c.sent
         /\ d.inner = c.inner /\ d.received = c.received
  BY DEF Context

LEMMA ContextSet ==
  ASSUME RecordsOK, NEW r \in Clients, NEW c \in Context, ctx' = [ctx EXCEPT ![r] = c]
  PROVE  /\ ctx' \in [Clients -> Context] /\ ctx'[r] = c
         /\ \A q \in Clients \ {r} : ctx'[q] = ctx[q]
  BY DEF RecordsOK

(* Goto changes the state of this request only. *)
LEMMA GotoSets ==
  ASSUME RecordsOK, Me \in Clients, NEW x \in RequestStates, Goto(x)
  PROVE  /\ ctx' \in [Clients -> Context]
         /\ \A r \in Clients \ {Me} : ctx'[r] = ctx[r]
         /\ ctx'[Me].state = x /\ ctx'[Me].input = ctx[Me].input /\ ctx'[Me].inner = ctx[Me].inner
         /\ ctx'[Me].to_send = ctx[Me].to_send /\ ctx'[Me].sent = ctx[Me].sent
         /\ ctx'[Me].received = ctx[Me].received /\ ctx'[Me].calls = ctx[Me].calls
<1>1. PICK c : c = ctx[Me]
  OBVIOUS
<1>2. PICK d : d = [c EXCEPT !.state = x]
  OBVIOUS
<1>3. c \in Context
  BY <1>1 DEF RecordsOK
<1>4. /\ d \in Context /\ d.state = x
      /\ d.input = c.input /\ d.inner = c.inner /\ d.to_send = c.to_send /\ d.sent = c.sent
      /\ d.received = c.received /\ d.calls = c.calls
  BY <1>2, <1>3, StateSet
<1>5. ctx' = [ctx EXCEPT ![Me] = d]
  BY <1>1, <1>2 DEF Goto
<1>6. /\ ctx' \in [Clients -> Context] /\ ctx'[Me] = d
      /\ \A r \in Clients \ {Me} : ctx'[r] = ctx[r]
  BY <1>4, <1>5, ContextSet
<1> QED
  BY <1>1, <1>4, <1>6

(* tcp_client_work finds the connection set up, still being set up, or      *)
(* lost, and never meets a client that is disconnecting.                    *)
LEMMA TcpTickInv ==
  ASSUME IInv, TcpTick
  PROVE  IInv'
<1>1. /\ Running /\ pc = "work" /\ i < task_count /\ stage = "tcp" /\ stage' = "switch"
      /\ UNCHANGED <<poolVars, ctx, request_string, leaked, made>> /\ tcp_client_work(Me)
  BY DEF TcpTick, InTick, clientVars
<1>2. /\ RecordsOK /\ Me \in Clients
      /\ ctx[Me] \in Context /\ conn[Me] \in ConnectionStates /\ Sane(sock[Me])
      /\ RequestFits(ctx[Me], conn[Me], sock[Me], "tcp")
      /\ ctx[Me].received + sock[Me].queued = sock[Me].answered
      /\ sock[Me].queued <= sock[Me].answered
      /\ conn[Me] # "Disconnecting"
      /\ fate \notin Causes /\ fate \notin Deaths
  BY <1>1, Mine
<1>3. RequestFits(ctx[Me], conn[Me], sock[Me], "switch")
  <2>1. ctx[Me].state # "Connecting" \/ conn[Me] = "Connecting"
    BY <1>2 DEF RequestFits, ClientFits
  <2>2. ctx[Me].calls = 0
    BY <1>2 DEF RequestFits, CallsFit
  <2> QED
    BY <1>2, <2>1, <2>2 DEF RequestFits, ClientFits, CallsFit
<1>4. CASE conn[Me] = "Disconnected"
  <2>1. UNCHANGED <<conn, sock, fate>>
    BY <1>1, <1>4 DEF tcp_client_work, tcpVars
  <2>2. RecordsOK'
    BY <1>1, <1>2, <2>1 DEF RecordsOK
  <2> QED
    BY <1>1, <1>2, <1>3, <2>1, <2>2, HandlerStep
<1>5. CASE conn[Me] \in {"Connecting", "Connected"}
  <2>1. PICK o \in tcp_socket_connected(sock[Me]) :
          /\ sock' = [sock EXCEPT ![Me] = o.socket]
          /\ conn' = [conn EXCEPT ![Me] = AfterWork(conn[Me], o.connected)]
    BY <1>1, <1>2, <1>5 DEF tcp_client_work, RecordsOK
  <2>2. fate' = fate
    BY <1>1, <1>5 DEF tcp_client_work
  <2>3. /\ o.connected \in BOOLEAN /\ Follows(sock[Me], o.socket, 0)
        /\ o.connected => o.socket.tcp # "syn_sent"
        /\ ~ o.connected => IsDead(sock[Me]) \/ sock[Me].tcp = "syn_sent"
    BY <1>2, ConnectedOutcomes
  <2>4. PICK t : t = o.socket
    OBVIOUS
  <2>5. PICK k : k = AfterWork(conn[Me], o.connected)
    OBVIOUS
  <2>6. t \in Socket /\ k \in ConnectionStates
    BY <1>5, <2>3, <2>4, <2>5 DEF Follows, Sane, AfterWork, ConnectionStates
  <2>7. /\ RecordsOK' /\ sock'[Me] = t /\ conn'[Me] = k
        /\ \A r \in Clients \ {Me} : conn'[r] = conn[r] /\ sock'[r] = sock[r]
    BY <1>1, <1>2, <2>1, <2>4, <2>5, <2>6 DEF RecordsOK
  <2>8. RequestFits(ctx[Me], conn[Me], t, "switch")
    BY <1>3, <2>3, <2>4, FitsAfter
  <2>9. \/ k = conn[Me]
        \/ k = "Connected" /\ conn[Me] = "Connecting" /\ t.tcp # "syn_sent"
        \/ k = "Disconnecting" /\ conn[Me] = "Connected" /\ IsDead(t)
    <3>1. conn[Me] = "Connected" => sock[Me].tcp # "syn_sent"
      BY <1>2 DEF RequestFits, ClientFits
    <3> QED
      BY <1>5, <2>3, <2>4, <2>5, <3>1 DEF AfterWork, Follows
  <2>10. RequestFits(ctx[Me], k, t, "switch")
    <3>1. CASE k = conn[Me]
      BY <2>8, <3>1
    <3>2. CASE k = "Connected" /\ conn[Me] = "Connecting" /\ t.tcp # "syn_sent"
      <4>1. ctx[Me].state = "Connecting"
        BY <1>2, <2>8, <3>2, ContextFields DEF RequestFits, ClientFits, Exchanging, RequestStates
      <4> QED
        BY <2>8, <3>2, <4>1 DEF RequestFits, ClientFits, TaskFits, CallsFit, SentBy, Exchanging
    <3>3. CASE k = "Disconnecting" /\ conn[Me] = "Connected" /\ IsDead(t)
      <4>1. ctx[Me].state # "Connecting"
        BY <1>2, <3>3 DEF RequestFits, ClientFits
      <4> QED
        BY <2>8, <3>3, <4>1 DEF RequestFits, ClientFits, TaskFits, CallsFit, SentBy, Exchanging
    <3> QED
      BY <2>9, <3>1, <3>2, <3>3
  <2>11. ctx[Me].received + t.queued = t.answered
    <3>1. ctx[Me].received \in Int /\ sock[Me] \in Socket
      BY <1>2, ContextFields DEF Sane
    <3> QED
      BY <1>2, <2>3, <2>4, <3>1, NothingTaken
  <2> QED
    BY <1>1, <1>2, <2>2, <2>7, <2>10, <2>11, HandlerStep
<1> QED
  BY <1>2, <1>4, <1>5 DEF ConnectionStates

LEMMA LeastIs ==
  ASSUME NEW S \in SUBSET Nat, NEW m \in S, \A n \in S : m <= n
  PROVE  Min(S) = m
<1>1. PICK least \in S : least = Min(S) /\ \A n \in S : least <= n
  BY DEF Min
<1>2. least \in Int /\ m \in Int /\ m <= least /\ least <= m
  BY <1>1
<1> QED
  BY <1>1, <1>2

(* dns_resolve_hostname writes one address more than there is room for at   *)
(* most, and no less than it can (dns.c 36-65).                             *)
LEMMA AddressesWritten ==
  ASSUME NEW addresses \in Nat, NEW size \in Nat
  PROVE  /\ dns_resolve_hostname(addresses, size).count =
              IF addresses <= size THEN addresses ELSE size + 1
         /\ dns_resolve_hostname(addresses, size).result \in {"OK", "Failed_To_Get_Address_Info"}
<1>1. CASE addresses = 0
  BY <1>1 DEF dns_resolve_hostname
<1>2. CASE addresses # 0
  <2> DEFINE least == IF addresses <= size THEN addresses ELSE size + 1
             counts == Counts(addresses, size)
  <2>1. least \in counts /\ \A n \in counts : least <= n
    BY <1>2 DEF Counts
  <2>2. counts \subseteq Nat
    BY DEF Counts
  <2> HIDE DEF least, counts
  <2>3. Min(counts) = least
    BY <2>1, <2>2, LeastIs
  <2> QED
    BY <1>2, <2>3 DEF dns_resolve_hostname, least, counts
<1> QED
  BY <1>1, <1>2

(* What the handlers of the switch start from. *)
LEMMA AtState ==
  ASSUME IInv, NEW x, At(x), Return
  PROVE  /\ Running /\ pc = "work" /\ i < task_count /\ RecordsOK /\ Me \in Clients
         /\ ctx[Me] \in Context /\ conn[Me] \in ConnectionStates /\ Sane(sock[Me])
         /\ ctx[Me].state = x /\ ctx[Me].calls = 0
         /\ RequestFits(ctx[Me], conn[Me], sock[Me], "switch")
         /\ ctx[Me].received + sock[Me].queued = sock[Me].answered
         /\ sock[Me].queued <= sock[Me].answered
         /\ fate \notin Causes /\ fate \notin Deaths
         /\ \/ fate' # "running" /\ UNCHANGED poolVars /\ stage' = "switch"
            \/ fate' = "running" /\ W!RunTask(conn'[Me] = "Disconnecting") /\ stage' = "tcp"
<1>1. Running /\ pc = "work" /\ i < task_count /\ stage = "switch" /\ ctx[Me].state = x
  BY DEF At, InTick
<1>2. ctx[Me].calls = 0
  BY <1>1, Mine DEF RequestFits, CallsFit
<1> QED
  BY <1>1, <1>2, Mine, Returned

(* The requests that have not been called back fit at both ends of a call. *)
LEMMA FitsAtReturn ==
  ASSUME NEW c, NEW k, NEW s, c.calls = 0,
         c.state = "Connecting" => k = "Connecting",
         RequestFits(c, k, s, "switch")
  PROVE  RequestFits(c, k, s, "tcp")
  BY DEF RequestFits, ClientFits, CallsFit

LEMMA ResolvingInv ==
  ASSUME IInv, Resolving
  PROVE  IInv'
<1>1. At("Resolving") /\ Return /\ UNCHANGED <<conn, sock, request_string, leaked, made>>
  BY DEF Resolving
<1>2. PICK addresses \in AddressLists :
        LET o == dns_resolve_hostname(addresses, MAX_IP_ADDRESS_CANDIDATES)
        IN  /\ ctx' = [ctx EXCEPT ![Me].found = o.count,
                                  ![Me].state = IF o.result = "OK" THEN "Connect" ELSE "Done"]
            /\ IF o.count > MAX_IP_ADDRESS_CANDIDATES THEN Abort("overrun") ELSE UNCHANGED fate
  BY DEF Resolving
<1>3. PICK n, x : /\ n = dns_resolve_hostname(addresses, MAX_IP_ADDRESS_CANDIDATES).count
                  /\ x = IF dns_resolve_hostname(addresses, MAX_IP_ADDRESS_CANDIDATES).result = "OK"
                         THEN "Connect" ELSE "Done"
  OBVIOUS
<1>4. n \in Nat /\ x \in {"Connect", "Done"} /\ x \in RequestStates
  <2>1. addresses \in Nat /\ MAX_IP_ADDRESS_CANDIDATES \in Nat
    BY HttpClientAssumption
  <2>2. n = IF addresses <= MAX_IP_ADDRESS_CANDIDATES THEN addresses
            ELSE MAX_IP_ADDRESS_CANDIDATES + 1
    BY <1>3, <2>1, AddressesWritten
  <2> QED
    BY <1>3, <2>1, <2>2 DEF RequestStates
<1>5. fate' = "overrun" \/ fate' = fate
  BY <1>2 DEF Abort
<1>6. PICK c : c = ctx[Me]
  OBVIOUS
<1>7. PICK d : d = [c EXCEPT !.found = n, !.state = x]
  OBVIOUS
<1>8. /\ RecordsOK /\ Me \in Clients /\ c \in Context /\ c.state = "Resolving" /\ c.calls = 0
      /\ RequestFits(c, conn[Me], sock[Me], "switch")
  BY <1>1, <1>6, AtState
<1>9. /\ d \in Context /\ d.state = x
      /\ d.input = c.input /\ d.inner = c.inner /\ d.to_send = c.to_send /\ d.sent = c.sent
      /\ d.received = c.received /\ d.calls = c.calls
  <2>1. PICK e : e = [c EXCEPT !.found = n]
    OBVIOUS
  <2>2. d = [e EXCEPT !.state = x]
    BY <1>7, <2>1
  <2>3. /\ e \in Context
        /\ e.input = c.input /\ e.inner = c.inner /\ e.to_send = c.to_send /\ e.sent = c.sent
        /\ e.received = c.received /\ e.calls = c.calls
    BY <1>4, <1>8, <2>1, FoundSet
  <2> QED
    BY <1>4, <2>2, <2>3, StateSet
<1>10. /\ ctx' \in [Clients -> Context] /\ ctx'[Me] = d
       /\ \A r \in Clients \ {Me} : ctx'[r] = ctx[r]
  <2>1. ctx' = [ctx EXCEPT ![Me] = d]
    BY <1>2, <1>3, <1>6, <1>7
  <2> QED
    BY <1>8, <1>9, <2>1, ContextSet
<1>11. conn[Me] = "Disconnected" /\ c.inner = "none" /\ c.received = 0
  BY <1>8 DEF RequestFits, ClientFits, TaskFits, InnerTask
<1>12. RequestFits(d, conn[Me], sock[Me], "switch")
  BY <1>4, <1>8, <1>9, <1>11
  DEF RequestFits, ClientFits, TaskFits, CallsFit, InnerTask, SentBy, Exchanging
<1>13. RequestFits(d, conn[Me], sock[Me], "tcp")
  BY <1>4, <1>8, <1>9, <1>12, FitsAtReturn
<1>14. RecordsOK'
  BY <1>1, <1>8, <1>10 DEF RecordsOK
<1>15. fate' \notin Causes /\ fate' \notin Deaths
  BY <1>1, <1>5, AtState DEF Causes, Deaths
<1> QED
  BY <1>1, <1>6, <1>9, <1>10, <1>12, <1>13, <1>14, <1>15, AtState, HandlerStep

(* The connection is started, or nothing happened but that the request is   *)
(* done.                                                                    *)
LEMMA ConnectChoice ==
  ASSUME IInv, Connect
  PROVE  \E ok \in BOOLEAN :
           /\ IF OpenFiles < MAX_OPEN_FILES THEN ok \/ "no_route" \in PeerFaults ELSE ~ ok
           /\ IF ok THEN /\ conn' = [conn EXCEPT ![Me] = "Connecting"]
                         /\ sock' = [sock EXCEPT ![Me] = Connecting]
                    ELSE UNCHANGED <<conn, sock>>
           /\ fate' = fate
           /\ Goto(IF ok THEN "Connecting" ELSE "Done")
<1>1. At("Connect") /\ Return /\ tcp_client_connect(Me, OpenFiles < MAX_OPEN_FILES)
      /\ Goto(IF conn'[Me] = "Connecting" THEN "Connecting" ELSE "Done")
  BY DEF Connect
<1>2. /\ RecordsOK /\ Me \in Clients /\ ctx[Me].state = "Connect"
      /\ RequestFits(ctx[Me], conn[Me], sock[Me], "switch")
  BY <1>1, AtState
<1>3. conn[Me] = "Disconnected" /\ conn \in [Clients -> ConnectionStates]
  BY <1>2 DEF RequestFits, ClientFits, RecordsOK
<1>4. fate' = fate
  BY <1>1, <1>3 DEF tcp_client_connect
<1>5. CASE UNCHANGED <<conn, sock>>
          /\ (OpenFiles < MAX_OPEN_FILES => "no_route" \in PeerFaults)
  BY <1>1, <1>3, <1>4, <1>5
<1>6. CASE /\ conn' = [conn EXCEPT ![Me] = "Connecting"]
           /\ sock' = [sock EXCEPT ![Me] = Connecting]
           /\ OpenFiles < MAX_OPEN_FILES
  <2>1. conn'[Me] = "Connecting"
    BY <1>2, <1>3, <1>6
  <2> QED
    BY <1>1, <1>4, <1>6, <2>1
<1> QED
  BY <1>1, <1>3, <1>5, <1>6, StartOutcome

LEMMA ConnectInv ==
  ASSUME IInv, Connect
  PROVE  IInv'
<1>1. At("Connect") /\ Return /\ UNCHANGED <<request_string, leaked, made>>
  BY DEF Connect
<1>2. PICK ok \in BOOLEAN :
        /\ IF ok THEN /\ conn' = [conn EXCEPT ![Me] = "Connecting"]
                      /\ sock' = [sock EXCEPT ![Me] = Connecting]
                 ELSE UNCHANGED <<conn, sock>>
        /\ fate' = fate
        /\ Goto(IF ok THEN "Connecting" ELSE "Done")
  BY ConnectChoice
<1>3. PICK c : c = ctx[Me]
  OBVIOUS
<1>4. /\ RecordsOK /\ Me \in Clients /\ c \in Context /\ c.state = "Connect" /\ c.calls = 0
      /\ sock[Me] \in Socket
      /\ RequestFits(c, conn[Me], sock[Me], "switch")
      /\ c.received + sock[Me].queued = sock[Me].answered
  BY <1>1, <1>3, AtState DEF Sane
<1>5. conn[Me] = "Disconnected" /\ c.inner = "none" /\ c.received = 0
  BY <1>4 DEF RequestFits, ClientFits, TaskFits, InnerTask
<1>6. PICK x : x = IF ok THEN "Connecting" ELSE "Done"
  OBVIOUS
<1>7. x \in RequestStates /\ Goto(x)
  BY <1>2, <1>6 DEF RequestStates
<1>8. PICK d : d = ctx'[Me]
  OBVIOUS
<1>9. /\ ctx' \in [Clients -> Context] /\ \A r \in Clients \ {Me} : ctx'[r] = ctx[r]
      /\ d.state = x
      /\ d.input = c.input /\ d.inner = c.inner /\ d.to_send = c.to_send /\ d.sent = c.sent
      /\ d.received = c.received /\ d.calls = c.calls
  BY <1>3, <1>4, <1>7, <1>8, GotoSets
<1>10. fate' = fate
  BY <1>2
<1>11. fate' \notin Causes /\ fate' \notin Deaths
  BY <1>1, <1>10, AtState
<1>12. CASE ok
  <2>1. Connecting \in Socket /\ Connecting.tcp = "syn_sent" /\ ~ Connecting.error
        /\ Connecting.queued = 0 /\ Connecting.answered = 0
    BY ConnectingSocket
  <2>2. /\ conn' = [conn EXCEPT ![Me] = "Connecting"]
        /\ sock' = [sock EXCEPT ![Me] = Connecting]
    BY <1>2, <1>12
  <2>3. /\ RecordsOK' /\ conn'[Me] = "Connecting" /\ sock'[Me] = Connecting
        /\ \A r \in Clients \ {Me} : conn'[r] = conn[r] /\ sock'[r] = sock[r]
    BY <1>1, <1>4, <1>9, <2>1, <2>2 DEF RecordsOK, ConnectionStates
  <2>4. RequestFits(d, "Connecting", Connecting, "switch")
    BY <1>4, <1>5, <1>6, <1>9, <1>12, <2>1
    DEF RequestFits, ClientFits, TaskFits, CallsFit, InnerTask, SentBy, Exchanging
  <2>5. RequestFits(d, "Connecting", Connecting, "tcp")
    BY <1>4, <1>9, <2>4, FitsAtReturn
  <2>6. d.received + Connecting.queued = Connecting.answered
    BY <1>5, <1>9, <2>1
  <2> QED
    BY <1>1, <1>8, <1>9, <1>11, <2>3, <2>4, <2>5, <2>6, AtState, HandlerStep
<1>13. CASE ~ ok
  <2>1. UNCHANGED <<conn, sock>>
    BY <1>2, <1>13
  <2>2. RecordsOK'
    BY <1>1, <1>4, <1>9, <2>1 DEF RecordsOK
  <2>3. RequestFits(d, conn[Me], sock[Me], "switch")
    BY <1>4, <1>5, <1>6, <1>9, <1>13
    DEF RequestFits, ClientFits, TaskFits, CallsFit, InnerTask, SentBy, Exchanging
  <2>4. RequestFits(d, conn[Me], sock[Me], "tcp")
    BY <1>4, <1>6, <1>9, <1>13, <2>3, FitsAtReturn
  <2> QED
    BY <1>1, <1>4, <1>8, <1>9, <1>11, <2>1, <2>2, <2>3, <2>4, AtState, HandlerStep
<1> QED
  BY <1>12, <1>13

LEMMA ConnectingTickInv ==
  ASSUME IInv, ConnectingTick
  PROVE  IInv'
<1>1. At("Connecting") /\ Return /\ UNCHANGED <<conn, sock, request_string, leaked, made>>
  BY DEF ConnectingTick
<1>2. PICK c : c = ctx[Me]
  OBVIOUS
<1>3. /\ RecordsOK /\ Me \in Clients /\ c \in Context /\ c.state = "Connecting" /\ c.calls = 0
      /\ RequestFits(c, conn[Me], sock[Me], "switch")
  BY <1>1, <1>2, AtState
<1>4. /\ conn[Me] = "Connecting" \/ (conn[Me] = "Connected" /\ sock[Me].tcp # "syn_sent")
      /\ c.inner = "none" /\ c.received = 0
  BY <1>3 DEF RequestFits, ClientFits, TaskFits, InnerTask
<1>5. fate' = fate
  BY <1>4 DEF ConnectingTick
<1>6. fate' \notin Causes /\ fate' \notin Deaths
  BY <1>1, <1>5, AtState
<1>7. CASE conn[Me] = "Connected"
  <2>1. Goto("Start_Sending_Request")
    BY <1>7 DEF ConnectingTick
  <2>2. "Start_Sending_Request" \in RequestStates
    BY DEF RequestStates
  <2>3. PICK d : d = ctx'[Me]
    OBVIOUS
  <2>4. /\ ctx' \in [Clients -> Context] /\ \A r \in Clients \ {Me} : ctx'[r] = ctx[r]
        /\ d.state = "Start_Sending_Request"
        /\ d.input = c.input /\ d.inner = c.inner /\ d.to_send = c.to_send /\ d.sent = c.sent
        /\ d.received = c.received /\ d.calls = c.calls
    BY <1>2, <1>3, <2>1, <2>2, <2>3, GotoSets
  <2>5. RecordsOK'
    BY <1>1, <1>3, <2>4 DEF RecordsOK
  <2>6. RequestFits(d, conn[Me], sock[Me], "switch")
    BY <1>3, <1>4, <1>7, <2>4
    DEF RequestFits, ClientFits, TaskFits, CallsFit, InnerTask, SentBy, Exchanging
  <2>7. RequestFits(d, conn[Me], sock[Me], "tcp")
    BY <1>3, <2>4, <2>6, FitsAtReturn
  <2> QED
    BY <1>1, <1>2, <1>6, <2>3, <2>4, <2>5, <2>6, <2>7, AtState, HandlerStep
<1>8. CASE conn[Me] = "Connecting"
  <2>1. ctx' = ctx
    BY <1>8 DEF ConnectingTick
  <2>2. RecordsOK'
    BY <1>1, <1>3, <2>1 DEF RecordsOK
  <2>3. RequestFits(c, conn[Me], sock[Me], "tcp")
    BY <1>3, <1>8, FitsAtReturn
  <2> QED
    BY <1>1, <1>2, <1>3, <1>6, <2>1, <2>2, <2>3, AtState, HandlerStep
<1> QED
  BY <1>4, <1>7, <1>8

(* The text that is put into the array is never empty. *)
LEMMA TextNotEmpty ==
  ASSUME NEW input \in Inputs
  PROVE  TextLength(input) \in Nat /\ TextLength(input) > 0
<1>1. input.length \in Nat \ {0} /\ REQUEST_STRING_SIZE \in Nat \ {0, 1}
  BY HttpClientAssumption
<1> QED
  BY <1>1 DEF TextLength

LEMMA SendingSet ==
  ASSUME NEW c \in Context, c.input \in Inputs, NEW d, d = Sending(c)
  PROVE  /\ d \in Context /\ d.state = "Sending_Request" /\ d.inner = "send"
         /\ d.sent = 0 /\ d.to_send = TextLength(c.input)
         /\ d.input = c.input /\ d.received = c.received /\ d.calls = c.calls
<1>1. TextLength(c.input) \in Nat
  BY TextNotEmpty
<1> QED
  BY <1>1 DEF Sending, Context, RequestStates

LEMMA StartSendingRequestInv ==
  ASSUME IInv, StartSendingRequest
  PROVE  IInv'
<1>1. At("Start_Sending_Request") /\ Return /\ UNCHANGED <<conn, sock, leaked, made>>
  BY DEF StartSendingRequest
<1>2. PICK c : c = ctx[Me]
  OBVIOUS
<1>3. /\ RecordsOK /\ Me \in Clients /\ c \in Context /\ c.state = "Start_Sending_Request"
      /\ c.calls = 0 /\ RequestFits(c, conn[Me], sock[Me], "switch") /\ c.input \in Inputs
  BY <1>1, <1>2, AtState DEF RequestFits
<1>4. conn[Me] \in {"Connected", "Disconnecting"} /\ c.received = 0
  BY <1>3 DEF RequestFits, ClientFits, TaskFits, Exchanging
<1>5. CASE HasText(c.input)
  <2>1. request_string' = Me /\ ctx' = [ctx EXCEPT ![Me] = Sending(ctx[Me])] /\ fate' = fate
    BY <1>2, <1>3, <1>5 DEF StartSendingRequest, RecordsOK
  <2>2. PICK d : d = Sending(c)
    OBVIOUS
  <2>3. /\ d \in Context /\ d.state = "Sending_Request" /\ d.inner = "send"
        /\ d.sent = 0 /\ d.to_send = TextLength(c.input)
        /\ d.input = c.input /\ d.received = c.received /\ d.calls = c.calls
    BY <1>3, <2>2, SendingSet
  <2>4. d.to_send \in Nat /\ d.to_send > 0
    BY <1>3, <2>3, TextNotEmpty
  <2>5. /\ ctx' \in [Clients -> Context] /\ ctx'[Me] = d
        /\ \A r \in Clients \ {Me} : ctx'[r] = ctx[r]
    BY <1>2, <1>3, <2>1, <2>2, <2>3, ContextSet
  <2>6. RecordsOK'
    BY <1>1, <1>3, <2>1, <2>5 DEF RecordsOK
  <2>7. RequestFits(d, conn[Me], sock[Me], "switch")
    BY <1>3, <1>4, <2>3, <2>4
    DEF RequestFits, ClientFits, TaskFits, CallsFit, InnerTask, SentBy, Exchanging
  <2>8. RequestFits(d, conn[Me], sock[Me], "tcp")
    BY <1>3, <2>3, <2>7, FitsAtReturn
  <2>9. fate' \notin Causes /\ fate' \notin Deaths
    BY <1>1, <2>1, AtState
  <2> QED
    BY <1>1, <1>2, <1>3, <2>3, <2>5, <2>6, <2>7, <2>8, <2>9, AtState, HandlerStep
<1>6. CASE ~ HasText(c.input)
  <2>1. request_string' = NULL /\ ctx' = ctx /\ fate' \in {"empty_request", "unknown_method"}
    BY <1>2, <1>6 DEF StartSendingRequest, Abort
  <2>2. fate' \notin Causes /\ fate' \notin Deaths /\ fate' # "running"
    BY <2>1 DEF Causes, Deaths
  <2>3. RecordsOK'
    BY <1>1, <1>3, <2>1 DEF RecordsOK
  <2> QED
    BY <1>1, <1>2, <1>3, <2>1, <2>2, <2>3, AtState, HandlerStep
<1> QED
  BY <1>5, <1>6

(* The inner send task: either it has sent everything, or it sends some     *)
(* more of what is left, or the connection is lost.                         *)
LEMMA SendingRequestInv ==
  ASSUME IInv, SendingRequest
  PROVE  IInv'
<1>1. At("Sending_Request") /\ Return /\ UNCHANGED <<conn, request_string, leaked, made>>
  BY DEF SendingRequest
<1>2. PICK c : c = ctx[Me]
  OBVIOUS
<1>3. PICK s : s = sock[Me]
  OBVIOUS
<1>4. /\ RecordsOK /\ Me \in Clients /\ c \in Context /\ c.state = "Sending_Request" /\ c.calls = 0
      /\ Sane(s) /\ s \in Socket /\ s.queued <= s.answered
      /\ c.received + s.queued = s.answered
      /\ RequestFits(c, conn[Me], s, "switch") /\ RequestFits(c, conn[Me], s, "tcp")
  BY <1>1, <1>2, <1>3, AtState, FitsAtReturn DEF Sane
<1>5. /\ c.sent \in Nat /\ c.to_send \in Nat /\ c.sent <= c.to_send /\ c.to_send > 0
      /\ conn[Me] \in {"Connected", "Disconnecting"} /\ s.tcp # "syn_sent"
      /\ c.received = 0 /\ c.inner = "send"
  BY <1>4, ContextFields DEF RequestFits, ClientFits, TaskFits, Exchanging, InnerTask
<1>6. ~ (ctx[Me].sent > ctx[Me].to_send)
  BY <1>2, <1>5
<1>7. CASE AllSent(Me)
  <2>1. /\ ctx' = [ctx EXCEPT ![Me].inner = "none", ![Me].state = "Waiting_For_Response"]
        /\ UNCHANGED <<sock, fate>>
    BY <1>6, <1>7 DEF SendingRequest
  <2>2. PICK e : e = [c EXCEPT !.inner = "none"]
    OBVIOUS
  <2>3. PICK d : d = [e EXCEPT !.state = "Waiting_For_Response"]
    OBVIOUS
  <2>4. /\ e \in Context /\ e.inner = "none"
        /\ e.input = c.input /\ e.state = c.state /\ e.to_send = c.to_send /\ e.sent = c.sent
        /\ e.received = c.received /\ e.calls = c.calls
    BY <1>4, <2>2, InnerSet
  <2>5. /\ d \in Context /\ d.state = "Waiting_For_Response"
        /\ d.input = e.input /\ d.inner = e.inner /\ d.to_send = e.to_send /\ d.sent = e.sent
        /\ d.received = e.received /\ d.calls = e.calls
    BY <2>3, <2>4, StateSet DEF RequestStates
  <2>6. /\ ctx' \in [Clients -> Context] /\ ctx'[Me] = d
        /\ \A r \in Clients \ {Me} : ctx'[r] = ctx[r]
    <3>1. ctx' = [ctx EXCEPT ![Me] = d]
      BY <1>2, <2>1, <2>2, <2>3
    <3> QED
      BY <1>4, <2>5, <3>1, ContextSet
  <2>7. RecordsOK'
    BY <1>1, <1>4, <2>1, <2>6 DEF RecordsOK
  <2>8. c.sent = c.to_send
    BY <1>2, <1>7 DEF AllSent
  <2>9. RequestFits(d, conn[Me], s, "switch")
    BY <1>4, <1>5, <2>4, <2>5, <2>8
    DEF RequestFits, ClientFits, TaskFits, CallsFit, InnerTask, SentBy, Exchanging
  <2>10. RequestFits(d, conn[Me], s, "tcp")
    BY <1>4, <2>4, <2>5, <2>9, FitsAtReturn
  <2>11. fate' \notin Causes /\ fate' \notin Deaths
    BY <1>1, <2>1, AtState
  <2>12. d.received + s.queued = s.answered
    BY <1>4, <2>4, <2>5
  <2> QED
    BY <1>1, <1>3, <2>1, <2>6, <2>7, <2>9, <2>10, <2>11, <2>12, AtState, HandlerStep
<1>8. CASE ~ AllSent(Me)
  <2>1. PICK n : n = c.to_send - c.sent
    OBVIOUS
  <2>2. n \in Nat \ {0} /\ c.sent + n = c.to_send
    <3>1. c.sent # c.to_send
      BY <1>2, <1>8 DEF AllSent
    <3> QED
      BY <1>5, <2>1, <3>1
  <2>3. PICK o \in tcp_socket_send(s, n) :
          /\ sock' = [sock EXCEPT ![Me] = o.socket]
          /\ IF o.result = "OK"
             THEN ctx' = CountSent(Me, o.bytes) /\ UNCHANGED fate
             ELSE Abort(o.result) /\ UNCHANGED ctx
    BY <1>2, <1>3, <1>6, <1>8, <2>1 DEF SendingRequest
  <2>4. /\ o.result \in {"OK", "Not_Connected", "SIGPIPE", "send_failed"}
        /\ Follows(s, o.socket, 0)
        /\ o.result = "OK" => o.bytes \in 1 .. n
        /\ o.result # "OK" => IsDead(o.socket)
    BY <1>4, <1>5, <2>2, SendOutcomes
  <2>5. PICK t : t = o.socket
    OBVIOUS
  <2>6. t \in Socket /\ c.received + t.queued = t.answered
    <3>1. c.received \in Int
      BY <1>5
    <3> QED
      BY <1>4, <2>4, <2>5, <3>1, NothingTaken DEF Follows, Sane
  <2>7. /\ sock' \in [Clients -> Socket] /\ sock'[Me] = t
        /\ \A r \in Clients \ {Me} : sock'[r] = sock[r]
    BY <1>4, <2>3, <2>5, <2>6 DEF RecordsOK
  <2>8. RequestFits(c, conn[Me], t, "switch") /\ RequestFits(c, conn[Me], t, "tcp")
    BY <1>4, <2>4, <2>5, FitsAfter
  <2>9. CASE o.result = "OK"
    <3>1. ctx' = CountSent(Me, o.bytes) /\ fate' = fate
      BY <2>3, <2>9
    <3>2. PICK m, w : m = c.sent + o.bytes /\ w = c.wire \cup {request_string}
      OBVIOUS
    <3>3. m \in Nat /\ m <= c.to_send
      BY <1>5, <2>2, <2>4, <2>9, <3>2
    <3>4. w \in SUBSET (Clients \cup {NULL})
      BY <1>4, <3>2, ContextFields DEF RecordsOK
    <3>5. PICK e : e = [c EXCEPT !.sent = m]
      OBVIOUS
    <3>6. PICK d : d = [e EXCEPT !.wire = w]
      OBVIOUS
    <3>7. /\ e \in Context /\ e.sent = m /\ e.wire = c.wire
          /\ e.input = c.input /\ e.state = c.state /\ e.to_send = c.to_send /\ e.inner = c.inner
          /\ e.received = c.received /\ e.calls = c.calls
      BY <1>4, <3>3, <3>5, SentSet
    <3>8. /\ d \in Context
          /\ d.input = e.input /\ d.state = e.state /\ d.to_send = e.to_send /\ d.sent = e.sent
          /\ d.inner = e.inner /\ d.received = e.received /\ d.calls = e.calls
      BY <3>4, <3>6, <3>7, WireSet
    <3>9. /\ ctx' \in [Clients -> Context] /\ ctx'[Me] = d
          /\ \A r \in Clients \ {Me} : ctx'[r] = ctx[r]
      <4>1. ctx' = [ctx EXCEPT ![Me] = d]
        BY <1>2, <3>1, <3>2, <3>5, <3>6 DEF CountSent
      <4> QED
        BY <1>4, <3>8, <4>1, ContextSet
    <3>10. RecordsOK'
      BY <1>1, <1>4, <2>7, <3>9 DEF RecordsOK
    <3>11. RequestFits(d, conn[Me], t, "switch") /\ RequestFits(d, conn[Me], t, "tcp")
      BY <1>4, <1>5, <2>8, <3>3, <3>7, <3>8
      DEF RequestFits, ClientFits, TaskFits, CallsFit, SentBy
    <3>12. d.received + t.queued = t.answered
      BY <2>6, <3>7, <3>8
    <3>13. fate' \notin Causes /\ fate' \notin Deaths
      BY <1>1, <3>1, AtState
    <3> QED
      BY <1>1, <2>7, <3>9, <3>10, <3>11, <3>12, <3>13, AtState, HandlerStep
  <2>10. CASE o.result # "OK"
    <3>1. fate' = o.result /\ ctx' = ctx
      BY <2>3, <2>10 DEF Abort
    <3>2. RecordsOK'
      BY <1>1, <1>4, <2>7, <3>1 DEF RecordsOK
    <3>3. fate' \notin Causes /\ fate' # "running" /\ IsDead(t)
      BY <2>4, <2>5, <2>10, <3>1 DEF Causes
    <3>4. UNCHANGED poolVars /\ stage' = "switch"
      BY <1>1, <3>3, AtState
    <3> QED
      BY <1>1, <1>2, <2>6, <2>7, <2>8, <3>1, <3>2, <3>3, <3>4, AtState, HandlerStep
  <2> QED
    BY <2>9, <2>10
<1> QED
  BY <1>7, <1>8

LEMMA WaitingForResponseInv ==
  ASSUME IInv, WaitingForResponse
  PROVE  IInv'
<1>1. /\ At("Waiting_For_Response") /\ Return
      /\ UNCHANGED <<conn, sock, fate, leaked, made>> /\ request_string' = NULL
  BY DEF WaitingForResponse, tcpVars
<1>2. PICK c : c = ctx[Me]
  OBVIOUS
<1>3. /\ RecordsOK /\ Me \in Clients /\ c \in Context /\ c.state = "Waiting_For_Response"
      /\ c.calls = 0 /\ RequestFits(c, conn[Me], sock[Me], "switch")
      /\ c.received + sock[Me].queued = sock[Me].answered
  BY <1>1, <1>2, AtState
<1>4. /\ conn[Me] \in {"Connected", "Disconnecting"} /\ c.received = 0
      /\ c.sent = c.to_send /\ c.to_send > 0
  BY <1>3 DEF RequestFits, ClientFits, TaskFits, SentBy, Exchanging
<1>5. PICK e : e = [c EXCEPT !.state = "Receiving_Response"]
  OBVIOUS
<1>6. PICK f : f = [e EXCEPT !.inner = "receive"]
  OBVIOUS
<1>7. PICK d : d = [f EXCEPT !.received = 0]
  OBVIOUS
<1>8. /\ e \in Context /\ e.state = "Receiving_Response"
      /\ e.input = c.input /\ e.inner = c.inner /\ e.to_send = c.to_send /\ e.sent = c.sent
      /\ e.received = c.received /\ e.calls = c.calls
  BY <1>3, <1>5, StateSet DEF RequestStates
<1>9. /\ f \in Context /\ f.inner = "receive"
      /\ f.input = e.input /\ f.state = e.state /\ f.to_send = e.to_send /\ f.sent = e.sent
      /\ f.received = e.received /\ f.calls = e.calls
  BY <1>6, <1>8, InnerSet
<1>10. /\ d \in Context /\ d.received = 0
       /\ d.input = f.input /\ d.state = f.state /\ d.to_send = f.to_send /\ d.sent = f.sent
       /\ d.inner = f.inner /\ d.calls = f.calls
  <2>1. 0 \in 0 .. RESPONSE_LENGTH
    BY TcpSocketAssumption
  <2> QED
    BY <1>7, <1>9, <2>1, ReceivedSet
<1>11. /\ ctx' \in [Clients -> Context] /\ ctx'[Me] = d
       /\ \A r \in Clients \ {Me} : ctx'[r] = ctx[r]
  <2>1. ctx' = [ctx EXCEPT ![Me] = d]
    BY <1>2, <1>5, <1>6, <1>7 DEF WaitingForResponse
  <2> QED
    BY <1>3, <1>10, <2>1, ContextSet
<1>12. RecordsOK'
  BY <1>1, <1>3, <1>11 DEF RecordsOK
<1>13. RequestFits(d, conn[Me], sock[Me], "switch")
  BY <1>3, <1>4, <1>8, <1>9, <1>10
  DEF RequestFits, ClientFits, TaskFits, CallsFit, InnerTask, SentBy, Exchanging
<1>14. RequestFits(d, conn[Me], sock[Me], "tcp")
  BY <1>3, <1>8, <1>9, <1>10, <1>13, FitsAtReturn
<1>15. d.received + sock[Me].queued = sock[Me].answered
  BY <1>3, <1>4, <1>10
<1>16. fate' \notin Causes /\ fate' \notin Deaths
  BY <1>1, AtState
<1> QED
  BY <1>1, <1>11, <1>12, <1>13, <1>14, <1>15, <1>16, AtState, HandlerStep

(* The inner receive task: what it reads is counted and parsed; a read that *)
(* brings nothing changes nothing, and a failure has a failed connection    *)
(* behind it.                                                               *)
LEMMA ReceivingResponseInv ==
  ASSUME IInv, ReceivingResponse
  PROVE  IInv'
<1>1. At("Receiving_Response") /\ Return /\ UNCHANGED <<conn, request_string, leaked, made>>
  BY DEF ReceivingResponse
<1>2. PICK c : c = ctx[Me]
  OBVIOUS
<1>3. PICK s : s = sock[Me]
  OBVIOUS
<1>4. /\ RecordsOK /\ Me \in Clients /\ c \in Context /\ c.state = "Receiving_Response"
      /\ c.calls = 0
      /\ Sane(s) /\ s \in Socket /\ s.queued <= s.answered
      /\ c.received + s.queued = s.answered
      /\ RequestFits(c, conn[Me], s, "switch") /\ RequestFits(c, conn[Me], s, "tcp")
  BY <1>1, <1>2, <1>3, AtState, FitsAtReturn DEF Sane
<1>5. /\ conn[Me] \in {"Connected", "Disconnecting"} /\ s.tcp # "syn_sent"
      /\ c.sent = c.to_send /\ c.to_send > 0 /\ c.inner = "receive"
      /\ c.received \in 0 .. RESPONSE_LENGTH /\ c.received \in Int
  BY <1>4, ContextFields DEF RequestFits, ClientFits, TaskFits, Exchanging, InnerTask, SentBy
<1>6. PICK o \in tcp_socket_receive(s) :
        /\ sock' = [sock EXCEPT ![Me] = o.socket]
        /\ IF o.bytes > 0 THEN ParseRead(Me, o.bytes)
           ELSE IF o.result = "OK" THEN ReadNothing(Me)
           ELSE IF o.result = "Not_Ready" THEN UNCHANGED <<ctx, fate>>
           ELSE Abort(o.result) /\ UNCHANGED ctx
  BY <1>3 DEF ReceivingResponse
<1>7. /\ o.result \in {"OK", "Not_Ready", "Not_Connected", "recv_failed"}
      /\ o.bytes \in 0 .. RESPONSE_LENGTH
      /\ Follows(s, o.socket, o.bytes)
      /\ o.result # "OK" => o.bytes = 0
      /\ o.result \in {"Not_Connected", "recv_failed"} => IsDead(o.socket)
  BY <1>4, <1>5, ReceiveOutcomes
<1>8. PICK t : t = o.socket
  OBVIOUS
<1>9. PICK n : n = o.bytes
  OBVIOUS
<1>10. n \in 0 .. RESPONSE_LENGTH /\ n \in Int
  BY <1>7, <1>9, TcpSocketAssumption
<1>11. t \in Socket /\ (c.received + n) + t.queued = t.answered
  BY <1>4, <1>5, <1>7, <1>8, <1>9, <1>10, BytesAfter DEF Follows, Sane
<1>12. c.received + n \in 0 .. RESPONSE_LENGTH
  <2>1. /\ t.queued \in 0 .. RESPONSE_LENGTH /\ t.answered \in 0 .. RESPONSE_LENGTH
        /\ RESPONSE_LENGTH \in Nat
    BY <1>11, SocketFields, TcpSocketAssumption
  <2> QED
    BY <1>5, <1>10, <1>11, <2>1
<1>13. /\ sock' \in [Clients -> Socket] /\ sock'[Me] = t
       /\ \A r \in Clients \ {Me} : sock'[r] = sock[r]
  BY <1>4, <1>6, <1>8, <1>11 DEF RecordsOK
<1>14. RequestFits(c, conn[Me], t, "switch") /\ RequestFits(c, conn[Me], t, "tcp")
  BY <1>4, <1>7, <1>8, FitsAfter
<1>15. PICK d : d = [c EXCEPT !.received = c.received + n]
  OBVIOUS
<1>16. /\ d \in Context /\ d.received = c.received + n
       /\ d.input = c.input /\ d.state = c.state /\ d.to_send = c.to_send /\ d.sent = c.sent
       /\ d.inner = c.inner /\ d.calls = c.calls
  BY <1>4, <1>12, <1>15, ReceivedSet
<1>17. RequestFits(d, conn[Me], t, "switch") /\ RequestFits(d, conn[Me], t, "tcp")
  BY <1>4, <1>14, <1>16 DEF RequestFits, ClientFits, TaskFits, CallsFit, SentBy
<1>18. CountRead(Me, n) = [ctx EXCEPT ![Me] = d]
  BY <1>2, <1>15 DEF CountRead
<1>19. CASE n > 0 /\ fate' = "http_try_parse" /\ ctx' = ctx
  <2>1. RecordsOK'
    BY <1>1, <1>4, <1>13, <1>19 DEF RecordsOK
  <2>2. fate' \notin Causes /\ fate' \notin Deaths /\ fate' # "running"
    BY <1>19 DEF Causes, Deaths
  <2> QED
    BY <1>1, <1>2, <1>13, <1>14, <1>19, <2>1, <2>2, AtState, HandlerStep
<1>20. CASE n > 0 /\ fate' = fate /\ ctx' = CountRead(Me, n)
  <2>1. /\ ctx' \in [Clients -> Context] /\ ctx'[Me] = d
        /\ \A r \in Clients \ {Me} : ctx'[r] = ctx[r]
    <3>1. ctx' = [ctx EXCEPT ![Me] = d]
      BY <1>18, <1>20
    <3> QED
      BY <1>4, <1>16, <3>1, ContextSet
  <2>2. RecordsOK'
    BY <1>1, <1>4, <1>13, <2>1 DEF RecordsOK
  <2>3. d.received + t.queued = t.answered
    BY <1>11, <1>16
  <2>4. fate' \notin Causes /\ fate' \notin Deaths
    BY <1>1, <1>20, AtState
  <2> QED
    BY <1>1, <1>13, <1>17, <2>1, <2>2, <2>3, <2>4, AtState, HandlerStep
<1>21. CASE n > 0 /\ fate' = fate
            /\ ctx' = [CountRead(Me, n) EXCEPT ![Me].inner = "none", ![Me].state = "Done"]
  <2>1. PICK e : e = [d EXCEPT !.inner = "none"]
    OBVIOUS
  <2>2. PICK f : f = [e EXCEPT !.state = "Done"]
    OBVIOUS
  <2>3. /\ e \in Context /\ e.inner = "none"
        /\ e.input = d.input /\ e.state = d.state /\ e.to_send = d.to_send /\ e.sent = d.sent
        /\ e.received = d.received /\ e.calls = d.calls
    BY <1>16, <2>1, InnerSet
  <2>4. /\ f \in Context /\ f.state = "Done"
        /\ f.input = e.input /\ f.inner = e.inner /\ f.to_send = e.to_send /\ f.sent = e.sent
        /\ f.received = e.received /\ f.calls = e.calls
    BY <2>2, <2>3, StateSet DEF RequestStates
  <2>5. /\ ctx' \in [Clients -> Context] /\ ctx'[Me] = f
        /\ \A r \in Clients \ {Me} : ctx'[r] = ctx[r]
    <3>1. ctx' = [ctx EXCEPT ![Me] = f]
      <4>1. ctx \in [Clients -> Context] /\ Me \in Clients
        BY <1>4 DEF RecordsOK
      <4>2. [ctx EXCEPT ![Me] = d][Me] = d
        BY <4>1
      <4>3. ctx' = [[ctx EXCEPT ![Me] = d] EXCEPT ![Me] = f]
        BY <1>18, <1>21, <2>1, <2>2, <4>2
      <4> QED
        BY <4>1, <4>3
    <3> QED
      BY <1>4, <2>4, <3>1, ContextSet
  <2>6. RecordsOK'
    BY <1>1, <1>4, <1>13, <2>5 DEF RecordsOK
  <2>7. f.received > 0
    BY <1>5, <1>10, <1>16, <1>21, <2>3, <2>4
  <2>8. RequestFits(f, conn[Me], t, "switch")
    BY <1>4, <1>5, <1>16, <1>17, <2>3, <2>4, <2>7
    DEF RequestFits, ClientFits, TaskFits, CallsFit, InnerTask, SentBy, Exchanging
  <2>9. RequestFits(f, conn[Me], t, "tcp")
    BY <1>4, <1>16, <2>3, <2>4, <2>8, FitsAtReturn
  <2>10. f.received + t.queued = t.answered
    BY <1>11, <1>16, <2>3, <2>4
  <2>11. fate' \notin Causes /\ fate' \notin Deaths
    BY <1>1, <1>21, AtState
  <2> QED
    BY <1>1, <1>13, <2>5, <2>6, <2>8, <2>9, <2>10, <2>11, AtState, HandlerStep
<1>22. CASE n = 0 /\ fate' = fate /\ ctx' = ctx
  <2>1. RecordsOK'
    BY <1>1, <1>4, <1>13, <1>22 DEF RecordsOK
  <2>2. c.received + t.queued = t.answered
    BY <1>5, <1>11, <1>22
  <2>3. fate' \notin Causes /\ fate' \notin Deaths
    BY <1>1, <1>22, AtState
  <2> QED
    BY <1>1, <1>2, <1>13, <1>14, <1>22, <2>1, <2>2, <2>3, AtState, HandlerStep
<1>23. CASE n = 0 /\ fate' \in {"Not_Connected", "recv_failed"} /\ ctx' = ctx /\ IsDead(t)
  <2>1. RecordsOK'
    BY <1>1, <1>4, <1>13, <1>23 DEF RecordsOK
  <2>2. fate' \notin Causes /\ fate' # "running"
    BY <1>23 DEF Causes
  <2> QED
    BY <1>1, <1>2, <1>13, <1>14, <1>23, <2>1, <2>2, AtState, HandlerStep
<1>24. QED
  <2>1. CASE n > 0
    <3>1. ParseRead(Me, n)
      BY <1>6, <1>9, <2>1
    <3> QED
      BY <1>19, <1>20, <1>21, <2>1, <3>1 DEF ParseRead, Abort
  <2>2. CASE ~ (n > 0)
    <3>1. n = 0
      BY <1>10, <2>2
    <3>2. CASE o.result \in {"OK", "Not_Ready"}
      BY <1>6, <1>9, <1>22, <2>2, <3>1, <3>2 DEF ReadNothing
    <3>3. CASE o.result \in {"Not_Connected", "recv_failed"}
      BY <1>6, <1>7, <1>8, <1>9, <1>23, <2>2, <3>1, <3>3 DEF Abort
    <3> QED
      BY <1>7, <3>2, <3>3
  <2> QED
    BY <2>1, <2>2

(* The callback is called once: the call counter of a request that is not   *)
(* disconnecting is 0 when its handler is entered.                          *)
LEMMA CallDoneInv ==
  ASSUME IInv, CallDone
  PROVE  IInv'
<1>1. /\ Running /\ pc = "work" /\ i < task_count /\ stage = "switch" /\ stage' = "callback"
      /\ UNCHANGED <<conn, sock, fate, poolVars, request_string, leaked, made>>
  BY DEF CallDone, At, InTick, tcpVars
<1>2. PICK c : c = ctx[Me]
  OBVIOUS
<1>3. /\ RecordsOK /\ Me \in Clients /\ c \in Context /\ c.state = "Done"
      /\ RequestFits(c, conn[Me], sock[Me], "switch")
      /\ c.received + sock[Me].queued = sock[Me].answered
      /\ fate \notin Causes /\ fate \notin Deaths
  BY <1>1, <1>2, Mine DEF CallDone, At
<1>4. c.calls = 0
  BY <1>3 DEF RequestFits, CallsFit
<1>5. PICK n : n = c.calls + 1
  OBVIOUS
<1>6. n = 1
  BY <1>4, <1>5
<1>7. PICK d : d = [c EXCEPT !.calls = n]
  OBVIOUS
<1>8. /\ d \in Context /\ d.calls = n
      /\ d.input = c.input /\ d.state = c.state /\ d.to_send = c.to_send /\ d.sent = c.sent
      /\ d.inner = c.inner /\ d.received = c.received
  BY <1>3, <1>6, <1>7, CallsSet
<1>9. /\ ctx' \in [Clients -> Context] /\ ctx'[Me] = d
      /\ \A r \in Clients \ {Me} : ctx'[r] = ctx[r]
  <2>1. ctx' = [ctx EXCEPT ![Me] = d]
    BY <1>2, <1>5, <1>7 DEF CallDone
  <2> QED
    BY <1>3, <1>8, <2>1, ContextSet
<1>10. RecordsOK'
  BY <1>1, <1>3, <1>9 DEF RecordsOK
<1>11. RequestFits(d, conn[Me], sock[Me], "callback")
  BY <1>3, <1>4, <1>6, <1>8
  DEF RequestFits, ClientFits, TaskFits, CallsFit, SentBy, Exchanging
<1>12. d.received + sock[Me].queued = sock[Me].answered
  BY <1>3, <1>8
<1> QED
  BY <1>1, <1>3, <1>9, <1>10, <1>11, <1>12, HandlerStep

LEMMA DisconnectDoneInv ==
  ASSUME IInv, DisconnectDone
  PROVE  IInv'
<1>1. /\ Running /\ pc = "work" /\ i < task_count /\ stage = "callback" /\ Return
      /\ UNCHANGED <<sock, ctx, request_string, leaked, made>>
  BY DEF DisconnectDone, InTick, tcp_client_disconnect, clientVars
<1>2. PICK c : c = ctx[Me]
  OBVIOUS
<1>3. /\ RecordsOK /\ Me \in Clients /\ c \in Context
      /\ RequestFits(c, conn[Me], sock[Me], "callback")
      /\ c.received + sock[Me].queued = sock[Me].answered
      /\ fate \notin Causes /\ fate \notin Deaths
  BY <1>1, <1>2, Mine
<1>4. \/ fate' # "running" /\ UNCHANGED poolVars /\ stage' = "callback"
      \/ fate' = "running" /\ W!RunTask(conn'[Me] = "Disconnecting") /\ stage' = "tcp"
  BY <1>1, Returned
<1>5. CASE conn[Me] = "Connected"
  <2>1. conn' = [conn EXCEPT ![Me] = "Disconnecting"] /\ fate' = fate
    BY <1>5 DEF DisconnectDone, tcp_client_disconnect
  <2>2. /\ RecordsOK' /\ conn'[Me] = "Disconnecting"
        /\ \A r \in Clients \ {Me} : conn'[r] = conn[r]
    BY <1>1, <1>3, <2>1 DEF RecordsOK, ConnectionStates
  <2>3. RequestFits(c, "Disconnecting", sock[Me], "tcp")
    BY <1>3, <1>5 DEF RequestFits, ClientFits, TaskFits, CallsFit, SentBy, Exchanging
  <2> QED
    BY <1>1, <1>2, <1>3, <1>4, <2>1, <2>2, <2>3, HandlerStep DEF Running
<1>6. CASE conn[Me] # "Connected"
  <2>1. conn' = conn /\ fate' = "tcp_client_disconnect"
    BY <1>6 DEF DisconnectDone, tcp_client_disconnect, Abort
  <2>2. fate' \notin Causes /\ fate' \notin Deaths /\ fate' # "running"
    BY <2>1 DEF Causes, Deaths
  <2>3. RecordsOK'
    BY <1>1, <1>3, <2>1 DEF RecordsOK
  <2> QED
    BY <1>1, <1>2, <1>3, <1>4, <2>1, <2>2, <2>3, HandlerStep
<1> QED
  BY <1>5, <1>6

-----------------------------------------------------------------------------
(* No step at all. *)
LEMMA StutterInv ==
  ASSUME IInv, UNCHANGED vars
  PROVE  IInv'
<1>1. /\ UNCHANGED <<conn, sock, fate, stage, ctx, request_string, leaked, made>>
      /\ UNCHANGED poolVars
  BY DEF vars, tcpVars, clientVars
<1>2. P!WorkerInv' /\ W!Finished' = W!Finished /\ Me' = Me
  BY <1>1, PoolStill DEF IInv
<1>3. UNCHANGED <<heap, task_count, pc, i>>
  BY <1>1 DEF poolVars
<1>4. TypeOK'
  BY <1>1, <1>2, PoolTypeNext DEF IInv, ClientInv, TypeOK
<1>5. StageFits' /\ SocketsCounted' /\ FreeContextsZeroed' /\ FlagsFit'
  BY <1>1, <1>2, <1>3 DEF IInv, ClientInv, StageFits, SocketsCounted, FreeContextsZeroed, FlagsFit
<1>6. RequestsFit'
  BY <1>1, <1>2, <1>3 DEF IInv, ClientInv, RequestsFit, StageOf
<1>7. BytesConserved' /\ SoundAssertions' /\ NetworkDeaths'
  BY <1>1, <1>2, <1>3 DEF IInv, ClientInv, BytesConserved, SoundAssertions, NetworkDeaths, Running
<1> QED
  BY <1>2, <1>4, <1>5, <1>6, <1>7 DEF IInv, ClientInv

(* One call of http_client_request_work, step by step. *)
LEMMA TickInv ==
  ASSUME IInv, Tick
  PROVE  IInv'
  BY TcpTickInv, ResolvingInv, ConnectInv, ConnectingTickInv, StartSendingRequestInv,
     SendingRequestInv, WaitingForResponseInv, ReceivingResponseInv, CallDoneInv, DisconnectDoneInv
  DEF Tick

LEMMA NextInv ==
  ASSUME IInv, [Next]_vars
  PROVE  IInv'
<1>1. CASE \E input \in Inputs : http_client_request(input)
  BY <1>1, RequestInv
<1>2. CASE Pass
  BY <1>2, LoopInv, TickInv, RemoveInv DEF Pass
<1>3. CASE \E r \in Clients : NetworkAt(r, NetworkSteps(sock[r]))
  BY <1>3, NetworkInv
<1>4. CASE UNCHANGED vars
  BY <1>4, StutterInv
<1> QED
  BY <1>1, <1>2, <1>3, <1>4 DEF Next

LEMMA SpecInv == Spec => []IInv
<1>1. IInv /\ [Next]_vars => IInv'
  BY NextInv
<1> QED
  BY InvInit, <1>1, PTL DEF Spec

(* The inductive invariant: whatever the network does and whenever the      *)
(* application asks, every request's context, TCP client and socket fit     *)
(* together, and the worker's done flags are the disconnecting clients.     *)
THEOREM Invariance == Spec => []ClientInv
<1>1. IInv => ClientInv
  BY DEF IInv
<1> QED
  BY SpecInv, <1>1, PTL

(* The types of the client's variables; in particular received never        *)
(* exceeds the response, so no read goes behind what the peer sent.         *)
THEOREM ClientTypeOK == Spec => []TypeOK
<1>1. ClientInv => TypeOK
  BY DEF ClientInv
<1> QED
  BY Invariance, <1>1, PTL

(* The four assertions of tcp_client.c 5 and 57 and http_client.c 13 and    *)
(* 200 never fail, whatever the network does.                               *)
THEOREM AssertionsHold == Spec => []SoundAssertions
<1>1. ClientInv => SoundAssertions
  BY DEF ClientInv
<1> QED
  BY Invariance, <1>1, PTL

(* The process only dies of SIGPIPE, send, recv or a lost connection        *)
(* (tcp_socket.c 149-254) when the connection of the request being handled  *)
(* has failed.                                                              *)
THEOREM DeathsAreTheNetworks == Spec => []NetworkDeaths
<1>1. ClientInv => NetworkDeaths
  BY DEF ClientInv
<1> QED
  BY Invariance, <1>1, PTL

(* No byte of a response is lost or given to the parser twice               *)
(* (http_tcp_receive_response_work, http_client.c 53-110).                  *)
THEOREM NoByteLost == Spec => []BytesConserved
<1>1. ClientInv => BytesConserved
  BY DEF ClientInv
<1> QED
  BY Invariance, <1>1, PTL

(* done_callback (http_client.c 387) is called at most once for a request,  *)
(* and the pass that calls it removes the request.                          *)
THEOREM OneCallback == Spec => []CalledBackOnce
<1>1. ASSUME IInv
      PROVE  CalledBackOnce
  <2> SUFFICES ASSUME NEW r \in heap, ctx[r].calls > 0
               PROVE  /\ ctx[r].calls = 1
                      /\ (stage = "callback" /\ Me = r) \/ conn[r] = "Disconnecting"
                      /\ pc # "idle"
    BY DEF CalledBackOnce
  <2>1. CallsFit(ctx[r], conn[r], StageOf(r))
    BY <1>1 DEF IInv, ClientInv, RequestsFit, RequestFits
  <2>2. stage \in {"tcp", "switch", "callback"}
    BY <1>1 DEF IInv, ClientInv, TypeOK
  <2>3. ctx[r].calls = 1
    BY <2>1 DEF CallsFit
  <2>4. (stage = "callback" /\ Me = r) \/ conn[r] = "Disconnecting"
    BY <2>1, <2>2, <2>3 DEF CallsFit, StageOf
  <2>5. stage # "tcp" => pc = "work"
    BY <1>1 DEF IInv, ClientInv, StageFits
  <2>6. pc = "idle" => W!Finished = {}
    BY <1>1, PoolIdle DEF IInv
  <2>7. conn[r] = "Disconnecting" => r \in W!Finished \/ stage # "tcp"
    BY <1>1 DEF IInv, ClientInv, FlagsFit
  <2> QED
    BY <2>3, <2>4, <2>5, <2>6, <2>7
<1> QED
  BY SpecInv, <1>1, PTL

(* Who was called back and told to disconnect had its whole text sent and   *)
(* some of the response read, and its own worker is empty.                  *)
THEOREM AnsweredWhenCalledBack == Spec => []AnswerBehindCallback
<1>1. ASSUME IInv
      PROVE  AnswerBehindCallback
  <2> SUFFICES ASSUME NEW r \in heap, ctx[r].calls > 0, conn[r] = "Disconnecting"
               PROVE  /\ ctx[r].sent = ctx[r].to_send /\ ctx[r].to_send > 0
                      /\ ctx[r].received > 0
                      /\ ctx[r].inner = "none"
    BY DEF AnswerBehindCallback
  <2>1. CallsFit(ctx[r], conn[r], StageOf(r)) /\ TaskFits(ctx[r], conn[r])
    BY <1>1 DEF IInv, ClientInv, RequestsFit, RequestFits
  <2>2. ctx[r].state = "Done"
    BY <2>1 DEF CallsFit
  <2> QED
    BY <2>1, <2>2 DEF TaskFits, SentBy, InnerTask
<1> QED
  BY SpecInv, <1>1, PTL

(* A request's own worker holds the task its state calls for, and never     *)
(* more than one (http_client.c 281, 296, 318, 348).                        *)
THEOREM TaskOfState == Spec => []InnerTaskMatchesState
<1>1. ASSUME ClientInv
      PROVE  InnerTaskMatchesState
  <2> SUFFICES ASSUME NEW r \in Clients
               PROVE  /\ ctx[r].inner = "send" <=> ctx[r].state = "Sending_Request"
                      /\ ctx[r].inner = "receive" <=> ctx[r].state = "Receiving_Response"
    BY DEF InnerTaskMatchesState
  <2>1. CASE r \in heap
    BY <1>1, <2>1 DEF ClientInv, RequestsFit, RequestFits, TaskFits, InnerTask
  <2>2. CASE r \notin heap
    BY <1>1, <2>2 DEF ClientInv, FreeContextsZeroed, NoContext, NewContext
  <2> QED
    BY <2>1, <2>2
<1> QED
  BY Invariance, <1>1, PTL

(* Only the sweep takes a request from the heap. *)
LEMMA OnlyRemoveFrees ==
  ASSUME IInv, [Next]_vars, ~ Remove
  PROVE  heap \subseteq heap'
<1>1. P!WorkerInv
  BY DEF IInv
<1>2. CASE UNCHANGED poolVars
  BY <1>2 DEF poolVars
<1>3. CASE \E input \in Inputs : http_client_request(input)
  BY <1>1, <1>2, <1>3, PoolAdd DEF http_client_request
<1>4. CASE BeginPass \/ EndOfPass \/ Keep \/ EndPass
  BY <1>1, <1>4, PoolLoop DEF BeginPass, EndOfPass, Keep, EndPass
<1>5. CASE Return
  <2> DEFINE done == conn'[Me] = "Disconnecting"
  <2>1. UNCHANGED poolVars \/ (W!RunTask(done) /\ done \in BOOLEAN)
    BY <1>5 DEF Return, TickResult
  <2> HIDE DEF done
  <2> QED
    BY <1>1, <1>2, <2>1, PoolRun
<1>6. CASE Tick
  <2>1. UNCHANGED poolVars \/ Return
    BY <1>6 DEF Tick, TcpTick, Resolving, Connect, ConnectingTick, StartSendingRequest,
      SendingRequest, WaitingForResponse, ReceivingResponse, CallDone, DisconnectDone
  <2> QED
    BY <1>2, <1>5, <2>1
<1>7. CASE \E r \in Clients : NetworkAt(r, NetworkSteps(sock[r]))
  BY <1>2, <1>7 DEF NetworkAt
<1>8. CASE UNCHANGED vars
  BY <1>2, <1>8 DEF vars
<1> QED
  BY <1>3, <1>4, <1>6, <1>7, <1>8 DEF Next, Pass

(* A request that is freed (worker.c 73-75) was called back, or its         *)
(* connection has failed.                                                   *)
THEOREM NoneLostSilently == Spec => NoSilentLoss
<1> DEFINE Accounted == \A r \in heap \ heap' : ctx[r].calls = 1 \/ IsDead(sock[r])
<1>1. ASSUME IInv, [Next]_vars
      PROVE  Accounted
  <2>1. CASE Remove
    <3>1. Me \in W!Finished /\ Me \in heap /\ heap' = heap \ {Me}
      BY <1>1, <2>1, PoolRemove DEF Remove, IInv
    <3>2. conn[Me] = "Disconnecting"
      BY <1>1, <3>1 DEF IInv, ClientInv, FlagsFit
    <3>3. ClientFits(ctx[Me], conn[Me], sock[Me], StageOf(Me))
      BY <1>1, <3>1 DEF IInv, ClientInv, RequestsFit, RequestFits
    <3> QED
      BY <3>1, <3>2, <3>3 DEF ClientFits
  <2>2. CASE ~ Remove
    BY <1>1, <2>2, OnlyRemoveFrees
  <2> QED
    BY <2>1, <2>2
<1> HIDE DEF Accounted
<1>2. Spec => [][Accounted]_vars
  BY SpecInv, <1>1, PTL DEF Spec
<1> QED
  BY <1>2 DEF NoSilentLoss, Accounted
=============================================================================
