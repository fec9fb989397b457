------------------------- MODULE HttpClientPromises -------------------------
(***************************************************************************)
(* What the HTTP client promises the application, for every value of the   *)
(* constants: its worker is a task pool also when the callbacks are those  *)
(* of the requests; the requests are served as RequestService says; and    *)
(* what a quiet network and a patient application get on top.              *)
(***************************************************************************)
EXTENDS HttpClientProofs, FiniteSetTheorems

(* Every step of the client is a step of its worker, or none. *)
LEMMA PoolStep ==
  ASSUME [Next]_vars
  PROVE  [P!WorkerNext]_(P!workerVars)
<1>1. CASE UNCHANGED poolVars
  BY <1>1 DEF poolVars, P!workerVars
<1>2. CASE \E input \in Inputs : http_client_request(input)
  <2>1. UNCHANGED poolVars \/ \E r \in Clients : W!worker_add_task(r)
    BY <1>2 DEF http_client_request
  <2> QED
    BY <1>1, <2>1, SameAdd DEF P!WorkerNext
<1>3. CASE BeginPass \/ EndOfPass \/ Keep \/ EndPass
  BY <1>3, SameLoop DEF BeginPass, EndOfPass, Keep, EndPass, P!WorkerNext
<1>4. CASE Remove
  BY <1>4, SameRemove DEF Remove, P!WorkerNext
<1>5. CASE Return
  <2> DEFINE done == conn'[Me] = "Disconnecting"
  <2>1. UNCHANGED poolVars \/ (W!RunTask(done) /\ done \in BOOLEAN)
    BY <1>5 DEF Return, TickResult
  <2> HIDE DEF done
  <2> QED
    BY <1>1, <2>1, SameRun DEF P!WorkerNext
<1>6. CASE Tick
  <2>1. UNCHANGED poolVars \/ Return
    BY <1>6 DEF Tick, TcpTick, Resolving, Connect, ConnectingTick, StartSendingRequest,
      SendingRequest, WaitingForResponse, ReceivingResponse, CallDone, DisconnectDone
  <2> QED
    BY <1>1, <1>5, <2>1
<1>7. CASE \E r \in Clients : NetworkAt(r, NetworkSteps(sock[r]))
  BY <1>1, <1>7 DEF NetworkAt
<1>8. CASE UNCHANGED vars
  BY <1>1, <1>8 DEF vars
<1> QED
  BY <1>2, <1>3, <1>4, <1>6, <1>7, <1>8 DEF Next, Pass

(* The client's worker implements the task pool (worker.c 7-73), whatever   *)
(* http_client_request_work does in a call and whenever the process ends:   *)
(* every request is called once in each pass, one asked for in a callback   *)
(* included, and exactly the disconnecting ones leave.                      *)
THEOREM ClientWorkerIsPool == Spec => P!RefinesTaskPool
<1>1. Init => P!Pool!Init
  BY SameInit, P!InitRefines, SameAssumption DEF Init
<1>2. IInv /\ IInv' /\ [Next]_vars => [P!Pool!Next]_(P!Pool!poolVars)
  BY PoolStep, P!StepRefines, SameAssumption DEF IInv
<1> QED
  BY <1>1, <1>2, SpecInv, PTL DEF Spec, P!RefinesTaskPool, P!Pool!Spec

-----------------------------------------------------------------------------
(* The client serves requests as RequestService says.  A call of            *)
(* http_client_request_work calls nobody back but in CallDone, and touches  *)
(* no connection but its own, which it cannot bring back to life.           *)
CallsKept == \A r \in Clients : ctx'[r].calls = ctx[r].calls

SocketsKept(m) ==
  /\ \A r \in Clients \ {m} : sock'[r] = sock[r]
  /\ IsDead(sock[m]) => IsDead(sock'[m])
  /\ PeerFaults = {} => (IsDead(sock'[m]) => IsDead(sock[m]))

LEMMA TcpTickKeeps ==
  ASSUME IInv, TcpTick
  PROVE  CallsKept /\ SocketsKept(Me)
<1>1. /\ Running /\ pc = "work" /\ i < task_count /\ ctx' = ctx /\ tcp_client_work(Me)
  BY DEF TcpTick, InTick, clientVars
<1>2. /\ RecordsOK /\ Me \in Clients /\ conn[Me] \in ConnectionStates
      /\ Sane(sock[Me]) /\ sock[Me].queued <= sock[Me].answered
  BY <1>1, Mine
<1>3. CASE UNCHANGED sock
  BY <1>1, <1>3 DEF CallsKept, SocketsKept
<1>4. CASE \E o \in tcp_socket_connected(sock[Me]) : sock' = [sock EXCEPT ![Me] = o.socket]
  <2>1. PICK o \in tcp_socket_connected(sock[Me]) : sock' = [sock EXCEPT ![Me] = o.socket]
    BY <1>4
  <2>2. Follows(sock[Me], o.socket, 0)
    BY <1>2, ConnectedOutcomes
  <2> QED
    BY <1>1, <1>2, <2>1, <2>2 DEF CallsKept, SocketsKept, Follows, RecordsOK
<1> QED
  BY <1>1, <1>2, <1>3, <1>4 DEF tcp_client_work, tcpVars, ConnectionStates

LEMMA EarlyKeeps ==
  ASSUME IInv, Resolving \/ Connect \/ ConnectingTick
  PROVE  CallsKept /\ SocketsKept(Me)
<1>1. PICK x \in {"Resolving", "Connect", "Connecting"} : At(x) /\ Return
  BY DEF Resolving, Connect, ConnectingTick
<1>2. /\ RecordsOK /\ Me \in Clients /\ ctx[Me].state = x
      /\ RequestFits(ctx[Me], conn[Me], sock[Me], "switch")
  BY <1>1, AtState
<1>3. CASE Resolving
  <2>1. PICK n, y : ctx' = [ctx EXCEPT ![Me].found = n, ![Me].state = y]
    BY <1>3 DEF Resolving
  <2>2. CallsKept
    BY <1>2, <2>1 DEF CallsKept, RecordsOK, Context
  <2> QED
    BY <1>3, <2>2 DEF Resolving, SocketsKept
<1>4. CASE Connect
  <2>1. PICK ok \in BOOLEAN :
          /\ IF OpenFiles < MAX_OPEN_FILES THEN ok \/ "no_route" \in PeerFaults ELSE ~ ok
          /\ IF ok THEN /\ conn' = [conn EXCEPT ![Me] = "Connecting"]
                        /\ sock' = [sock EXCEPT ![Me] = Connecting]
                   ELSE UNCHANGED <<conn, sock>>
          /\ fate' = fate
          /\ Goto(IF ok THEN "Connecting" ELSE "Done")
    BY <1>4, ConnectChoice
  <2>2. CallsKept
    BY <1>2, <2>1 DEF CallsKept, RecordsOK, Context, Goto
  <2>3. ~ IsDead(sock[Me])
    <3>1. ctx[Me].state = "Connect"
      BY <1>4 DEF Connect, At
    <3> QED
      BY <1>2, <3>1 DEF RequestFits, ClientFits, IsDead
  <2>4. \A r \in Clients \ {Me} : sock'[r] = sock[r]
    BY <1>2, <2>1 DEF RecordsOK
  <2>5. ~ IsDead(sock'[Me])
    <3>1. ~ IsDead(Connecting)
      BY ConnectingSocket DEF IsDead
    <3> QED
      BY <1>2, <2>1, <2>3, <3>1 DEF RecordsOK
  <2> QED
    BY <2>2, <2>3, <2>4, <2>5 DEF SocketsKept
<1>5. CASE ConnectingTick
  <2>1. ctx' = ctx \/ Goto("Start_Sending_Request")
    BY <1>5 DEF ConnectingTick
  <2>2. CallsKept
    BY <1>2, <2>1 DEF CallsKept, RecordsOK, Context, Goto
  <2> QED
    BY <1>5, <2>2 DEF ConnectingTick, SocketsKept
<1> QED
  BY <1>3, <1>4, <1>5

LEMMA SendingKeeps ==
  ASSUME IInv, StartSendingRequest \/ SendingRequest
  PROVE  CallsKept /\ SocketsKept(Me)
<1>1. PICK x \in {"Start_Sending_Request", "Sending_Request"} : At(x) /\ Return
  BY DEF StartSendingRequest, SendingRequest
<1>2. /\ RecordsOK /\ Me \in Clients /\ ctx[Me] \in Context /\ ctx[Me].state = x
      /\ Sane(sock[Me]) /\ sock[Me].queued <= sock[Me].answered
      /\ RequestFits(ctx[Me], conn[Me], sock[Me], "switch")
  BY <1>1, AtState
<1>3. CASE StartSendingRequest
  <2>1. ctx' = ctx \/ ctx' = [ctx EXCEPT ![Me] = Sending(ctx[Me])]
    BY <1>2, <1>3 DEF StartSendingRequest, RecordsOK
  <2>2. Sending(ctx[Me]).calls = ctx[Me].calls
    BY <1>2 DEF Sending, Context
  <2>3. CallsKept
    BY <1>2, <2>1, <2>2 DEF CallsKept, RecordsOK
  <2> QED
    BY <1>3, <2>3 DEF StartSendingRequest, SocketsKept
<1>4. CASE SendingRequest
  <2>1. /\ ctx[Me].state = "Sending_Request"
        /\ ctx[Me].sent \in Nat /\ ctx[Me].to_send \in Nat /\ ctx[Me].sent <= ctx[Me].to_send
        /\ sock[Me].tcp # "syn_sent"
    <3>1. ctx[Me].state = "Sending_Request"
      BY <1>4 DEF SendingRequest, At
    <3>2. ctx[Me].sent <= ctx[Me].to_send /\ conn[Me] \in {"Connected", "Disconnecting"}
      BY <1>2, <3>1 DEF RequestFits, ClientFits, TaskFits, Exchanging
    <3> QED
      BY <1>2, <3>1, <3>2, ContextFields DEF RequestFits, ClientFits
  <2>2. CASE AllSent(Me)
    <3>1. ctx' = [ctx EXCEPT ![Me].inner = "none", ![Me].state = "Waiting_For_Response"]
          /\ UNCHANGED sock
      BY <1>4, <2>1, <2>2 DEF SendingRequest
    <3>2. CallsKept
      BY <1>2, <3>1 DEF CallsKept, RecordsOK, Context
    <3> QED
      BY <3>1, <3>2 DEF SocketsKept
  <2>3. CASE ~ AllSent(Me)
    <3>1. PICK n : n = ctx[Me].to_send - ctx[Me].sent
      OBVIOUS
    <3>2. n \in Nat \ {0}
      BY <2>1, <2>3, <3>1 DEF AllSent
    <3>3. PICK o \in tcp_socket_send(sock[Me], n) :
            /\ sock' = [sock EXCEPT ![Me] = o.socket]
            /\ ctx' = CountSent(Me, o.bytes) \/ ctx' = ctx
      BY <1>4, <2>1, <2>3, <3>1 DEF SendingRequest
    <3>4. Follows(sock[Me], o.socket, 0)
      BY <1>2, <2>1, <3>2, SendOutcomes
    <3>5. SocketsKept(Me)
      BY <1>2, <3>3, <3>4 DEF SocketsKept, Follows, RecordsOK
    <3>6. CallsKept
      BY <1>2, <3>3 DEF CallsKept, RecordsOK, Context, CountSent
    <3> QED
      BY <3>5, <3>6
  <2> QED
    BY <2>2, <2>3
<1> QED
  BY <1>3, <1>4

LEMMA ReceivingKeeps ==
  ASSUME IInv, WaitingForResponse \/ ReceivingResponse
  PROVE  CallsKept /\ SocketsKept(Me)
<1>1. PICK x \in {"Waiting_For_Response", "Receiving_Response"} : At(x) /\ Return
  BY DEF WaitingForResponse, ReceivingResponse
<1>2. /\ RecordsOK /\ Me \in Clients /\ ctx[Me] \in Context /\ ctx[Me].state = x
      /\ Sane(sock[Me]) /\ sock[Me].queued <= sock[Me].answered
      /\ RequestFits(ctx[Me], conn[Me], sock[Me], "switch")
  BY <1>1, AtState
<1>3. CASE WaitingForResponse
  <2>1. CallsKept
    BY <1>2, <1>3 DEF WaitingForResponse, CallsKept, RecordsOK, Context
  <2> QED
    BY <1>3, <2>1 DEF WaitingForResponse, SocketsKept, tcpVars
<1>4. CASE ReceivingResponse
  <2>1. sock[Me].tcp # "syn_sent"
    <3>1. ctx[Me].state = "Receiving_Response"
      BY <1>4 DEF ReceivingResponse, At
    <3> QED
      BY <1>2, <3>1 DEF RequestFits, ClientFits, Exchanging
  <2>2. PICK o \in tcp_socket_receive(sock[Me]) :
          /\ sock' = [sock EXCEPT ![Me] = o.socket]
          /\ \/ ctx' = ctx \/ ctx' = CountRead(Me, o.bytes)
             \/ ctx' = [CountRead(Me, o.bytes) EXCEPT ![Me].inner = "none", ![Me].state = "Done"]
    BY <1>4 DEF ReceivingResponse, ParseRead, ReadNothing
  <2>3. Follows(sock[Me], o.socket, o.bytes)
    BY <1>2, <2>1, ReceiveOutcomes
  <2>4. SocketsKept(Me)
    BY <1>2, <2>2, <2>3 DEF SocketsKept, Follows, RecordsOK
  <2>5. CallsKept
    BY <1>2, <2>2 DEF CallsKept, RecordsOK, Context, CountRead
  <2> QED
    BY <2>4, <2>5
<1> QED
  BY <1>3, <1>4

(* A step that neither takes nor frees nor calls back a request may only    *)
(* fail one connection (that of m) and end the process.                     *)
LEMMA OnlyTrouble ==
  ASSUME IInv', Running, NEW m \in Clients, heap' = heap, CallsKept, SocketsKept(m)
  PROVE  [Service!Next]_(Service!serviceVars)
<1> DEFINE Answered == {r \in heap : ctx[r].calls > 0}
           Failed == {r \in heap : IsDead(sock[r])}
           Ended == IF Running THEN "nothing"
                    ELSE IF fate \in {"SIGPIPE", "send_failed", "recv_failed", "Not_Connected"}
                    THEN "network" ELSE "program"
<1>1. /\ heap \subseteq Clients /\ NetworkDeaths'
  BY PoolTypeNext DEF IInv, ClientInv, W!WorkerTypeOK
<1>2. Answered' = Answered
  BY <1>1 DEF CallsKept
<1>3. Ended = "nothing" /\ Ended' \in Service!Causes
  BY DEF Service!Causes
<1>4. Ended' = "network" => Failed' # {}
  BY <1>1 DEF NetworkDeaths
<1>5. CASE m \in heap /\ IsDead(sock'[m]) /\ ~ IsDead(sock[m])
  <2>1. m \in heap \ Failed /\ Failed' = Failed \cup {m}
    BY <1>1, <1>5 DEF SocketsKept
  <2>2. Service!Fail(m, Ended')
    BY <1>2, <1>3, <2>1 DEF Service!Fail
  <2> QED
    BY <1>3, <2>2 DEF Service!Next
<1>6. CASE ~ (m \in heap /\ IsDead(sock'[m]) /\ ~ IsDead(sock[m]))
  <2>1. Failed' = Failed
    BY <1>1, <1>6 DEF SocketsKept
  <2>2. Service!End(Ended')
    BY <1>2, <1>3, <1>4, <2>1 DEF Service!End
  <2> QED
    BY <1>3, <2>2 DEF Service!Next
<1> QED
  BY <1>5, <1>6

LEMMA AskServes ==
  ASSUME IInv, IInv', NEW input \in Inputs, http_client_request(input)
  PROVE  [Service!Next]_(Service!serviceVars)
<1>1. Running /\ UNCHANGED tcpVars /\ heap \subseteq Clients /\ ctx \in [Clients -> Context]
  BY PoolType DEF http_client_request, IInv, ClientInv, TypeOK, W!WorkerTypeOK
<1>2. CASE UNCHANGED <<poolVars, ctx>>
  BY <1>1, <1>2 DEF poolVars, tcpVars, Service!serviceVars, Running
<1>3. CASE \E r \in Clients : /\ W!worker_add_task(r)
                              /\ ctx' = [ctx EXCEPT ![r] = NewContext(input)]
  <2>1. PICK r \in Clients : W!worker_add_task(r) /\ ctx' = [ctx EXCEPT ![r] = NewContext(input)]
    BY <1>3
  <2>2. r \notin heap /\ heap' = heap \cup {r}
    BY <2>1, PoolAdd DEF IInv
  <2>3. ctx'[r] = NewContext(input) /\ \A c \in Clients \ {r} : ctx'[c] = ctx[c]
    BY <1>1, <2>1
  <2>4. ~ (NewContext(input).calls > 0)
    BY DEF NewContext
  <2>5. ~ IsDead(sock[r])
    BY <2>2 DEF IInv, ClientInv, FreeContextsZeroed, NoSocket, IsDead
  <2>6. {c \in heap : ctx[c].calls > 0}' = {c \in heap : ctx[c].calls > 0}
    BY <1>1, <2>2, <2>3, <2>4
  <2>7. {c \in heap : IsDead(sock[c])}' = {c \in heap : IsDead(sock[c])}
    BY <1>1, <2>2, <2>5 DEF tcpVars
  <2>8. Service!Ask(r)
    BY <1>1, <2>2, <2>6, <2>7 DEF Service!Ask, tcpVars, Running
  <2> QED
    BY <2>8 DEF Service!Next
<1> QED
  BY <1>2, <1>3 DEF http_client_request

LEMMA CallServes ==
  ASSUME IInv, IInv', CallDone
  PROVE  [Service!Next]_(Service!serviceVars)
<1>1. Running /\ pc = "work" /\ i < task_count /\ At("Done") /\ stage = "switch"
  BY DEF CallDone, At, InTick
<1>2. /\ Me \in heap /\ Me \in Clients /\ RecordsOK /\ ctx[Me] \in Context
      /\ RequestFits(ctx[Me], conn[Me], sock[Me], "switch")
  BY <1>1, Mine
<1>3. ctx[Me].calls = 0
  BY <1>2 DEF RequestFits, CallsFit
<1>4. UNCHANGED <<heap, conn, sock, fate>> /\ heap \subseteq Clients
  BY PoolType DEF CallDone, poolVars, tcpVars, IInv, W!WorkerTypeOK
<1>5. /\ ctx'[Me].calls = 1
      /\ \A r \in Clients \ {Me} : ctx'[r].calls = ctx[r].calls
  BY <1>2, <1>3 DEF CallDone, RecordsOK, Context
<1>6. {c \in heap : ctx[c].calls > 0}' = {c \in heap : ctx[c].calls > 0} \cup {Me}
  BY <1>2, <1>4, <1>5
<1>7. Me \in heap \ {c \in heap : ctx[c].calls > 0}
  BY <1>2, <1>3
<1>8. PICK m \in Clients : m = Me
  BY <1>2
<1>9. Service!Answer(m)
  BY <1>1, <1>4, <1>6, <1>7, <1>8 DEF Service!Answer, Running
<1> QED
  BY <1>9 DEF Service!Next

LEMMA RemoveServes ==
  ASSUME IInv, IInv', Remove
  PROVE  [Service!Next]_(Service!serviceVars)
<1>1. /\ Me \in W!Finished /\ Me \in heap /\ heap' = heap \ {Me} /\ heap \subseteq Clients
  BY PoolRemove, PoolType DEF Remove, IInv, W!WorkerTypeOK
<1>2. Running /\ fate' = fate /\ \A r \in Clients \ {Me} : ctx'[r] = ctx[r] /\ sock'[r] = sock[r]
  BY <1>1 DEF Remove, FreeContext, IInv, ClientInv, TypeOK
<1>3. conn[Me] = "Disconnecting" /\ RequestFits(ctx[Me], conn[Me], sock[Me], StageOf(Me))
  BY <1>1 DEF IInv, ClientInv, FlagsFit, RequestsFit
<1>4. ctx[Me].calls = 1 \/ IsDead(sock[Me])
  BY <1>3 DEF RequestFits, ClientFits
<1>5. Me \in {c \in heap : ctx[c].calls > 0} \cup {c \in heap : IsDead(sock[c])}
  BY <1>1, <1>4
<1>6. /\ {c \in heap : ctx[c].calls > 0}' = {c \in heap : ctx[c].calls > 0} \ {Me}
      /\ {c \in heap : IsDead(sock[c])}' = {c \in heap : IsDead(sock[c])} \ {Me}
  BY <1>1, <1>2
<1>7. PICK m \in Clients : m = Me
  BY <1>1
<1>8. Service!Leave(m)
  BY <1>1, <1>2, <1>5, <1>6, <1>7 DEF Service!Leave, Running
<1> QED
  BY <1>8 DEF Service!Next

(* What all steps of a call have in common. *)
LEMMA TickFrame ==
  ASSUME IInv, Tick
  PROVE  Running /\ pc = "work" /\ i < task_count /\ heap' = heap /\ Me \in Clients /\ RecordsOK
<1>1. Running /\ pc = "work" /\ i < task_count
  BY DEF Tick, TcpTick, Resolving, Connect, ConnectingTick, StartSendingRequest, SendingRequest,
         WaitingForResponse, ReceivingResponse, CallDone, DisconnectDone, At, InTick
<1>2. Me \in Clients /\ RecordsOK /\ P!WorkerInv
  BY <1>1, Mine DEF IInv
<1>3. UNCHANGED poolVars \/ Return
  BY DEF Tick, TcpTick, Resolving, Connect, ConnectingTick, StartSendingRequest,
    SendingRequest, WaitingForResponse, ReceivingResponse, CallDone, DisconnectDone
<1> DEFINE done == conn'[Me] = "Disconnecting"
<1>4. UNCHANGED poolVars \/ (W!RunTask(done) /\ done \in BOOLEAN)
  BY <1>3 DEF Return, TickResult
<1> HIDE DEF done
<1> QED
  BY <1>1, <1>2, <1>4, PoolRun DEF poolVars

LEMMA TickKeeps ==
  ASSUME IInv, Tick, ~ CallDone
  PROVE  CallsKept /\ SocketsKept(Me)
<1>1. CASE DisconnectDone
  BY <1>1 DEF DisconnectDone, tcp_client_disconnect, clientVars, CallsKept, SocketsKept
<1> QED
  BY <1>1, TcpTickKeeps, EarlyKeeps, SendingKeeps, ReceivingKeeps DEF Tick

LEMMA TickServes ==
  ASSUME IInv, IInv', Tick, ~ CallDone
  PROVE  [Service!Next]_(Service!serviceVars)
  BY TickFrame, TickKeeps, OnlyTrouble

LEMMA NetworkKeeps ==
  ASSUME IInv, NEW r \in Clients, NetworkAt(r, NetworkSteps(sock[r]))
  PROVE  CallsKept /\ SocketsKept(r)
<1>1. /\ r \in heap /\ Running /\ ctx' = ctx
      /\ \E t \in NetworkSteps(sock[r]) : sock' = [sock EXCEPT ![r] = t]
  BY DEF NetworkAt, Network, clientVars
<1>2. PICK t \in NetworkSteps(sock[r]) : sock' = [sock EXCEPT ![r] = t]
  BY <1>1
<1>3. sock \in [Clients -> Socket] /\ Sane(sock[r]) /\ sock[r].queued <= sock[r].answered
  <2>1. /\ sock \in [Clients -> Socket] /\ ctx[r] \in Context
        /\ RequestFits(ctx[r], conn[r], sock[r], StageOf(r))
        /\ ctx[r].received + sock[r].queued = sock[r].answered
    BY <1>1 DEF IInv, ClientInv, TypeOK, RequestsFit, BytesConserved
  <2>2. sock[r].queued \in Int /\ sock[r].answered \in Int /\ ctx[r].received \in 0 .. RESPONSE_LENGTH
    BY <2>1, SocketFields, ContextFields
  <2> QED
    BY <2>1, <2>2, TcpSocketAssumption DEF RequestFits, ClientFits, Sane
<1>4. Follows(sock[r], t, 0)
  BY <1>3, NetworkFollows
<1> QED
  BY <1>1, <1>2, <1>3, <1>4 DEF CallsKept, SocketsKept, Follows

LEMMA NetworkServes ==
  ASSUME IInv, IInv', NEW r \in Clients, NetworkAt(r, NetworkSteps(sock[r]))
  PROVE  [Service!Next]_(Service!serviceVars)
<1>1. Running /\ heap' = heap
  BY DEF NetworkAt, Network, poolVars
<1> QED
  BY <1>1, NetworkKeeps, OnlyTrouble

LEMMA StepServes ==
  ASSUME IInv, IInv', [Next]_vars
  PROVE  [Service!Next]_(Service!serviceVars)
<1>1. CASE \E input \in Inputs : http_client_request(input)
  BY <1>1, AskServes
<1>2. CASE Tick
  BY <1>2, CallServes, TickServes
<1>3. CASE Remove
  BY <1>3, RemoveServes
<1>4. CASE BeginPass \/ EndOfPass \/ Keep \/ EndPass
  <2>1. heap' = heap
    BY <1>4, PoolLoop DEF BeginPass, EndOfPass, Keep, EndPass, IInv
  <2>2. UNCHANGED <<sock, fate, ctx>>
    BY <1>4 DEF BeginPass, EndOfPass, Keep, EndPass, tcpVars, clientVars
  <2> QED
    BY <2>1, <2>2 DEF Service!serviceVars, Running
<1>5. CASE \E r \in Clients : NetworkAt(r, NetworkSteps(sock[r]))
  BY <1>5, NetworkServes
<1>6. CASE UNCHANGED vars
  BY <1>6 DEF vars, poolVars, tcpVars, clientVars, Service!serviceVars, Running
<1> QED
  BY <1>1, <1>2, <1>3, <1>4, <1>5, <1>6 DEF Next, Pass

(* http_client.c implements RequestService: whatever the network does, a    *)
(* request is called back at most once and goes away only called back or    *)
(* with its connection failed, and the process dies of the network only     *)
(* when the network has failed a connection.                                *)
THEOREM RequestsServed == Spec => RefinesRequestService
<1>1. Init => Service!Init
  BY DEF Init, TcpInit, W!WorkerInit, Service!Init, Running
<1>2. IInv /\ IInv' /\ [Next]_vars => [Service!Next]_(Service!serviceVars)
  BY StepServes
<1> QED
  BY <1>1, <1>2, SpecInv, PTL DEF Spec, RefinesRequestService, Service!Spec

-----------------------------------------------------------------------------
(* When nothing fails around it, the process does not end.  No more         *)
(* sockets are open than requests were made, so there is one to connect.    *)
LEMMA RequestsInUse ==
  ASSUME P!WorkerInv
  PROVE  IsFiniteSet(heap) /\ Cardinality(heap) \in Nat /\ Cardinality(heap) <= task_count
<1> DEFINE Slots == 0 .. task_count - 1
           f == [s \in Slots |-> tasks[s].context]
<1>1. f \in Surjection(Slots, heap)
  BY DEF P!WorkerInv, P!OwnedContexts, P!Live, Surjection
<1>2. task_count \in Nat
  BY HttpClientAssumption DEF P!WorkerInv, P!WorkerTypeOK, W!WorkerAssumption
<1>3. IsFiniteSet(Slots) /\ Cardinality(Slots) = task_count
  BY <1>2, FS_Interval
<1> QED
  BY <1>1, <1>3, FS_Surjection, FS_CardinalityType

LEMMA RoomToConnect ==
  ASSUME IInv, Connect, MaxRequests <= MAX_OPEN_FILES
  PROVE  OpenFiles < MAX_OPEN_FILES
<1>1. /\ P!WorkerInv /\ Me \in heap /\ ctx[Me].state = "Connect"
      /\ RequestFits(ctx[Me], conn[Me], sock[Me], "switch")
  BY Mine DEF Connect, At, InTick, IInv
<1>2. ~ IsOpen(sock[Me])
  BY <1>1 DEF RequestFits, ClientFits, IsOpen
<1>3. IsFiniteSet(heap) /\ Cardinality(heap) \in Nat /\ Cardinality(heap) <= task_count
  BY <1>1, RequestsInUse
<1> DEFINE Open == {r \in heap : IsOpen(sock[r])}
           Others == heap \ {Me}
<1>4. IsFiniteSet(Others) /\ Cardinality(Others) = Cardinality(heap) - 1
  BY <1>1, <1>3, FS_RemoveElement
<1>5. Open \subseteq Others
  BY <1>2
<1>6. IsFiniteSet(Open) /\ Cardinality(Open) \in Nat /\ Cardinality(Open) <= Cardinality(Others)
  BY <1>4, <1>5, FS_Subset, FS_CardinalityType
<1>7. /\ leaked + task_count <= made /\ made <= MaxRequests
      /\ leaked \in Int /\ made \in Int /\ task_count \in Int
      /\ MaxRequests \in Int /\ MAX_OPEN_FILES \in Int
  BY PoolType, HttpClientAssumption
  DEF IInv, ClientInv, SocketsCounted, TypeOK, W!WorkerTypeOK, W!WorkerAssumption
<1> HIDE DEF Open, Others
<1>8. leaked + Cardinality(Open) < MAX_OPEN_FILES
  BY <1>3, <1>4, <1>6, <1>7
<1> QED
  BY <1>8 DEF OpenFiles, Open

LEMMA OpenFilesCounted ==
  ASSUME P!WorkerInv, leaked \in Nat
  PROVE  OpenFiles \in Nat
<1>1. IsFiniteSet(heap)
  BY RequestsInUse
<1>2. Cardinality({r \in heap : IsOpen(sock[r])}) \in Nat
  BY <1>1, FS_Subset, FS_CardinalityType
<1> QED
  BY <1>2 DEF OpenFiles

(* What a step within a handler has to show. *)
LEMMA QuietHandler ==
  ASSUME Quiet, QuietInv, heap' = heap, heap \subseteq Clients, Me \in Clients, SocketsKept(Me),
         \A r \in Clients \ {Me} : ctx'[r].state = ctx[r].state /\ conn'[r] = conn[r],
         ctx'[Me].state = "Done" => conn'[Me] # "Disconnected",
         fate' = fate, stage' # "callback"
  PROVE  QuietInv'
<1>1. Running'
  BY DEF QuietInv, Running
<1>2. \A r \in heap : ~ IsDead(sock'[r])
  BY DEF QuietInv, SocketsKept, Quiet
<1>3. \A r \in heap : ctx'[r].state = "Done" => conn'[r] # "Disconnected"
  BY DEF QuietInv
<1> QED
  BY <1>1, <1>2, <1>3 DEF QuietInv

LEMMA QuietTcpTick ==
  ASSUME Quiet, IInv, QuietInv, TcpTick
  PROVE  QuietInv'
<1>1. /\ Running /\ pc = "work" /\ i < task_count /\ stage = "tcp" /\ stage' = "switch"
      /\ ctx' = ctx /\ tcp_client_work(Me)
  BY DEF TcpTick, InTick, clientVars
<1>2. /\ RecordsOK /\ Me \in Clients /\ Me \in heap /\ conn[Me] \in ConnectionStates
      /\ conn[Me] # "Disconnecting" /\ heap' = heap /\ heap \subseteq Clients
  BY <1>1, Mine, TickFrame, PoolType DEF Tick, IInv, W!WorkerTypeOK
<1>3. fate' = fate
  BY <1>1, <1>2 DEF tcp_client_work, tcpVars, ConnectionStates
<1>4. /\ \A r \in Clients \ {Me} : conn'[r] = conn[r]
      /\ conn[Me] # "Disconnected" => conn'[Me] # "Disconnected"
  BY <1>1, <1>2 DEF tcp_client_work, tcpVars, ConnectionStates, AfterWork, RecordsOK
<1>5. ctx[Me].state = "Done" => conn'[Me] # "Disconnected"
  BY <1>2, <1>4 DEF QuietInv
<1> QED
  BY <1>1, <1>2, <1>3, <1>4, <1>5, TcpTickKeeps, QuietHandler

LEMMA QuietEarly ==
  ASSUME Quiet, IInv, QuietInv, Resolving \/ Connect \/ ConnectingTick
  PROVE  QuietInv'
<1>1. PICK x \in {"Resolving", "Connect", "Connecting"} : At(x) /\ Return
  BY DEF Resolving, Connect, ConnectingTick
<1>2. /\ RecordsOK /\ Me \in Clients /\ ctx[Me].state = x /\ ctx[Me] \in Context
      /\ RequestFits(ctx[Me], conn[Me], sock[Me], "switch") /\ stage' # "callback"
  BY <1>1, AtState
<1>3. heap' = heap /\ heap \subseteq Clients /\ SocketsKept(Me)
  BY TickFrame, EarlyKeeps, PoolType DEF Tick, IInv, W!WorkerTypeOK
<1>4. CASE Resolving
  <2>1. PICK addresses \in AddressLists :
          LET o == dns_resolve_hostname(addresses, MAX_IP_ADDRESS_CANDIDATES)
          IN  /\ ctx' = [ctx EXCEPT ![Me].found = o.count,
                                    ![Me].state = IF o.result = "OK" THEN "Connect" ELSE "Done"]
              /\ IF o.count > MAX_IP_ADDRESS_CANDIDATES THEN Abort("overrun") ELSE UNCHANGED fate
    BY <1>4 DEF Resolving
  <2>2. /\ addresses \in Nat /\ MAX_IP_ADDRESS_CANDIDATES \in Nat /\ addresses # 0
        /\ addresses <= MAX_IP_ADDRESS_CANDIDATES
    BY HttpClientAssumption DEF Quiet
  <2>3. dns_resolve_hostname(addresses, MAX_IP_ADDRESS_CANDIDATES).count = addresses
    BY <2>2, AddressesWritten
  <2>4. dns_resolve_hostname(addresses, MAX_IP_ADDRESS_CANDIDATES).result = "OK"
    BY <2>2 DEF dns_resolve_hostname
  <2>5. fate' = fate
    BY <2>1, <2>2, <2>3
  <2>6. PICK n : n = dns_resolve_hostname(addresses, MAX_IP_ADDRESS_CANDIDATES).count
    OBVIOUS
  <2>7. ctx' = [ctx EXCEPT ![Me].found = n, ![Me].state = "Connect"]
    BY <2>1, <2>4, <2>6
  <2>8. ctx'[Me].state = "Connect" /\ \A r \in Clients \ {Me} : ctx'[r].state = ctx[r].state
    BY <1>2, <2>7 DEF RecordsOK, Context
  <2>9. conn' = conn
    BY <1>4 DEF Resolving
  <2> QED
    BY <1>2, <1>3, <2>5, <2>8, <2>9, QuietHandler
<1>5. CASE Connect
  <2>1. PICK ok \in BOOLEAN :
          /\ IF OpenFiles < MAX_OPEN_FILES THEN ok \/ "no_route" \in PeerFaults ELSE ~ ok
          /\ IF ok THEN /\ conn' = [conn EXCEPT ![Me] = "Connecting"]
                        /\ sock' = [sock EXCEPT ![Me] = Connecting]
                   ELSE UNCHANGED <<conn, sock>>
          /\ fate' = fate
          /\ Goto(IF ok THEN "Connecting" ELSE "Done")
    BY <1>5, ConnectChoice
  <2>2. OpenFiles < MAX_OPEN_FILES
    BY <1>5, RoomToConnect DEF Quiet
  <2>3. ok
    BY <2>1, <2>2 DEF Quiet
  <2>4. ctx'[Me].state = "Connecting" /\ \A r \in Clients \ {Me} : ctx'[r].state = ctx[r].state
    BY <1>2, <2>1, <2>3 DEF Goto, RecordsOK, Context
  <2>5. fate' = fate /\ \A r \in Clients \ {Me} : conn'[r] = conn[r]
    BY <1>2, <2>1, <2>3 DEF RecordsOK
  <2> QED
    BY <1>2, <1>3, <2>4, <2>5, QuietHandler
<1>6. CASE ConnectingTick
  <2>1. ctx[Me].state = "Connecting"
    BY <1>6 DEF ConnectingTick, At
  <2>2. conn[Me] \in {"Connecting", "Connected"}
    BY <1>2, <2>1 DEF RequestFits, ClientFits
  <2>3. UNCHANGED <<conn, fate>> /\ (ctx' = ctx \/ Goto("Start_Sending_Request"))
    BY <1>6, <2>2 DEF ConnectingTick
  <2>4. ctx'[Me].state # "Done" /\ \A r \in Clients \ {Me} : ctx'[r].state = ctx[r].state
    BY <1>2, <2>1, <2>3 DEF Goto, RecordsOK, Context
  <2> QED
    BY <1>2, <1>3, <2>3, <2>4, QuietHandler
<1> QED
  BY <1>4, <1>5, <1>6

LEMMA QuietSending ==
  ASSUME Quiet, IInv, QuietInv, StartSendingRequest \/ SendingRequest \/ WaitingForResponse
  PROVE  QuietInv'
<1>1. PICK x \in {"Start_Sending_Request", "Sending_Request", "Waiting_For_Response"} :
        At(x) /\ Return
  BY DEF StartSendingRequest, SendingRequest, WaitingForResponse
<1>2. /\ RecordsOK /\ Me \in Clients /\ Me \in heap /\ ctx[Me].state = x /\ ctx[Me] \in Context
      /\ Sane(sock[Me]) /\ sock[Me].queued <= sock[Me].answered
      /\ RequestFits(ctx[Me], conn[Me], sock[Me], "switch") /\ stage' # "callback"
  BY <1>1, AtState, Mine
<1>3. heap' = heap /\ heap \subseteq Clients /\ SocketsKept(Me)
  BY TickFrame, SendingKeeps, ReceivingKeeps, PoolType DEF Tick, IInv, W!WorkerTypeOK
<1>4. conn' = conn
  BY DEF StartSendingRequest, SendingRequest, WaitingForResponse, tcpVars
<1>5. CASE StartSendingRequest
  <2>1. HasText(ctx[Me].input)
    BY <1>2 DEF Quiet, RequestFits
  <2>2. ctx' = [ctx EXCEPT ![Me] = Sending(ctx[Me])] /\ fate' = fate
    BY <1>2, <1>5, <2>1 DEF StartSendingRequest, RecordsOK
  <2>3. Sending(ctx[Me]).state = "Sending_Request"
    BY <1>2 DEF Sending, Context
  <2>4. ctx'[Me].state # "Done" /\ \A r \in Clients \ {Me} : ctx'[r].state = ctx[r].state
    BY <1>2, <2>2, <2>3 DEF RecordsOK
  <2> QED
    BY <1>2, <1>3, <1>4, <2>2, <2>4, QuietHandler
<1>6. CASE SendingRequest
  <2>1. /\ ctx[Me].state = "Sending_Request"
        /\ ctx[Me].sent \in Nat /\ ctx[Me].to_send \in Nat /\ ctx[Me].sent <= ctx[Me].to_send
        /\ sock[Me].tcp # "syn_sent"
    <3>1. ctx[Me].state = "Sending_Request"
      BY <1>6 DEF SendingRequest, At
    <3>2. ctx[Me].sent <= ctx[Me].to_send /\ conn[Me] \in {"Connected", "Disconnecting"}
      BY <1>2, <3>1 DEF RequestFits, ClientFits, TaskFits, Exchanging
    <3> QED
      BY <1>2, <3>1, <3>2, ContextFields DEF RequestFits, ClientFits
  <2>2. CASE AllSent(Me)
    <3>1. /\ ctx' = [ctx EXCEPT ![Me].inner = "none", ![Me].state = "Waiting_For_Response"]
          /\ fate' = fate
      BY <1>6, <2>1, <2>2 DEF SendingRequest
    <3>2. ctx'[Me].state # "Done" /\ \A r \in Clients \ {Me} : ctx'[r].state = ctx[r].state
      BY <1>2, <3>1 DEF RecordsOK, Context
    <3> QED
      BY <1>2, <1>3, <1>4, <3>1, <3>2, QuietHandler
  <2>3. CASE ~ AllSent(Me)
    <3>1. PICK n : n = ctx[Me].to_send - ctx[Me].sent
      OBVIOUS
    <3>2. n \in Nat \ {0}
      BY <2>1, <2>3, <3>1 DEF AllSent
    <3>3. PICK o \in tcp_socket_send(sock[Me], n) :
            /\ sock' = [sock EXCEPT ![Me] = o.socket]
            /\ IF o.result = "OK"
               THEN ctx' = CountSent(Me, o.bytes) /\ UNCHANGED fate
               ELSE Abort(o.result) /\ UNCHANGED ctx
      BY <1>6, <2>1, <2>3, <3>1 DEF SendingRequest
    <3>4. /\ o.result # "OK" => IsDead(o.socket)
          /\ o.socket \in Socket
      BY <1>2, <2>1, <3>2, SendOutcomes DEF Follows, Sane
    <3>5. sock'[Me] = o.socket
      BY <1>2, <3>3 DEF RecordsOK
    <3>6. ~ IsDead(o.socket)
      BY <1>2, <1>3, <3>5 DEF SocketsKept, Quiet, QuietInv
    <3>7. ctx' = CountSent(Me, o.bytes) /\ fate' = fate
      BY <3>3, <3>4, <3>6
    <3>8. ctx'[Me].state # "Done" /\ \A r \in Clients \ {Me} : ctx'[r].state = ctx[r].state
      BY <1>2, <2>1, <3>7 DEF RecordsOK, Context, CountSent
    <3> QED
      BY <1>2, <1>3, <1>4, <3>7, <3>8, QuietHandler
  <2> QED
    BY <2>2, <2>3
<1>7. CASE WaitingForResponse
  <2>1. ctx'[Me].state # "Done" /\ \A r \in Clients \ {Me} : ctx'[r].state = ctx[r].state
    BY <1>2, <1>7 DEF WaitingForResponse, RecordsOK, Context
  <2>2. fate' = fate
    BY <1>7 DEF WaitingForResponse, tcpVars
  <2> QED
    BY <1>2, <1>3, <1>4, <2>1, <2>2, QuietHandler
<1> QED
  BY <1>5, <1>6, <1>7

LEMMA QuietReceiving ==
  ASSUME Quiet, IInv, QuietInv, ReceivingResponse
  PROVE  QuietInv'
<1>1. At("Receiving_Response") /\ Return /\ conn' = conn
  BY DEF ReceivingResponse
<1>2. /\ RecordsOK /\ Me \in Clients /\ Me \in heap /\ ctx[Me].state = "Receiving_Response"
      /\ ctx[Me] \in Context /\ Sane(sock[Me]) /\ sock[Me].queued <= sock[Me].answered
      /\ RequestFits(ctx[Me], conn[Me], sock[Me], "switch") /\ stage' # "callback"
  BY <1>1, AtState, Mine
<1>3. heap' = heap /\ heap \subseteq Clients /\ SocketsKept(Me)
  BY TickFrame, ReceivingKeeps, PoolType DEF Tick, IInv, W!WorkerTypeOK
<1>4. conn[Me] # "Disconnected" /\ sock[Me].tcp # "syn_sent"
  BY <1>2 DEF RequestFits, ClientFits, Exchanging
<1>5. PICK o \in tcp_socket_receive(sock[Me]) :
        /\ sock' = [sock EXCEPT ![Me] = o.socket]
        /\ IF o.bytes > 0 THEN ParseRead(Me, o.bytes)
           ELSE IF o.result = "OK" THEN ReadNothing(Me)
           ELSE IF o.result = "Not_Ready" THEN UNCHANGED <<ctx, fate>>
           ELSE Abort(o.result) /\ UNCHANGED ctx
  BY DEF ReceivingResponse
<1>6. /\ o.result \in {"OK", "Not_Ready", "Not_Connected", "recv_failed"}
      /\ o.result \in {"Not_Connected", "recv_failed"} => IsDead(o.socket)
      /\ o.socket \in Socket
  BY <1>2, <1>4, ReceiveOutcomes DEF Follows, Sane
<1>7. ~ IsDead(o.socket)
  <2>1. sock'[Me] = o.socket
    BY <1>2, <1>5, <1>6 DEF RecordsOK
  <2> QED
    BY <1>2, <1>3, <2>1 DEF SocketsKept, Quiet, QuietInv
<1>8. /\ fate' = fate
      /\ \/ ctx' = ctx \/ ctx' = CountRead(Me, o.bytes)
         \/ ctx' = [CountRead(Me, o.bytes) EXCEPT ![Me].inner = "none", ![Me].state = "Done"]
  <2>1. CASE o.bytes > 0
    <3>1. PICK answer \in ParseAnswers(ctx[Me].received + o.bytes) :
            CASE answer = "assert" -> Abort("http_try_parse") /\ UNCHANGED ctx
              [] answer = "Needs_More_Data" -> ctx' = CountRead(Me, o.bytes) /\ UNCHANGED fate
              [] OTHER -> /\ ctx' = [CountRead(Me, o.bytes) EXCEPT ![Me].inner = "none",
                                                                   ![Me].state = "Done"]
                          /\ UNCHANGED fate
      BY <1>5, <2>1 DEF ParseRead
    <3>2. answer # "assert"
      BY <3>1 DEF ParseAnswers, Quiet
    <3> QED
      BY <3>1, <3>2
  <2>2. CASE ~ (o.bytes > 0)
    BY <1>5, <1>6, <1>7, <2>2 DEF ReadNothing
  <2> QED
    BY <2>1, <2>2
<1>9. \A r \in Clients \ {Me} : ctx'[r].state = ctx[r].state
  BY <1>2, <1>8 DEF RecordsOK, Context, CountRead
<1> QED
  BY <1>1, <1>2, <1>3, <1>4, <1>8, <1>9, QuietHandler

LEMMA QuietDone ==
  ASSUME Quiet, IInv, QuietInv, CallDone \/ DisconnectDone
  PROVE  QuietInv'
<1>1. /\ Running /\ pc = "work" /\ i < task_count /\ heap' = heap /\ Me \in Clients /\ RecordsOK
      /\ heap \subseteq Clients
  BY TickFrame, PoolType DEF Tick, IInv, W!WorkerTypeOK
<1>2. /\ Me \in heap /\ ctx[Me] \in Context /\ conn[Me] \in ConnectionStates
      /\ RequestFits(ctx[Me], conn[Me], sock[Me], stage)
  BY <1>1, Mine
<1>3. CASE CallDone
  <2>1. /\ stage = "switch" /\ ctx[Me].state = "Done" /\ stage' = "callback"
        /\ UNCHANGED <<conn, sock, fate>> /\ Me' = Me
    BY <1>3 DEF CallDone, At, InTick, tcpVars, poolVars, Me
  <2>2. conn[Me] = "Connected"
    <3>1. ctx[Me].calls = 0 /\ ~ IsDead(sock[Me]) /\ conn[Me] # "Disconnected"
      BY <1>2, <2>1 DEF RequestFits, CallsFit, QuietInv
    <3> QED
      BY <1>2, <2>1, <3>1 DEF RequestFits, ClientFits, ConnectionStates
  <2>3. \A r \in Clients : ctx'[r].state = ctx[r].state
    BY <1>1, <1>3 DEF CallDone, RecordsOK, Context
  <2> QED
    BY <1>1, <2>1, <2>2, <2>3 DEF QuietInv, Running
<1>4. CASE DisconnectDone
  <2>1. stage = "callback" /\ UNCHANGED <<ctx, sock>> /\ Return /\ tcp_client_disconnect(Me)
    BY <1>4 DEF DisconnectDone, InTick, tcp_client_disconnect, clientVars
  <2>2. conn[Me] = "Connected"
    BY <2>1 DEF QuietInv
  <2>3. conn' = [conn EXCEPT ![Me] = "Disconnecting"] /\ fate' = fate
    BY <2>1, <2>2 DEF tcp_client_disconnect
  <2>4. conn'[Me] = "Disconnecting" /\ \A r \in Clients \ {Me} : conn'[r] = conn[r]
    BY <1>1, <2>3 DEF RecordsOK
  <2>5. stage' = "tcp"
    BY <1>1, <2>1, <2>3 DEF Return, Running
  <2>6. SocketsKept(Me)
    BY <2>1 DEF SocketsKept
  <2> QED
    BY <1>1, <2>1, <2>3, <2>4, <2>5, <2>6, QuietHandler
<1> QED
  BY <1>3, <1>4

LEMMA QuietOutside ==
  ASSUME Quiet, IInv, QuietInv,
         \/ \E input \in Inputs : http_client_request(input)
         \/ BeginPass \/ EndOfPass \/ Keep \/ EndPass \/ Remove
         \/ \E r \in Clients : NetworkAt(r, NetworkSteps(sock[r]))
  PROVE  QuietInv'
<1>1. /\ P!WorkerInv /\ heap \subseteq Clients /\ ctx \in [Clients -> Context]
      /\ sock \in [Clients -> Socket] /\ conn \in [Clients -> ConnectionStates]
      /\ i \in Int /\ task_count \in Int
  BY PoolType, HttpClientAssumption DEF IInv, ClientInv, TypeOK, W!WorkerTypeOK, W!WorkerAssumption
<1>2. CASE \E input \in Inputs : http_client_request(input)
  <2>1. PICK input \in Inputs : http_client_request(input)
    BY <1>2
  <2>2. UNCHANGED <<conn, sock, fate, stage>>
    BY <2>1 DEF http_client_request, tcpVars
  <2>3. CASE UNCHANGED <<poolVars, ctx>>
    BY <2>2, <2>3 DEF QuietInv, Running, poolVars, Me
  <2>4. CASE \E r \in Clients : W!worker_add_task(r) /\ ctx' = [ctx EXCEPT ![r] = NewContext(input)]
    <3>1. PICK r \in Clients : W!worker_add_task(r) /\ ctx' = [ctx EXCEPT ![r] = NewContext(input)]
      BY <2>4
    <3>2. /\ r \notin heap /\ heap' = heap \cup {r} /\ (pc = "work" => Me' = Me)
      BY <1>1, <3>1, PoolAdd
    <3>3. ctx'[r].state = "Resolving" /\ \A c \in Clients \ {r} : ctx'[c] = ctx[c]
      BY <1>1, <3>1 DEF NewContext
    <3>4. ~ IsDead(sock[r])
      BY <3>2 DEF IInv, ClientInv, FreeContextsZeroed, NoSocket, IsDead
    <3>5. stage = "callback" => Me' = Me
      BY <3>2 DEF IInv, ClientInv, StageFits
    <3> QED
      BY <1>1, <2>2, <3>2, <3>3, <3>4, <3>5 DEF QuietInv, Running
  <2> QED
    BY <2>1, <2>3, <2>4 DEF http_client_request
<1>3. CASE BeginPass \/ EndOfPass \/ Keep \/ EndPass
  <2>1. /\ UNCHANGED <<conn, sock, fate, stage, ctx>>
        /\ W!BeginWork \/ W!EndOfTasks \/ W!SweepKeep \/ W!EndWork
    BY <1>3 DEF BeginPass, EndOfPass, Keep, EndPass, tcpVars, clientVars
  <2>2. heap' = heap
    BY <1>1, <2>1, PoolLoop
  <2>3. stage = "tcp"
    BY <1>1, <2>1 DEF IInv, ClientInv, StageFits, W!BeginWork, W!EndOfTasks, W!SweepKeep, W!EndWork
  <2> QED
    BY <2>1, <2>2, <2>3 DEF QuietInv, Running
<1>4. CASE Remove
  <2>1. /\ heap' = heap \ {Me} /\ UNCHANGED <<fate, stage>> /\ pc = "sweep"
        /\ \A r \in Clients \ {Me} : ctx'[r] = ctx[r] /\ conn'[r] = conn[r] /\ sock'[r] = sock[r]
    BY <1>1, <1>4, PoolRemove DEF Remove, FreeContext
  <2>2. stage = "tcp"
    BY <2>1 DEF IInv, ClientInv, StageFits
  <2> QED
    BY <1>1, <2>1, <2>2 DEF QuietInv, Running
<1>5. CASE \E r \in Clients : NetworkAt(r, NetworkSteps(sock[r]))
  <2>1. PICK r \in Clients : NetworkAt(r, NetworkSteps(sock[r]))
    BY <1>5
  <2>2. heap' = heap /\ UNCHANGED <<poolVars, stage, ctx, conn, fate>> /\ Me' = Me
    BY <2>1 DEF NetworkAt, Network, clientVars, poolVars, Me
  <2>3. SocketsKept(r)
    BY <2>1, NetworkKeeps
  <2>4. \A q \in heap : ~ IsDead(sock'[q])
    BY <1>1, <2>1, <2>3 DEF SocketsKept, Quiet, QuietInv, NetworkAt
  <2> QED
    BY <2>2, <2>4 DEF QuietInv, Running
<1> QED
  BY <1>2, <1>3, <1>4, <1>5

LEMMA QuietNext ==
  ASSUME Quiet, IInv, QuietInv, [Next]_vars
  PROVE  QuietInv'
<1>1. CASE Tick
  BY <1>1, QuietTcpTick, QuietEarly, QuietSending, QuietReceiving, QuietDone DEF Tick
<1>2. CASE UNCHANGED vars
  BY <1>2 DEF vars, poolVars, tcpVars, clientVars, QuietInv, Running, Me
<1> QED
  BY <1>1, <1>2, QuietOutside DEF Next, Pass

(* Nothing in the client itself ends the process: when the network, the     *)
(* name service, the parser and the application do their part, no assertion *)
(* of the client, of its TCP client or of its sockets fails, for any number *)
(* of requests, overlapping or not, and any cut of what is sent and read.   *)
THEOREM QuietClientLives ==
  ASSUME Quiet
  PROVE  Spec => []NeverDies
<1>1. Init => QuietInv
  BY DEF Init, TcpInit, W!WorkerInit, QuietInv, Running
<1>2. QuietInv /\ IInv /\ [Next]_vars => QuietInv'
  BY QuietNext
<1>3. QuietInv => NeverDies
  BY DEF QuietInv, NeverDies
<1> QED
  BY <1>1, <1>2, <1>3, SpecInv, PTL DEF Spec

-----------------------------------------------------------------------------
(* A patient application's requests send their own text.  What a step       *)
(* within a handler has to show, before the callback: the other requests    *)
(* have been called back.                                                   *)
LEMMA PatientHandler ==
  ASSUME IInv, PatientInv, heap' = heap, heap \subseteq Clients, Me \in heap,
         ctx[Me].calls = 0,
         \A r \in Clients \ {Me} : ctx'[r] = ctx[r],
         WireFits(ctx'[Me], Me, request_string')
  PROVE  PatientInv'
<1>1. \A r \in heap \ {Me} : ctx[r].calls # 0 /\ ctx[r].state = "Done"
  <2> TAKE r \in heap \ {Me}
  <2>1. ctx[r].calls # 0
    BY DEF PatientInv
  <2>2. CallsFit(ctx[r], conn[r], StageOf(r))
    BY DEF IInv, ClientInv, RequestsFit, RequestFits
  <2> QED
    BY <2>1, <2>2 DEF CallsFit
<1>2. \A r, q \in heap : ctx'[r].calls = 0 /\ ctx'[q].calls = 0 => r = q
  BY <1>1
<1>3. \A r \in heap : WireFits(ctx'[r], r, request_string')
  BY <1>1 DEF WireFits
<1> QED
  BY <1>2, <1>3 DEF PatientInv

LEMMA PatientEarly ==
  ASSUME IInv, PatientInv, Resolving \/ Connect \/ ConnectingTick
  PROVE  PatientInv'
<1>1. PICK x \in {"Resolving", "Connect", "Connecting"} : At(x) /\ Return
  BY DEF Resolving, Connect, ConnectingTick
<1>2. /\ RecordsOK /\ Me \in Clients /\ Me \in heap /\ ctx[Me].state = x /\ ctx[Me].calls = 0
  BY <1>1, AtState, Mine
<1>3. heap' = heap /\ heap \subseteq Clients
  BY TickFrame, PoolType DEF Tick, IInv, W!WorkerTypeOK
<1>4. ctx[Me].wire = {}
  BY <1>2 DEF PatientInv, WireFits
<1>5. CASE Resolving
  <2>1. PICK n, y : /\ y \in {"Connect", "Done"}
                    /\ ctx' = [ctx EXCEPT ![Me].found = n, ![Me].state = y]
    BY <1>5 DEF Resolving
  <2>2. /\ ctx'[Me].state \in {"Connect", "Done"} /\ ctx'[Me].wire = {}
        /\ \A r \in Clients \ {Me} : ctx'[r] = ctx[r]
    BY <1>2, <1>4, <2>1 DEF RecordsOK, Context
  <2> QED
    BY <1>2, <1>3, <2>2, PatientHandler DEF WireFits
<1>6. CASE Connect
  <2>1. PICK ok \in BOOLEAN : Goto(IF ok THEN "Connecting" ELSE "Done")
    BY <1>6, ConnectChoice
  <2>2. /\ ctx'[Me].state \in {"Connecting", "Done"} /\ ctx'[Me].wire = {}
        /\ \A r \in Clients \ {Me} : ctx'[r] = ctx[r]
    BY <1>2, <1>4, <2>1 DEF RecordsOK, Context, Goto
  <2> QED
    BY <1>2, <1>3, <2>2, PatientHandler DEF WireFits
<1>7. CASE ConnectingTick
  <2>1. ctx' = ctx \/ Goto("Start_Sending_Request")
    BY <1>7 DEF ConnectingTick
  <2>2. ctx[Me].state = "Connecting"
    BY <1>7 DEF ConnectingTick, At
  <2>3. /\ ctx'[Me].state \in {"Connecting", "Start_Sending_Request"} /\ ctx'[Me].wire = {}
        /\ \A r \in Clients \ {Me} : ctx'[r] = ctx[r]
    BY <1>2, <1>4, <2>1, <2>2 DEF RecordsOK, Context, Goto
  <2> QED
    BY <1>2, <1>3, <2>3, PatientHandler DEF WireFits
<1> QED
  BY <1>5, <1>6, <1>7

LEMMA PatientSending ==
  ASSUME Patient, IInv, PatientInv, StartSendingRequest \/ SendingRequest
  PROVE  PatientInv'
<1>1. PICK x \in {"Start_Sending_Request", "Sending_Request"} : At(x) /\ Return
  BY DEF StartSendingRequest, SendingRequest
<1>2. /\ RecordsOK /\ Me \in Clients /\ Me \in heap /\ ctx[Me].state = x /\ ctx[Me] \in Context
      /\ ctx[Me].calls = 0 /\ Sane(sock[Me]) /\ sock[Me].queued <= sock[Me].answered
      /\ RequestFits(ctx[Me], conn[Me], sock[Me], "switch")
  BY <1>1, AtState, Mine
<1>3. heap' = heap /\ heap \subseteq Clients
  BY TickFrame, PoolType DEF Tick, IInv, W!WorkerTypeOK
<1>4. WireFits(ctx[Me], Me, request_string)
  BY <1>2 DEF PatientInv
<1>5. CASE StartSendingRequest
  <2>1. ctx[Me].state = "Start_Sending_Request" /\ ctx[Me].input \in Inputs
    BY <1>2, <1>5 DEF StartSendingRequest, At, RequestFits
  <2>2. CASE HasText(ctx[Me].input)
    <3>1. ctx' = [ctx EXCEPT ![Me] = Sending(ctx[Me])] /\ request_string' = Me
      BY <1>2, <1>5, <2>2 DEF StartSendingRequest, RecordsOK
    <3>2. TextLength(ctx[Me].input) = ctx[Me].input.length
      BY <2>1 DEF TextLength, Patient
    <3>3. PICK d : d = Sending(ctx[Me])
      OBVIOUS
    <3>4. /\ d.state = "Sending_Request" /\ d.sent = 0 /\ d.wire = {}
          /\ d.to_send = d.input.length
      BY <1>2, <1>4, <2>1, <3>2, <3>3 DEF Sending, Context, WireFits
    <3>5. ctx'[Me] = d /\ \A r \in Clients \ {Me} : ctx'[r] = ctx[r]
      BY <1>2, <3>1, <3>3 DEF RecordsOK
    <3>6. WireFits(ctx'[Me], Me, request_string')
      BY <3>1, <3>4, <3>5 DEF WireFits
    <3> QED
      BY <1>2, <1>3, <3>5, <3>6, PatientHandler
  <2>3. CASE ~ HasText(ctx[Me].input)
    <3>1. ctx' = ctx
      BY <1>5, <2>3 DEF StartSendingRequest
    <3>2. WireFits(ctx'[Me], Me, request_string')
      BY <1>4, <2>1, <3>1 DEF WireFits
    <3> QED
      BY <1>2, <1>3, <3>1, <3>2, PatientHandler
  <2> QED
    BY <2>2, <2>3
<1>6. CASE SendingRequest
  <2>1. /\ ctx[Me].state = "Sending_Request" /\ request_string' = request_string
        /\ ctx[Me].sent \in Nat /\ ctx[Me].to_send \in Nat /\ ctx[Me].sent <= ctx[Me].to_send
        /\ ctx[Me].to_send > 0 /\ sock[Me].tcp # "syn_sent"
    <3>1. ctx[Me].state = "Sending_Request" /\ request_string' = request_string
      BY <1>6 DEF SendingRequest, At
    <3>2. /\ ctx[Me].sent <= ctx[Me].to_send /\ ctx[Me].to_send > 0
          /\ conn[Me] \in {"Connected", "Disconnecting"}
      BY <1>2, <3>1 DEF RequestFits, ClientFits, TaskFits, Exchanging
    <3> QED
      BY <1>2, <3>1, <3>2, ContextFields DEF RequestFits, ClientFits
  <2>2. /\ request_string = Me /\ ctx[Me].to_send = ctx[Me].input.length
        /\ ctx[Me].wire = IF ctx[Me].sent > 0 THEN {Me} ELSE {}
    BY <1>4, <2>1 DEF WireFits
  <2>3. CASE AllSent(Me)
    <3>1. ctx' = [ctx EXCEPT ![Me].inner = "none", ![Me].state = "Waiting_For_Response"]
      BY <1>6, <2>1, <2>3 DEF SendingRequest
    <3>2. ctx[Me].sent = ctx[Me].to_send
      BY <2>3 DEF AllSent
    <3>3. /\ ctx'[Me].state = "Waiting_For_Response"
          /\ ctx'[Me].sent = ctx[Me].sent /\ ctx'[Me].input = ctx[Me].input
          /\ ctx'[Me].wire = ctx[Me].wire
          /\ \A r \in Clients \ {Me} : ctx'[r] = ctx[r]
      BY <1>2, <3>1 DEF RecordsOK, Context
    <3>4. WireFits(ctx'[Me], Me, request_string')
      BY <2>1, <2>2, <3>2, <3>3 DEF WireFits
    <3> QED
      BY <1>2, <1>3, <3>3, <3>4, PatientHandler
  <2>4. CASE ~ AllSent(Me)
    <3>1. PICK n : n = ctx[Me].to_send - ctx[Me].sent
      OBVIOUS
    <3>2. n \in Nat \ {0}
      BY <2>1, <2>4, <3>1 DEF AllSent
    <3>3. PICK o \in tcp_socket_send(sock[Me], n) :
            IF o.result = "OK" THEN ctx' = CountSent(Me, o.bytes) ELSE UNCHANGED ctx
      BY <1>6, <2>1, <2>4, <3>1 DEF SendingRequest
    <3>4. CASE o.result = "OK"
      <4>1. PICK m : m = o.bytes
        OBVIOUS
      <4>2. m \in 1 .. n
        BY <1>2, <2>1, <3>2, <3>4, <4>1, SendOutcomes
      <4>3. ctx' = [ctx EXCEPT ![Me].sent = @ + m, ![Me].wire = @ \cup {request_string}]
        BY <3>3, <3>4, <4>1 DEF CountSent
      <4>4. /\ ctx'[Me].state = "Sending_Request" /\ ctx'[Me].input = ctx[Me].input
            /\ ctx'[Me].to_send = ctx[Me].to_send
            /\ ctx'[Me].sent = ctx[Me].sent + m /\ ctx'[Me].wire = ctx[Me].wire \cup {request_string}
            /\ \A r \in Clients \ {Me} : ctx'[r] = ctx[r]
        BY <1>2, <2>1, <4>3 DEF RecordsOK, Context
      <4>5. ctx'[Me].sent > 0
        BY <2>1, <3>2, <4>2, <4>4
      <4>6. ctx'[Me].wire = {Me}
        BY <2>2, <4>4
      <4>7. WireFits(ctx'[Me], Me, request_string')
        BY <2>1, <2>2, <4>4, <4>5, <4>6 DEF WireFits
      <4> QED
        BY <1>2, <1>3, <4>4, <4>7, PatientHandler
    <3>5. CASE o.result # "OK"
      <4>1. ctx' = ctx
        BY <3>3, <3>5
      <4> QED
        BY <1>2, <1>3, <1>4, <2>1, <4>1, PatientHandler
    <3> QED
      BY <3>4, <3>5
  <2> QED
    BY <2>3, <2>4
<1> QED
  BY <1>5, <1>6

LEMMA PatientReceiving ==
  ASSUME IInv, PatientInv, WaitingForResponse \/ ReceivingResponse \/ CallDone
  PROVE  PatientInv'
<1>1. /\ Running /\ pc = "work" /\ i < task_count /\ heap' = heap /\ Me \in Clients /\ RecordsOK
      /\ heap \subseteq Clients
  BY TickFrame, PoolType DEF Tick, IInv, W!WorkerTypeOK
<1>2. Me \in heap /\ RequestFits(ctx[Me], conn[Me], sock[Me], stage) /\ stage = "switch"
  BY <1>1, Mine DEF WaitingForResponse, ReceivingResponse, CallDone, At, InTick
<1>3. ctx[Me].calls = 0
  BY <1>2 DEF RequestFits, CallsFit
<1>4. /\ ctx'[Me].state \in {"Receiving_Response", "Done"}
      /\ \A r \in Clients \ {Me} : ctx'[r] = ctx[r]
  <2>1. CASE WaitingForResponse
    BY <1>1, <2>1 DEF WaitingForResponse, RecordsOK, Context
  <2>2. CASE ReceivingResponse
    <3>1. ctx[Me].state = "Receiving_Response"
      BY <2>2 DEF ReceivingResponse, At
    <3>2. PICK n : \/ ctx' = ctx \/ ctx' = CountRead(Me, n)
                   \/ ctx' = [CountRead(Me, n) EXCEPT ![Me].inner = "none", ![Me].state = "Done"]
      BY <2>2 DEF ReceivingResponse, ParseRead, ReadNothing
    <3> QED
      BY <1>1, <3>1, <3>2 DEF RecordsOK, Context, CountRead
  <2>3. CASE CallDone
    BY <1>1, <2>3 DEF CallDone, At, RecordsOK, Context
  <2> QED
    BY <2>1, <2>2, <2>3
<1> QED
  BY <1>1, <1>2, <1>3, <1>4, PatientHandler DEF WireFits

LEMMA PatientOutside ==
  ASSUME Patient, IInv, PatientInv,
         \/ \E input \in Inputs : http_client_request(input)
         \/ TcpTick \/ DisconnectDone
         \/ BeginPass \/ EndOfPass \/ Keep \/ EndPass \/ Remove
         \/ \E r \in Clients : NetworkAt(r, NetworkSteps(sock[r]))
  PROVE  PatientInv'
<1>1. P!WorkerInv /\ heap \subseteq Clients /\ ctx \in [Clients -> Context]
  BY PoolType DEF IInv, ClientInv, TypeOK, W!WorkerTypeOK
<1>2. CASE UNCHANGED <<heap, ctx, request_string>>
  BY <1>2 DEF PatientInv
<1>3. CASE \E input \in Inputs : http_client_request(input)
  <2>1. PICK input \in Inputs : http_client_request(input)
    BY <1>3
  <2>2. \A r \in heap : ctx[r].calls # 0 /\ ctx[r].state = "Done"
    <3> TAKE r \in heap
    <3>1. ctx[r].calls > 0
      BY <2>1 DEF http_client_request, Patient
    <3>2. CallsFit(ctx[r], conn[r], StageOf(r))
      BY DEF IInv, ClientInv, RequestsFit, RequestFits
    <3> QED
      BY <3>1, <3>2 DEF CallsFit
  <2>3. CASE UNCHANGED <<poolVars, ctx>>
    BY <2>2, <2>3 DEF PatientInv, WireFits, poolVars
  <2>4. CASE \E r \in Clients : W!worker_add_task(r) /\ ctx' = [ctx EXCEPT ![r] = NewContext(input)]
    <3>1. PICK r \in Clients : W!worker_add_task(r) /\ ctx' = [ctx EXCEPT ![r] = NewContext(input)]
      BY <2>4
    <3>2. r \notin heap /\ heap' = heap \cup {r}
      BY <1>1, <3>1, PoolAdd
    <3>3. /\ ctx'[r].state = "Resolving" /\ ctx'[r].wire = {}
          /\ \A c \in Clients \ {r} : ctx'[c] = ctx[c]
      BY <1>1, <3>1 DEF NewContext
    <3>4. \A c \in heap \cup {r} : WireFits(ctx'[c], c, request_string')
      BY <1>1, <2>2, <3>2, <3>3 DEF WireFits
    <3> QED
      BY <1>1, <2>2, <3>2, <3>3, <3>4 DEF PatientInv
  <2> QED
    BY <2>1, <2>3, <2>4 DEF http_client_request
<1>4. CASE TcpTick \/ DisconnectDone
  <2>1. heap' = heap
    BY <1>4, TickFrame DEF Tick
  <2> QED
    BY <1>2, <1>4, <2>1 DEF TcpTick, DisconnectDone, clientVars
<1>5. CASE BeginPass \/ EndOfPass \/ Keep \/ EndPass
  <2>1. heap' = heap
    BY <1>1, <1>5, PoolLoop DEF BeginPass, EndOfPass, Keep, EndPass
  <2> QED
    BY <1>2, <1>5, <2>1 DEF BeginPass, EndOfPass, Keep, EndPass, clientVars
<1>6. CASE Remove
  <2>1. heap' = heap \ {Me}
    BY <1>1, <1>6, PoolRemove DEF Remove
  <2>2. request_string' = request_string /\ \A r \in Clients \ {Me} : ctx'[r] = ctx[r]
    BY <1>1, <1>6 DEF Remove, FreeContext
  <2> QED
    BY <1>1, <2>1, <2>2 DEF PatientInv
<1>7. CASE \E r \in Clients : NetworkAt(r, NetworkSteps(sock[r]))
  BY <1>2, <1>7 DEF NetworkAt, poolVars, clientVars
<1> QED
  BY <1>3, <1>4, <1>5, <1>6, <1>7

LEMMA PatientNext ==
  ASSUME Patient, IInv, PatientInv, [Next]_vars
  PROVE  PatientInv'
<1>1. CASE UNCHANGED vars
  BY <1>1 DEF vars, poolVars, clientVars, PatientInv
<1> QED
  BY <1>1, PatientOutside, PatientEarly, PatientSending, PatientReceiving DEF Next, Pass, Tick

(* "We've sent the entire request." (http_client.c 313) is true of every    *)
(* patient application whose texts fit into the array, on any network: what *)
(* was sent is the request's own text, to the last byte.                    *)
THEOREM PatientRequestsWhole ==
  ASSUME Patient
  PROVE  Spec => []EntireRequestSent
<1>1. Init => PatientInv
  BY DEF Init, W!WorkerInit, PatientInv
<1>2. PatientInv /\ IInv /\ [Next]_vars => PatientInv'
  BY PatientNext
<1>3. PatientInv => EntireRequestSent
  BY DEF PatientInv, WireFits, EntireRequestSent, Whole
<1> QED
  BY <1>1, <1>2, <1>3, SpecInv, PTL DEF Spec
=============================================================================
