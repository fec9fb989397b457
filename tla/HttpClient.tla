----------------------------- MODULE HttpClient -----------------------------
(***************************************************************************)
(* The HTTP client of src/http/client/http_client.c: http_client_request,  *)
(* and http_client_request_work, the callback the worker calls in every    *)
(* pass for every request.  It composes the application's Worker, the      *)
(* TcpClient in each request's context, and the request's own worker, of   *)
(* which at most one task is ever alive (inner).                           *)
(*                                                                         *)
(* One call of http_client_request_work is two or three steps, between     *)
(* which the network may act: tcp_client_work (stage "tcp"), the switch on *)
(* the state (stage "switch"), and for the state Done what follows the     *)
(* application's callback (stage "callback").                              *)
(***************************************************************************)
EXTENDS TcpClient, Dns

CONSTANTS
  MAX_WORKER_TASKS, UINT32_VALUES, NULL,  \* as in Worker
  Inputs,               \* what the application may ask for
  AddressLists,         \* how many addresses getaddrinfo may find; 0 if it fails
  MAX_IP_ADDRESS_CANDIDATES,  \* 16 in the build
  REQUEST_STRING_SIZE,  \* sizeof(request_string): 512 in the build
  ParseEarly,           \* what http_try_parse may answer to a part of the response
  ParseFull,            \* and to the complete response
  Overlapping,          \* whether the application asks while a request is under way
  MAX_OPEN_FILES,       \* how many sockets the process may have open
  MaxRequests           \* bound on the calls of http_client_request

VARIABLES
  tasks, task_count, next_uid, heap, pc, i,  \* the application's Worker
  ctx,             \* HTTP_Client_Request_Context, by address
  stage,           \* how far the current call of http_client_request_work is
  request_string,  \* whose text the stack slot of that array holds, or NULL
  leaked,          \* sockets still open whose context has been freed
  made             \* calls of http_client_request so far

W == INSTANCE Worker WITH Contexts <- Clients

poolVars == <<tasks, task_count, next_uid, heap, pc, i>>
clientVars == <<ctx, request_string, leaked, made>>
vars == <<tcpVars, poolVars, stage, clientVars>>

Methods == {"GET", "POST", "PUT"}
Bodies == {"NULL", "empty", "text"}
ParseResults == {"Done", "Needs_More_Data", "Invalid_Data", "TODO", "assert"}

(* An input is a method, a body and the length its complete text would have. *)
ASSUME HttpClientAssumption ==
  /\ W!WorkerAssumption
  /\ Inputs \subseteq [method : Methods, body : Bodies, length : Nat \ {0}]
  /\ AddressLists \subseteq Nat
  /\ MAX_IP_ADDRESS_CANDIDATES \in Nat \ {0}
  /\ REQUEST_STRING_SIZE \in Nat \ {0, 1}
  /\ ParseEarly \subseteq ParseResults /\ ParseFull \subseteq ParseResults
  /\ Overlapping \in BOOLEAN
  /\ MAX_OPEN_FILES \in Nat /\ MaxRequests \in Nat

RequestStates ==
  {"Resolving", "Connect", "Connecting", "Start_Sending_Request", "Sending_Request",
   "Waiting_For_Response", "Receiving_Response", "Done"}

(* A zeroed context.  found is ip_address_candidates_found.  inner is the   *)
(* task in its tcp_worker; sent, to_send and received are the counters of   *)
(* that task's context.  wire (whose text the bytes sent were taken from)   *)
(* and calls (of done_callback) are history.                                *)
NewContext(input) ==
  [state |-> "Resolving", input |-> input, found |-> 0, inner |-> "none", to_send |-> 0,
   sent |-> 0, received |-> 0, wire |-> {}, calls |-> 0]
NoContext == NewContext(NULL)

Context ==
  [state : RequestStates, input : Inputs \cup {NULL}, found : Nat,
   inner : {"none", "send", "receive"}, to_send : Nat, sent : Nat, received : 0 .. RESPONSE_LENGTH,
   wire : SUBSET (Clients \cup {NULL}), calls : Nat]

Init ==
  /\ TcpInit
  /\ W!WorkerInit
  /\ stage = "tcp"
  /\ ctx = [r \in Clients |-> NoContext]
  /\ request_string = NULL
  /\ leaked = 0
  /\ made = 0

-----------------------------------------------------------------------------
(* The text of a request: none for a method or a body the code rejects;     *)
(* snprintf cuts it to the array's size less one.                           *)
HasText(input) ==
  \/ input.method = "GET"
  \/ input.method = "POST" /\ input.body = "text"

TextLength(input) ==
  IF input.length < REQUEST_STRING_SIZE THEN input.length ELSE REQUEST_STRING_SIZE - 1

OpenFiles == leaked + Cardinality({r \in heap : IsOpen(sock[r])})

(* The application asks for a request, between two passes or in a callback. *)
(* Its frame holds a zeroed context that, between two passes, lies over the *)
(* slot request_string had, whether the worker then takes the task or not.  *)
http_client_request(input) ==
  /\ Running
  /\ pc = "idle" \/ stage = "callback"
  /\ made < MaxRequests
  /\ Overlapping \/ \A r \in heap : ctx[r].calls > 0
  /\ made' = made + 1
  /\ request_string' = IF pc = "idle" THEN NULL ELSE request_string
  /\ IF W!NotFull
     THEN \E r \in Clients : /\ W!worker_add_task(r)
                             /\ ctx' = [ctx EXCEPT ![r] = NewContext(input)]
     ELSE UNCHANGED <<poolVars, ctx>>
  /\ UNCHANGED <<tcpVars, stage, leaked>>

(* The request whose callback the worker is in. *)
Me == tasks[i].context

InTick(s) == Running /\ pc = "work" /\ i < task_count /\ stage = s

TcpTick ==
  /\ InTick("tcp")
  /\ tcp_client_work(Me)
  /\ stage' = "switch"
  /\ UNCHANGED <<poolVars, clientVars>>

At(state) == InTick("switch") /\ ctx[Me].state = state

(* Seeded faults: a request that has lost its connection is kept; a request *)
(* is done once it has its response.                                        *)
TickResultKeeping == ctx'[Me].calls > 0
TickResultEager == ctx'[Me].state = "Done"

(* What http_client_request_work returns: whether the task is done. *)
TickResult == conn'[Me] = "Disconnecting"

(* The return, unless the process has ended. *)
Return ==
  IF fate' = "running" THEN W!RunTask(TickResult) /\ stage' = "tcp"
  ELSE UNCHANGED <<poolVars, stage>>

Goto(state) == ctx' = [ctx EXCEPT ![Me].state = state]

(* An address written behind the array lies over other fields of the        *)
(* context, and the model ends there.                                       *)
Resolving ==
  /\ At("Resolving")
  /\ \E addresses \in AddressLists :
       LET o == dns_resolve_hostname(addresses, MAX_IP_ADDRESS_CANDIDATES)
       IN  /\ ctx' = [ctx EXCEPT ![Me].found = o.count,
                                 ![Me].state = IF o.result = "OK" THEN "Connect" ELSE "Done"]
           /\ IF o.count > MAX_IP_ADDRESS_CANDIDATES THEN Abort("overrun") ELSE UNCHANGED fate
  /\ UNCHANGED <<conn, sock, request_string, leaked, made>>
  /\ Return

(* The loop over the candidates ends at the first on which connect starts.  *)
(* A call that fails leaves nothing, so the loop has the outcomes of one.   *)
Connect ==
  /\ At("Connect")
  /\ tcp_client_connect(Me, OpenFiles < MAX_OPEN_FILES)
  /\ Goto(IF conn'[Me] = "Connecting" THEN "Connecting" ELSE "Done")
  /\ UNCHANGED <<request_string, leaked, made>>
  /\ Return

ConnectingTick ==
  /\ At("Connecting")
  /\ IF conn[Me] \in {"Connecting", "Connected"}
     THEN /\ IF conn[Me] = "Connected" THEN Goto("Start_Sending_Request") ELSE UNCHANGED ctx
          /\ UNCHANGED fate
     ELSE Abort("http_client_request_work") /\ UNCHANGED ctx
  /\ UNCHANGED <<conn, sock, request_string, leaked, made>>
  /\ Return

(* Seeded fault: the state stays what it was. *)
SendingAgain(c) == [c EXCEPT !.inner = "send", !.sent = 0, !.to_send = TextLength(c.input)]

(* The context once the send task has been added to its worker. *)
Sending(c) ==
  [c EXCEPT !.state = "Sending_Request", !.inner = "send", !.sent = 0,
            !.to_send = TextLength(c.input)]

(* A POST without a body sets the state to Done, but goes on to the         *)
(* assertion of line 279.  The task points to the array, not to a copy.     *)
StartSendingRequest ==
  /\ At("Start_Sending_Request")
  /\ IF HasText(ctx[Me].input)
     THEN /\ request_string' = Me
          /\ ctx' = [ctx EXCEPT ![Me] = Sending(@)]
          /\ UNCHANGED fate
     ELSE /\ request_string' = NULL
          /\ Abort(IF ctx[Me].input.method = "POST" THEN "empty_request" ELSE "unknown_method")
          /\ UNCHANGED ctx
  /\ UNCHANGED <<conn, sock, leaked, made>>
  /\ Return

(* Seeded fault: what was sent before is forgotten. *)
CountSentAfresh(c, n) ==
  [ctx EXCEPT ![c].sent = n, ![c].wire = @ \cup {request_string}]

CountSent(c, n) ==
  [ctx EXCEPT ![c].sent = @ + n, ![c].wire = @ \cup {request_string}]

(* Seeded fault: the task ends with the last send that is accepted. *)
AllSentEarly(c) == ctx[c].sent + 1 >= ctx[c].to_send

AllSent(c) == ctx[c].sent = ctx[c].to_send

(* worker_work on the inner worker calls http_tcp_send_request_work, whose  *)
(* task is removed in the same pass when it is done.                        *)
SendingRequest ==
  /\ At("Sending_Request")
  /\ IF ctx[Me].sent > ctx[Me].to_send
     THEN Abort("http_tcp_send_request_work") /\ UNCHANGED <<ctx, sock>>
     ELSE IF AllSent(Me)
     THEN /\ ctx' = [ctx EXCEPT ![Me].inner = "none", ![Me].state = "Waiting_For_Response"]
          /\ UNCHANGED <<sock, fate>>
     ELSE \E o \in tcp_socket_send(sock[Me], ctx[Me].to_send - ctx[Me].sent) :
            /\ sock' = [sock EXCEPT ![Me] = o.socket]
            /\ IF o.result = "OK"
               THEN ctx' = CountSent(Me, o.bytes) /\ UNCHANGED fate
               ELSE Abort(o.result) /\ UNCHANGED ctx
  /\ UNCHANGED <<conn, request_string, leaked, made>>
  /\ Return

(* The local struct response lies over the slot of request_string. *)
WaitingForResponse ==
  /\ At("Waiting_For_Response")
  /\ ctx' = [ctx EXCEPT ![Me].state = "Receiving_Response", ![Me].inner = "receive",
                        ![Me].received = 0]
  /\ request_string' = NULL
  /\ UNCHANGED <<tcpVars, leaked, made>>
  /\ Return

ParseAnswers(received) == IF received = RESPONSE_LENGTH THEN ParseFull ELSE ParseEarly

(* Seeded faults: only the last bytes read are counted; they are counted twice. *)
CountReadAfresh(c, n) == [ctx EXCEPT ![c].received = n]
CountReadTwice(c, n) == [ctx EXCEPT ![c].received = @ + 2 * n]

CountRead(c, n) == [ctx EXCEPT ![c].received = @ + n]

(* Seeded fault: the parser's wish for more data is not heard. *)
ParseReadDeaf(c, n) ==
  /\ ctx' = [CountRead(c, n) EXCEPT ![c].inner = "none", ![c].state = "Done"]
  /\ UNCHANGED fate

(* http_tcp_receive_response_work with n > 0 bytes read: they are appended, *)
(* and everything read so far is given to the parser.                       *)
ParseRead(c, n) ==
  \E answer \in ParseAnswers(ctx[c].received + n) :
    CASE answer = "assert" -> Abort("http_try_parse") /\ UNCHANGED ctx
      [] answer = "Needs_More_Data" -> ctx' = CountRead(c, n) /\ UNCHANGED fate
      [] OTHER -> /\ ctx' = [CountRead(c, n) EXCEPT ![c].inner = "none", ![c].state = "Done"]
                  /\ UNCHANGED fate

(* Seeded fault: a read of 0 bytes ends the task. *)
ReadNothingEnds(c) ==
  /\ ctx' = [ctx EXCEPT ![c].inner = "none", ![c].state = "Done"]
  /\ UNCHANGED fate

(* A read of 0 bytes, the end of the stream, changes nothing. *)
ReadNothing(c) == UNCHANGED <<ctx, fate>>

ReceivingResponse ==
  /\ At("Receiving_Response")
  /\ \E o \in tcp_socket_receive(sock[Me]) :
       /\ sock' = [sock EXCEPT ![Me] = o.socket]
       /\ IF o.bytes > 0 THEN ParseRead(Me, o.bytes)
          ELSE IF o.result = "OK" THEN ReadNothing(Me)
          ELSE IF o.result = "Not_Ready" THEN UNCHANGED <<ctx, fate>>
          ELSE Abort(o.result) /\ UNCHANGED ctx
  /\ UNCHANGED <<conn, request_string, leaked, made>>
  /\ Return

(* Done: the application's callback is called ... *)
CallDone ==
  /\ At("Done")
  /\ ctx' = [ctx EXCEPT ![Me].calls = @ + 1]
  /\ stage' = "callback"
  /\ UNCHANGED <<tcpVars, poolVars, request_string, leaked, made>>

(* ... and after its return the client is told to disconnect. *)
DisconnectDone ==
  /\ InTick("callback")
  /\ tcp_client_disconnect(Me)
  /\ UNCHANGED clientVars
  /\ Return

-----------------------------------------------------------------------------
(* The rest of the application's worker_work.  A removed task's context is  *)
(* freed; its socket, if one was opened, is not closed.                     *)
FreeContext(r) ==
  /\ ctx' = [ctx EXCEPT ![r] = NoContext]
  /\ conn' = [conn EXCEPT ![r] = "Disconnected"]
  /\ sock' = [sock EXCEPT ![r] = NoSocket]
  /\ leaked' = leaked + IF IsOpen(sock[r]) THEN 1 ELSE 0

Remove ==
  /\ Running
  /\ W!SweepRemove
  /\ FreeContext(Me)
  /\ UNCHANGED <<fate, stage, request_string, made>>

BeginPass == Running /\ W!BeginWork /\ UNCHANGED <<tcpVars, stage, clientVars>>
EndOfPass == Running /\ W!EndOfTasks /\ UNCHANGED <<tcpVars, stage, clientVars>>
Keep == Running /\ W!SweepKeep /\ UNCHANGED <<tcpVars, stage, clientVars>>
EndPass == Running /\ W!EndWork /\ UNCHANGED <<tcpVars, stage, clientVars>>

Tick ==
  \/ TcpTick
  \/ Resolving
  \/ Connect
  \/ ConnectingTick
  \/ StartSendingRequest
  \/ SendingRequest
  \/ WaitingForResponse
  \/ ReceivingResponse
  \/ CallDone
  \/ DisconnectDone

Pass == BeginPass \/ Tick \/ EndOfPass \/ Keep \/ Remove \/ EndPass

NetworkAt(r, steps) ==
  /\ r \in heap
  /\ Network(r, steps)
  /\ UNCHANGED <<poolVars, stage, clientVars>>

Next ==
  \/ \E input \in Inputs : http_client_request(input)
  \/ Pass
  \/ \E r \in Clients : NetworkAt(r, NetworkSteps(sock[r]))

(* The peer has the complete text of the request it was sent. *)
Whole(r) ==
  /\ ctx[r].sent = ctx[r].input.length
  /\ ctx[r].wire = {r}

(* The application calls worker_work for as long as it has tasks (main.c    *)
(* 165), a connection attempt ends, and a peer that has got a complete      *)
(* request answers it.  A peer owes nothing to anything else.               *)
Fairness ==
  /\ WF_vars(Pass)
  /\ \A r \in Clients :
       /\ WF_vars(NetworkAt(r, Handshake(sock[r])))
       /\ WF_vars(r \in heap /\ Whole(r) /\ NetworkAt(r, Arrival(sock[r])))

Spec == Init /\ [][Next]_vars /\ Fairness

-----------------------------------------------------------------------------
TypeOK ==
  /\ W!WorkerTypeOK
  /\ conn \in [Clients -> ConnectionStates]
  /\ sock \in [Clients -> Socket]
  /\ ctx \in [Clients -> Context]
  /\ stage \in {"tcp", "switch", "callback"}
  /\ request_string \in Clients \cup {NULL}
  /\ leaked \in 0 .. made /\ made \in 0 .. MaxRequests

(* Four assertions never fail, whatever the network does: a client is only  *)
(* connected once (tcp_client.c 5), a request that is disconnecting is      *)
(* removed before tcp_client_work sees it (57), a request that waits for    *)
(* its connection still has one (http_client.c 200), and no more is sent    *)
(* than there is (13).                                                      *)
SoundAssertions ==
  fate \notin {"tcp_client_connect", "tcp_client_work", "http_client_request_work",
               "http_tcp_send_request_work"}

(* The process only dies of SIGPIPE, of a failing send or recv, or of a     *)
(* connection lost between two looks at it, when the connection of the      *)
(* request being handled really has failed: no order of the calls and no    *)
(* other request turns a healthy connection into an abort.                  *)
NetworkDeaths ==
  fate \in {"SIGPIPE", "send_failed", "recv_failed", "Not_Connected"}
    => Me \in heap /\ IsDead(sock[Me])

(* done_callback is called at most once, and a request that was called back *)
(* is on its way out: its callback is being run, or it is disconnecting and *)
(* the pass under way removes it.                                           *)
CalledBackOnce ==
  Running => \A r \in heap : ctx[r].calls > 0 =>
    /\ ctx[r].calls = 1
    /\ (stage = "callback" /\ Me = r) \/ conn[r] = "Disconnecting"
    /\ pc # "idle"

(* A request that survived its callback had its text sent to the last byte, *)
(* some of the response read, and has left no task in its own worker.       *)
AnswerBehindCallback ==
  \A r \in heap : ctx[r].calls > 0 /\ conn[r] = "Disconnecting" =>
    /\ ctx[r].sent = ctx[r].to_send /\ ctx[r].to_send > 0
    /\ ctx[r].received > 0
    /\ ctx[r].inner = "none"

(* A request's worker holds a send task exactly while the request is        *)
(* sending and a receive task exactly while it is receiving.  So its array  *)
(* is empty whenever a task is added, and worker_work's count of tasks left *)
(* is about the right task.                                                 *)
InnerTaskMatchesState ==
  \A r \in Clients :
    /\ ctx[r].inner = "send" <=> ctx[r].state = "Sending_Request"
    /\ ctx[r].inner = "receive" <=> ctx[r].state = "Receiving_Response"

(* Every byte of the response that arrived is either in the kernel's queue  *)
(* or was given to the parser, once: the buffer of one read is never kept   *)
(* for the next, and no outcome of tcp_socket_receive drops what was read.  *)
BytesConserved ==
  Running => \A r \in heap :
    ctx[r].received + sock[r].queued = sock[r].answered

(* A request only vanishes without a call of its callback when its          *)
(* connection has failed.                                                   *)
NoSilentLoss ==
  [][\A r \in heap \ heap' : ctx[r].calls = 1 \/ IsDead(sock[r])]_vars

Service == INSTANCE RequestService WITH
  Requests <- Clients,
  asked <- heap,
  answered <- {r \in heap : ctx[r].calls > 0},
  failed <- {r \in heap : IsDead(sock[r])},
  ended <- IF Running THEN "nothing"
           ELSE IF fate \in {"SIGPIPE", "send_failed", "recv_failed", "Not_Connected"}
           THEN "network" ELSE "program"

(* The client keeps what it promises the application: in every order of     *)
(* events a request is asked for, called back once and freed, or freed with *)
(* its connection failed; its address serves the next request only then.    *)
RefinesRequestService == Service!Spec

(* When the request waits for its response its whole text has been sent,    *)
(* and nothing else ("We've sent the entire request.", http_client.c 313).  *)
EntireRequestSent ==
  \A r \in heap : ctx[r].state = "Waiting_For_Response" => Whole(r)

(* dns_resolve_hostname writes no more addresses than the array it is given *)
(* has room for: http_client.c 146 passes MAX_IP_ADDRESS_CANDIDATES as the  *)
(* parameter that dns.c 17 calls ip_addresses_size.                         *)
CandidatesFit == \A r \in Clients : ctx[r].found <= MAX_IP_ADDRESS_CANDIDATES

(* Nothing ends the process. *)
NeverDies == Running

(* Every request that was accepted is called back with the whole response.  *)
EveryRequestAnswered ==
  \A r \in Clients :
    r \in heap ~> (r \in heap /\ ctx[r].calls = 1 /\ ctx[r].received = RESPONSE_LENGTH)

(* The loop of main.c 165 ends: the worker runs out of tasks. *)
LoopEnds == <>[](pc = "idle" /\ task_count = 0)

(* tcp_client_disconnect is only called on a connected client (the          *)
(* assertion of tcp_client.c 27).                                           *)
DisconnectsConnected == fate # "tcp_client_disconnect"

(* A request is said to be connected ("Connected to ...", http_client.c     *)
(* 208) only when its connection has been set up.                           *)
ConnectedMeansConnected ==
  \A r \in heap : ctx[r].state = "Start_Sending_Request" => sock[r].tcp # "refused"

(* A receive task that reads 0 bytes is done ("Read 0 bytes. Work done.",   *)
(* http_client.c 79).                                                       *)
EndOfStream(r) ==
  ctx[r].inner = "receive" /\ sock[r].tcp = "fin_received" /\ sock[r].queued = 0
WorkDoneAtEndOfStream == \A r \in Clients : EndOfStream(r) ~> ctx[r].inner # "receive"

(* A client that disconnects closes its socket ("Close socket.",            *)
(* tcp_client.c 58): no socket outlives its request.                        *)
SocketsClosed == leaked = 0

(* A POST without a body is reported and sets the state to Done             *)
(* (http_client.c 238-249); it does not trip over the assertion that the    *)
(* request string is not empty (279).                                       *)
EmptyPostIsHandled == fate # "empty_request"
=============================================================================
