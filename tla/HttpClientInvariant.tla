------------------------- MODULE HttpClientInvariant -------------------------
(***************************************************************************)
(* The inductive invariant of the HTTP client: for every request, how its  *)
(* context, its TCP client and its socket fit together at every point of   *)
(* every pass, and what the worker's done flags say about them.            *)
(***************************************************************************)
EXTENDS HttpClient

(* How far the call of http_client_request_work for a request is; "tcp"     *)
(* also between two calls.                                                  *)
StageOf(r) == IF stage # "tcp" /\ r = Me THEN stage ELSE "tcp"

Exchanging ==
  {"Start_Sending_Request", "Sending_Request", "Waiting_For_Response", "Receiving_Response"}

(* The TCP client's state (k) in each state of the request: it is connected *)
(* once and for all before anything is sent.                                *)
ClientFits(c, k, s, at) ==
  /\ s.error => IsDead(s)
  /\ k \in {"Connected", "Disconnecting"} => s.tcp # "syn_sent"
  /\ k = "Disconnecting" => c.calls = 1 \/ IsDead(s)
  /\ c.state \in {"Resolving", "Connect"} => k = "Disconnected" /\ s.tcp = "none"
  /\ c.state = "Connecting" => k = "Connecting" \/ (k = "Connected" /\ at = "switch")
  /\ c.state \in Exchanging => k \in {"Connected", "Disconnecting"}
  /\ c.state = "Done" => k # "Connecting"

InnerTask(state) ==
  CASE state = "Sending_Request" -> "send"
    [] state = "Receiving_Response" -> "receive"
    [] OTHER -> "none"

(* Whether a request has been sent, and answered, when it is in a state. *)
SentBy(c, k) ==
  \/ c.state \in {"Waiting_For_Response", "Receiving_Response"}
  \/ c.state = "Done" /\ k # "Disconnected"

(* The inner task and the counters in each state of the request. *)
TaskFits(c, k) ==
  /\ c.inner = InnerTask(c.state)
  /\ c.state = "Sending_Request" => c.sent <= c.to_send /\ c.to_send > 0
  /\ SentBy(c, k) => c.sent = c.to_send /\ c.to_send > 0
  /\ c.state = "Done" /\ k # "Disconnected" => c.received > 0
  /\ c.state \notin {"Receiving_Response", "Done"} => c.received = 0

(* The callback is called in the state Done, and who was called back either *)
(* is still in the callback or is disconnecting.                            *)
CallsFit(c, k, at) ==
  /\ c.calls \in {0, 1}
  /\ at = "callback" => c.calls = 1
  /\ at = "switch" => c.calls = 0
  /\ c.calls = 1 => c.state = "Done"
  /\ c.calls = 1 /\ at = "tcp" => k = "Disconnecting"

RequestFits(c, k, s, at) ==
  c.input \in Inputs /\ ClientFits(c, k, s, at) /\ TaskFits(c, k) /\ CallsFit(c, k, at)

RequestsFit == \A r \in heap : RequestFits(ctx[r], conn[r], sock[r], StageOf(r))

(* What is not in use is as malloc and memset give it to the next request.  *)
FreeContextsZeroed ==
  \A r \in Clients \ heap : ctx[r] = NoContext /\ conn[r] = "Disconnected" /\ sock[r] = NoSocket

(* The worker's done flags are the disconnecting clients, but for the       *)
(* request whose call has not returned.                                     *)
FlagsFit ==
  /\ \A r \in W!Finished : conn[r] = "Disconnecting"
  /\ \A r \in heap :
       conn[r] = "Disconnecting" => r \in W!Finished \/ (stage # "tcp" /\ r = Me)

(* A handler runs only inside the work loop. *)
StageFits == stage # "tcp" => pc = "work" /\ i < task_count

(* Every socket that was left open belongs to a request that is gone. *)
SocketsCounted == leaked + task_count <= made

ClientInv ==
  /\ TypeOK
  /\ StageFits
  /\ SocketsCounted
  /\ FreeContextsZeroed
  /\ FlagsFit
  /\ RequestsFit
  /\ BytesConserved
  /\ SoundAssertions
  /\ NetworkDeaths

-----------------------------------------------------------------------------
(* Nothing the client depends on fails: the network, the name service, the  *)
(* parser, and the application, which asks for nothing the code rejects and *)
(* may have as many files open as it makes requests.                        *)
Quiet ==
  /\ PeerFaults = {}
  /\ AddressLists \subseteq 1 .. MAX_IP_ADDRESS_CANDIDATES
  /\ "assert" \notin ParseEarly \cup ParseFull
  /\ \A input \in Inputs : HasText(input)
  /\ MaxRequests <= MAX_OPEN_FILES

(* Then no connection fails, and the request that is called back is         *)
(* connected when it is told to disconnect.                                 *)
QuietInv ==
  /\ Running
  /\ \A r \in heap : ~ IsDead(sock[r])
  /\ \A r \in heap : ctx[r].state = "Done" => conn[r] # "Disconnected"
  /\ stage = "callback" => conn[Me] = "Connected"

(* The application waits for the answer to a request before the next, and   *)
(* every text fits into the array.                                          *)
Patient ==
  /\ ~ Overlapping
  /\ \A input \in Inputs : input.length < REQUEST_STRING_SIZE

(* What a request has sent so far was taken from its own text; text is      *)
(* whose text the array holds.                                              *)
WireFits(c, r, text) ==
  /\ c.state \in {"Resolving", "Connect", "Connecting", "Start_Sending_Request"} => c.wire = {}
  /\ c.state = "Sending_Request" =>
       /\ text = r
       /\ c.to_send = c.input.length
       /\ c.wire = IF c.sent > 0 THEN {r} ELSE {}
  /\ c.state = "Waiting_For_Response" => c.sent = c.input.length /\ c.wire = {r}

(* Then at most one request has not been called back, and the array holds   *)
(* its text for as long as it is sent.                                      *)
PatientInv ==
  /\ \A r, q \in heap : ctx[r].calls = 0 /\ ctx[q].calls = 0 => r = q
  /\ \A r \in heap : WireFits(ctx[r], r, request_string)
=============================================================================
