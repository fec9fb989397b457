--------------------------- MODULE TcpClientProofs ---------------------------
(***************************************************************************)
(* What the functions of tcp_socket.c and tcp_client.c can do to a         *)
(* connection, whatever the network does between their system calls, for   *)
(* every length of the response, every buffer and every set of faults.     *)
(***************************************************************************)
EXTENDS TcpClient, TLAPS

(* A record of the kernel that can be: an error is that of a failed         *)
(* connection.                                                              *)
Sane(s) == s \in Socket /\ (s.error => IsDead(s))

(* What neither the network nor a function of tcp_socket.c can undo, when   *)
(* taken bytes of the response are given to the caller.                     *)
Follows(s, t, taken) ==
  /\ Sane(t)
  /\ IsDead(s) => IsDead(t)
  /\ PeerFaults = {} => (IsDead(t) => IsDead(s))
  /\ s.tcp # "syn_sent" => t.tcp # "syn_sent"
  /\ s.tcp = "none" => t.tcp = "none"
  /\ taken + t.queued - t.answered = s.queued - s.answered

LEMMA SocketFields ==
  ASSUME NEW s \in Socket
  PROVE  /\ s.tcp \in TcpStates /\ s.error \in BOOLEAN
         /\ s.queued \in 0 .. RESPONSE_LENGTH /\ s.answered \in 0 .. RESPONSE_LENGTH
         /\ s.queued \in Int /\ s.answered \in Int
  BY TcpSocketAssumption DEF Socket

(* The updates the model makes of a record, one field at a time. *)
LEMMA StateUpdate ==
  ASSUME NEW s \in Socket, NEW x \in TcpStates, NEW t, t = [s EXCEPT !.tcp = x]
  PROVE  /\ t \in Socket
         /\ t.tcp = x /\ t.error = s.error /\ t.queued = s.queued /\ t.answered = s.answered
  BY DEF Socket

LEMMA ErrorUpdate ==
  ASSUME NEW s \in Socket, NEW e \in BOOLEAN, NEW t, t = [s EXCEPT !.error = e]
  PROVE  /\ t \in Socket
         /\ t.tcp = s.tcp /\ t.error = e /\ t.queued = s.queued /\ t.answered = s.answered
  BY DEF Socket

LEMMA QueueUpdate ==
  ASSUME NEW s \in Socket, NEW q \in 0 .. RESPONSE_LENGTH, NEW t, t = [s EXCEPT !.queued = q]
  PROVE  /\ t \in Socket
         /\ t.tcp = s.tcp /\ t.error = s.error /\ t.queued = q /\ t.answered = s.answered
  BY DEF Socket

(* An arriving byte is queued and counted, a failure is left to be fetched. *)
LEMMA ArrivalUpdate ==
  ASSUME NEW s \in Socket, s.queued <= s.answered, NEW t \in Arrival(s)
  PROVE  /\ t \in Socket /\ t.tcp = s.tcp /\ t.error = s.error
         /\ t.queued - t.answered = s.queued - s.answered
<1>1. PICK n \in 1 .. RESPONSE_LENGTH - s.answered :
        t = [s EXCEPT !.queued = s.queued + n, !.answered = s.answered + n]
  BY DEF Arrival, Socket
<1>2. n \in Int /\ s.queued + n \in 0 .. RESPONSE_LENGTH /\ s.answered + n \in 0 .. RESPONSE_LENGTH
  BY s.queued <= s.answered, SocketFields, TcpSocketAssumption
<1>3. /\ t \in Socket /\ t.tcp = s.tcp /\ t.error = s.error
      /\ t.queued = s.queued + n /\ t.answered = s.answered + n
  BY <1>1, <1>2 DEF Socket
<1> QED
  BY <1>2, <1>3, SocketFields

LEMMA FailureUpdate ==
  ASSUME NEW s \in Socket, NEW t \in Refusal(s) \cup Reset(s)
  PROVE  /\ t \in Socket /\ t.tcp \in {"refused", "reset"} /\ s.tcp # "none"
         /\ PeerFaults # {}
         /\ t.queued = s.queued /\ t.answered = s.answered
  BY DEF Refusal, Reset, Socket, TcpStates

(* connect starts with nothing received. *)
LEMMA ConnectingSocket ==
  /\ Connecting \in Socket /\ Connecting.tcp = "syn_sent" /\ ~ Connecting.error
  /\ Connecting.queued = 0 /\ Connecting.answered = 0
<1>1. PICK s : s = NoSocket
  OBVIOUS
<1>2. /\ s \in Socket /\ "syn_sent" \in TcpStates
      /\ ~ s.error /\ s.queued = 0 /\ s.answered = 0
  BY <1>1, TcpSocketAssumption DEF NoSocket, Socket, TcpStates
<1>3. Connecting = [s EXCEPT !.tcp = "syn_sent"]
  BY <1>1 DEF Connecting
<1> QED
  BY <1>2, <1>3, StateUpdate

(* A client that is Disconnected is Connecting to a new socket, or as it    *)
(* was, when there is no descriptor or no route.                            *)
LEMMA StartOutcome ==
  ASSUME NEW c, NEW left, conn[c] = "Disconnected", tcp_client_connect(c, left)
  PROVE  \/ /\ left
            /\ conn' = [conn EXCEPT ![c] = "Connecting"]
            /\ sock' = [sock EXCEPT ![c] = Connecting]
         \/ /\ left => "no_route" \in PeerFaults
            /\ UNCHANGED <<conn, sock>>
  BY DEF tcp_client_connect, tcp_socket_create_and_start_connecting_to_ip

LEMMA FollowsItself ==
  ASSUME NEW s, Sane(s)
  PROVE  Follows(s, s, 0)
  BY SocketFields DEF Follows, Sane

LEMMA FollowsOn ==
  ASSUME NEW s, NEW t, NEW u, NEW n \in Int, Sane(s), Follows(s, t, 0), Follows(t, u, n)
  PROVE  Follows(s, u, n)
<1>1. s \in Socket /\ t \in Socket /\ u \in Socket
  BY DEF Follows, Sane
<1> QED
  BY <1>1, SocketFields DEF Follows

(* What the network may do to a connection. *)
LEMMA NetworkFollows ==
  ASSUME NEW s, Sane(s), s.queued <= s.answered, NEW t \in NetworkSteps(s)
  PROVE  Follows(s, t, 0)
<1>1. s \in Socket
  BY DEF Sane
<1>2. CASE t \in Handshake(s)
  <2>1. s.tcp = "syn_sent" /\ t = [s EXCEPT !.tcp = "established"]
    BY <1>2 DEF Handshake
  <2> QED
    BY <1>1, <2>1, StateUpdate, SocketFields DEF TcpStates, Follows, Sane, IsDead
<1>3. CASE t \in Arrival(s)
  <2>1. t \in Socket
    BY <1>1, <1>3, ArrivalUpdate
  <2>2. t.queued \in Int /\ t.answered \in Int /\ 0 + t.queued - t.answered = s.queued - s.answered
    BY <1>1, <1>3, <2>1, ArrivalUpdate, SocketFields
  <2> QED
    BY <1>1, <1>3, <2>1, <2>2, ArrivalUpdate DEF Follows, Sane, IsDead
<1>4. CASE t \in Close(s)
  <2>1. s.tcp = "established" /\ t = [s EXCEPT !.tcp = "fin_received"]
    BY <1>4 DEF Close
  <2> QED
    BY <1>1, <2>1, StateUpdate, SocketFields DEF TcpStates, Follows, Sane, IsDead
<1>5. CASE t \in Refusal(s) \cup Reset(s)
  BY <1>1, <1>5, FailureUpdate, SocketFields DEF Follows, Sane, IsDead
<1> QED
  BY <1>2, <1>3, <1>4, <1>5 DEF NetworkSteps

LEMMA MeanwhileFollows ==
  ASSUME NEW s, Sane(s), s.queued <= s.answered, NEW t \in Meanwhile(s)
  PROVE  Follows(s, t, 0) /\ t.queued <= t.answered
<1>1. Follows(s, t, 0)
  BY NetworkFollows, FollowsItself DEF Meanwhile
<1>2. t \in Socket /\ s \in Socket
  BY <1>1 DEF Follows, Sane
<1> QED
  BY <1>1, <1>2, SocketFields DEF Follows

-----------------------------------------------------------------------------
(* tcp_socket_connected answers false for a connection that has failed, and *)
(* for one that is still being set up, and for no other.                    *)
LEMMA ConnectedOutcomes ==
  ASSUME NEW s, Sane(s), s.queued <= s.answered, NEW c \in tcp_socket_connected(s)
  PROVE  /\ c.connected \in BOOLEAN
         /\ Follows(s, c.socket, 0) /\ c.socket.queued <= c.socket.answered
         /\ c.connected => c.socket.tcp # "syn_sent"
         /\ ~ c.connected => IsDead(s) \/ s.tcp = "syn_sent"
<1>1. CASE s.error
  <2>0. PICK u : u = [s EXCEPT !.error = FALSE]
    OBVIOUS
  <2>1. c = [connected |-> FALSE, socket |-> u]
    BY <1>1, <2>0 DEF tcp_socket_connected
  <2>2. s \in Socket /\ IsDead(s)
    BY <1>1 DEF Sane
  <2>3. /\ u \in Socket /\ ~ u.error
        /\ u.tcp = s.tcp /\ u.queued = s.queued /\ u.answered = s.answered
    BY <2>0, <2>2, ErrorUpdate
  <2>4. Follows(s, u, 0)
    BY <2>2, <2>3, SocketFields DEF Follows, Sane, IsDead
  <2>5. c.connected \in BOOLEAN /\ ~ c.connected /\ c.socket = u
    BY <2>1
  <2> QED
    BY <2>2, <2>3, <2>4, <2>5
<1>2. CASE ~ s.error
  <2>1. PICK t \in Meanwhile(s) : c = [connected |-> PollsOut(t), socket |-> t]
    BY <1>2 DEF tcp_socket_connected
  <2>2. Follows(s, t, 0) /\ t.queued <= t.answered
    BY MeanwhileFollows
  <2>3. c.connected = (t.tcp # "syn_sent") /\ c.socket = t
    BY <2>1 DEF PollsOut
  <2> QED
    BY <2>2, <2>3 DEF Follows
<1> QED
  BY <1>1, <1>2

LEMMA OutcomeFields ==
  ASSUME NEW result, NEW n, NEW t
  PROVE  /\ Outcome(result, n, t).result = result
         /\ Outcome(result, n, t).bytes = n
         /\ Outcome(result, n, t).socket = t
  BY DEF Outcome

(* A send either takes some of the bytes or finds the connection lost. *)
LEMMA SendOutcomes ==
  ASSUME NEW s, Sane(s), s.queued <= s.answered, s.tcp # "syn_sent",
         NEW n \in Nat \ {0}, NEW o \in tcp_socket_send(s, n)
  PROVE  /\ o.result \in {"OK", "Not_Connected", "SIGPIPE", "send_failed"}
         /\ Follows(s, o.socket, 0)
         /\ o.result = "OK" => o.bytes \in 1 .. n
         /\ o.result # "OK" => IsDead(o.socket)
<1>1. PICK c \in tcp_socket_connected(s) :
        o \in IF ~ c.connected THEN {Outcome("Not_Connected", 0, c.socket)}
              ELSE UNION {SendCall(t, n) : t \in Meanwhile(c.socket)}
  BY DEF tcp_socket_send
<1>2. /\ Follows(s, c.socket, 0) /\ c.socket.queued <= c.socket.answered
      /\ ~ c.connected => IsDead(s)
  BY ConnectedOutcomes
<1>3. CASE ~ c.connected
  <2>1. o.result = "Not_Connected" /\ o.socket = c.socket
    BY <1>1, <1>3 DEF Outcome
  <2> QED
    BY <1>2, <1>3, <2>1 DEF Follows
<1>4. CASE c.connected
  <2>1. PICK t \in Meanwhile(c.socket) : o \in SendCall(t, n)
    BY <1>1, <1>4
  <2>2. Follows(c.socket, t, 0)
    BY <1>2, MeanwhileFollows DEF Follows
  <2>3. Follows(s, t, 0)
    BY <1>2, <2>2, FollowsOn
  <2>4. CASE ~ IsDead(t)
    <3>1. PICK m \in 1 .. n : o = Outcome("OK", m, t)
      BY <2>1, <2>4 DEF SendCall
    <3> QED
      BY <2>3, <3>1 DEF Outcome
  <2>5. CASE IsDead(t)
    <3>1. PICK cause \in {"SIGPIPE", "send_failed"} : o = Outcome(cause, 0, t)
      BY <2>1, <2>5 DEF SendCall
    <3> QED
      BY <2>3, <2>5, <3>1 DEF Outcome
  <2> QED
    BY <2>4, <2>5
<1> QED
  BY <1>3, <1>4

(* recv hands out what is queued, up to the size of the buffer, before the  *)
(* error of a failed connection.                                            *)
LEMMA RecvOutcome ==
  ASSUME NEW s, Sane(s), NEW o, o = RecvCall(s)
  PROVE  /\ o.result \in {"OK", "recv_failed"}
         /\ o.bytes \in 0 .. s.queued
         /\ Follows(s, o.socket, o.bytes)
         /\ o.result # "OK" => o.bytes = 0 /\ IsDead(o.socket)
<1> USE TcpSocketAssumption
<1>1. s \in Socket
  BY DEF Sane
<1>2. CASE s.queued > 0
  <2> DEFINE n == IF s.queued < BUFFER_SIZE THEN s.queued ELSE BUFFER_SIZE
  <2>1. n \in 1 .. s.queued /\ n \in Int /\ s.queued - n \in 0 .. RESPONSE_LENGTH
    BY <1>1, <1>2, SocketFields
  <2>2. o = Outcome("OK", n, [s EXCEPT !.queued = s.queued - n])
    BY <1>1, <1>2 DEF RecvCall, Socket
  <2>3. o.result = "OK" /\ o.bytes = n /\ o.socket = [s EXCEPT !.queued = s.queued - n]
    BY <2>2 DEF Outcome
  <2> HIDE DEF n
  <2>4. /\ o.socket \in Socket /\ o.socket.tcp = s.tcp /\ o.socket.error = s.error
        /\ o.socket.queued = s.queued - n /\ o.socket.answered = s.answered
    BY <1>1, <2>1, <2>3, QueueUpdate
  <2>5. n + o.socket.queued - o.socket.answered = s.queued - s.answered
    BY <1>1, <2>1, <2>4, SocketFields
  <2> QED
    BY <1>1, <2>1, <2>3, <2>4, <2>5, SocketFields DEF Follows, Sane, IsDead
<1>3. CASE ~ (s.queued > 0) /\ s.error
  <2>0. PICK u : u = [s EXCEPT !.error = FALSE]
    OBVIOUS
  <2>1. o = Outcome("recv_failed", 0, u)
    BY <1>3, <2>0 DEF RecvCall
  <2>2. /\ u \in Socket /\ ~ u.error
        /\ u.tcp = s.tcp /\ u.queued = s.queued /\ u.answered = s.answered
    BY <1>1, <2>0, ErrorUpdate
  <2>3. o.result = "recv_failed" /\ o.bytes = 0 /\ o.socket = u
    BY <2>1, OutcomeFields
  <2>4. IsDead(s) /\ 0 \in 0 .. s.queued
    BY <1>1, <1>3, SocketFields DEF Sane
  <2>5. Follows(s, u, 0) /\ IsDead(u)
    BY <1>1, <2>2, <2>4, SocketFields DEF Follows, Sane, IsDead
  <2> QED
    BY <2>3, <2>4, <2>5
<1>4. CASE ~ (s.queued > 0) /\ ~ s.error
  <2>1. o.result = "OK" /\ o.bytes = 0 /\ o.socket = s
    BY <1>4 DEF RecvCall, Outcome
  <2> QED
    BY <1>1, <2>1, FollowsItself, SocketFields
<1> QED
  BY <1>2, <1>3, <1>4

(* No outcome of tcp_socket_receive loses bytes: what leaves the queue is   *)
(* handed out, and an outcome that is no bytes takes none.                  *)
LEMMA ReceiveOutcomes ==
  ASSUME NEW s, Sane(s), s.queued <= s.answered, s.tcp # "syn_sent",
         NEW o \in tcp_socket_receive(s)
  PROVE  /\ o.result \in {"OK", "Not_Ready", "Not_Connected", "recv_failed"}
         /\ o.bytes \in 0 .. RESPONSE_LENGTH
         /\ Follows(s, o.socket, o.bytes)
         /\ o.result # "OK" => o.bytes = 0
         /\ o.result \in {"Not_Connected", "recv_failed"} => IsDead(o.socket)
<1> USE TcpSocketAssumption
<1>1. PICK c \in tcp_socket_connected(s) :
        o \in IF ~ c.connected THEN {Outcome("Not_Connected", 0, c.socket)}
              ELSE {IF PollsIn(t) THEN RecvCall(t) ELSE Outcome("Not_Ready", 0, t)
                    : t \in Meanwhile(c.socket)}
  BY DEF tcp_socket_receive
<1>2. /\ Follows(s, c.socket, 0) /\ c.socket.queued <= c.socket.answered
      /\ ~ c.connected => IsDead(s)
  BY ConnectedOutcomes
<1>3. CASE ~ c.connected
  <2>1. o.result = "Not_Connected" /\ o.bytes = 0 /\ o.socket = c.socket
    BY <1>1, <1>3 DEF Outcome
  <2> QED
    BY <1>2, <1>3, <2>1 DEF Follows
<1>4. CASE c.connected
  <2>1. PICK t \in Meanwhile(c.socket) :
          o = IF PollsIn(t) THEN RecvCall(t) ELSE Outcome("Not_Ready", 0, t)
    BY <1>1, <1>4
  <2>2. Follows(c.socket, t, 0)
    BY <1>2, MeanwhileFollows DEF Follows
  <2>3. Follows(s, t, 0) /\ t \in Socket /\ Sane(t)
    BY <1>2, <2>2, FollowsOn DEF Follows, Sane
  <2>4. CASE PollsIn(t)
    <3>1. /\ o.result \in {"OK", "recv_failed"}
          /\ o.bytes \in 0 .. t.queued
          /\ Follows(t, o.socket, o.bytes)
          /\ o.result # "OK" => o.bytes = 0 /\ IsDead(o.socket)
      BY <2>1, <2>3, <2>4, RecvOutcome
    <3>2. t.queued \in 0 .. RESPONSE_LENGTH
      BY <2>3, SocketFields
    <3>3. o.bytes \in 0 .. t.queued
      BY <3>1
    <3>4. o.bytes \in 0 .. RESPONSE_LENGTH /\ o.bytes \in Int
      BY <3>2, <3>3
    <3> QED
      BY <2>3, <3>1, <3>4, FollowsOn
  <2>5. CASE ~ PollsIn(t)
    <3>1. o.result = "Not_Ready" /\ o.bytes = 0 /\ o.socket = t
      BY <2>1, <2>5 DEF Outcome
    <3> QED
      BY <2>3, <3>1
  <2> QED
    BY <2>4, <2>5
<1> QED
  BY <1>3, <1>4
=============================================================================
