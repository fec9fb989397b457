----------------------------- MODULE TcpSocket ------------------------------
(***************************************************************************)
(* The non-blocking sockets of src/tcp/tcp_socket.c over the kernel they   *)
(* talk to.  The kernel's half of a connection is a record; what the       *)
(* network may do to it is a set of successors; and each function of       *)
(* tcp_socket.c is the set of the outcomes its sequence of system calls    *)
(* can have, the network acting between any two of them.                   *)
(*                                                                         *)
(* The send buffer never fills: a request has fewer than 512 bytes.  A     *)
(* system call fails only for the reasons the connection gives it.         *)
(***************************************************************************)
EXTENDS Integers, FiniteSets

CONSTANTS
  PeerFaults,       \* what the peer may do wrong, a subset of AllFaults
  RESPONSE_LENGTH,  \* the bytes of a complete response
  BUFFER_SIZE       \* HTTP_CLIENT_RESPONSE_BUFFER_INITIAL_SIZE, the most one recv takes

AllFaults ==
  {"no_route",   \* connect fails at once
   "refuse",     \* the connection is refused or times out
   "early_fin",  \* the peer closes before it has sent all of its response
   "reset"}      \* the peer resets an open connection

ASSUME TcpSocketAssumption ==
  /\ PeerFaults \subseteq AllFaults
  /\ RESPONSE_LENGTH \in Nat \ {0}
  /\ BUFFER_SIZE \in Nat \ {0}

-----------------------------------------------------------------------------
(* The kernel's record of a connection.                                     *)
(*   tcp       where the connection is                                      *)
(*   error     SO_ERROR holds an error nobody has fetched                   *)
(*   queued    bytes received and not yet read                              *)
(*   answered  bytes of the response that have arrived in all               *)
TcpStates == {"none", "syn_sent", "established", "fin_received", "refused", "reset"}
Socket == [tcp : TcpStates, error : BOOLEAN, queued : 0 .. RESPONSE_LENGTH,
           answered : 0 .. RESPONSE_LENGTH]

NoSocket == [tcp |-> "none", error |-> FALSE, queued |-> 0, answered |-> 0]
Connecting == [NoSocket EXCEPT !.tcp = "syn_sent"]
IsOpen(s) == s.tcp # "none"
IsDead(s) == s.tcp \in {"refused", "reset"}

Handshake(s) == IF s.tcp = "syn_sent" THEN {[s EXCEPT !.tcp = "established"]} ELSE {}

Arrival(s) ==
  IF s.tcp = "established"
  THEN {[s EXCEPT !.queued = @ + n, !.answered = @ + n] : n \in 1 .. RESPONSE_LENGTH - s.answered}
  ELSE {}

(* The peer may close once its response is complete; before, it is a fault. *)
Close(s) ==
  IF /\ s.tcp = "established"
     /\ s.answered = RESPONSE_LENGTH \/ "early_fin" \in PeerFaults
  THEN {[s EXCEPT !.tcp = "fin_received"]} ELSE {}

Refusal(s) ==
  IF "refuse" \in PeerFaults /\ s.tcp = "syn_sent"
  THEN {[s EXCEPT !.tcp = "refused", !.error = TRUE]} ELSE {}

Reset(s) ==
  IF "reset" \in PeerFaults /\ s.tcp \in {"established", "fin_received"}
  THEN {[s EXCEPT !.tcp = "reset", !.error = TRUE]} ELSE {}

NetworkSteps(s) == Handshake(s) \cup Arrival(s) \cup Close(s) \cup Refusal(s) \cup Reset(s)

(* The network between two system calls of one function. *)
Meanwhile(s) == {s} \cup NetworkSteps(s)

(* poll: a connection that has failed is both writable and readable, and so *)
(* is one whose peer has closed, without anything to read.                  *)
PollsOut(s) == s.tcp # "syn_sent"
PollsIn(s) == s.queued > 0 \/ s.tcp \in {"fin_received", "refused", "reset"}

-----------------------------------------------------------------------------
(* socket and setsockopt, for which a descriptor must be left, and connect, *)
(* which is in progress or fails at once.  What failed leaves no socket.    *)
tcp_socket_create_and_start_connecting_to_ip(descriptor_left) ==
  IF ~ descriptor_left THEN {[result |-> "Failed_To_Create", socket |-> NoSocket]}
  ELSE {[result |-> "OK", socket |-> Connecting]} \cup
       (IF "no_route" \in PeerFaults
        THEN {[result |-> "Failed_To_Connect", socket |-> NoSocket]} ELSE {})

(* tcp_socket_connected fetches SO_ERROR, which clears it, and only when    *)
(* there was none asks poll whether the socket is writable.                 *)
tcp_socket_connected(s) ==
  IF s.error
  THEN {[connected |-> FALSE, socket |-> [s EXCEPT !.error = FALSE]]}
  ELSE {[connected |-> PollsOut(t), socket |-> t] : t \in Meanwhile(s)}

Outcome(result, n, s) == [result |-> result, bytes |-> n, socket |-> s]

(* The send call on a socket poll found writable.  A failed connection      *)
(* raises SIGPIPE; while nobody has fetched its error it may give that      *)
(* instead, which the code answers with assert(false).                      *)
SendCall(s, n) ==
  IF ~ IsDead(s) THEN {Outcome("OK", m, s) : m \in 1 .. n}
  ELSE {Outcome(cause, 0, s) : cause \in IF s.error THEN {"SIGPIPE", "send_failed"}
                                         ELSE {"SIGPIPE"}}

(* connected, the second poll for writing (which a socket that was writable *)
(* passes again), then send.                                                *)
tcp_socket_send(s, n) ==
  UNION { IF ~ c.connected THEN {Outcome("Not_Connected", 0, c.socket)}
          ELSE UNION {SendCall(t, n) : t \in Meanwhile(c.socket)}
        : c \in tcp_socket_connected(s)}

(* The recv call on a socket poll found readable: what is queued comes      *)
(* first, then the error, then 0 for the end of the stream.                 *)
RecvCall(s) ==
  IF s.queued > 0
  THEN LET n == IF s.queued < BUFFER_SIZE THEN s.queued ELSE BUFFER_SIZE
       IN  Outcome("OK", n, [s EXCEPT !.queued = @ - n])
  ELSE IF s.error THEN Outcome("recv_failed", 0, [s EXCEPT !.error = FALSE])
       ELSE Outcome("OK", 0, s)

tcp_socket_receive(s) ==
  UNION { IF ~ c.connected THEN {Outcome("Not_Connected", 0, c.socket)}
          ELSE {IF PollsIn(t) THEN RecvCall(t) ELSE Outcome("Not_Ready", 0, t)
                : t \in Meanwhile(c.socket)}
        : c \in tcp_socket_connected(s)}
=============================================================================
