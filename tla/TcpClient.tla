----------------------------- MODULE TcpClient ------------------------------
(***************************************************************************)
(* The TCP client of src/tcp/client/tcp_client.c: the connection state a   *)
(* request keeps beside its socket.  The process ends when an assertion    *)
(* fails or SIGPIPE arrives: fate then names the cause, and nothing in the *)
(* process happens any more.                                               *)
(***************************************************************************)
EXTENDS TcpSocket

CONSTANT
  Clients   \* the TCP_Client structs, one in each request's context

VARIABLES
  conn,  \* TCP_Client.connection_state, by client
  sock,  \* the kernel's connection behind TCP_Client.socket, by client
  fate   \* "running", or what ended the process

tcpVars == <<conn, sock, fate>>

ConnectionStates == {"Disconnected", "Connecting", "Connected", "Disconnecting"}

TcpInit ==
  /\ conn = [c \in Clients |-> "Disconnected"]
  /\ sock = [c \in Clients |-> NoSocket]
  /\ fate = "running"

Running == fate = "running"
Abort(cause) == fate' = cause

(* A network event that the process takes no part in. *)
Network(c, steps) ==
  /\ Running
  /\ \E s \in steps : sock' = [sock EXCEPT ![c] = s]
  /\ UNCHANGED <<conn, fate>>

(* The assertion of line 5, then the socket.  A client that failed stays    *)
(* Disconnected.                                                            *)
tcp_client_connect(c, descriptor_left) ==
  IF conn[c] # "Disconnected"
  THEN Abort("tcp_client_connect") /\ UNCHANGED <<conn, sock>>
  ELSE /\ \E o \in tcp_socket_create_and_start_connecting_to_ip(descriptor_left) :
            IF o.result = "OK"
            THEN /\ conn' = [conn EXCEPT ![c] = "Connecting"]
                 /\ sock' = [sock EXCEPT ![c] = o.socket]
            ELSE UNCHANGED <<conn, sock>>
       /\ UNCHANGED fate

(* Seeded fault: the state is not changed. *)
tcp_client_disconnect_forgetful(c) ==
  /\ IF conn[c] = "Connected" THEN UNCHANGED fate ELSE Abort("tcp_client_disconnect")
  /\ UNCHANGED <<conn, sock>>

(* The assertion of line 27.  The socket stays open. *)
tcp_client_disconnect(c) ==
  /\ IF conn[c] = "Connected"
     THEN conn' = [conn EXCEPT ![c] = "Disconnecting"] /\ UNCHANGED fate
     ELSE Abort("tcp_client_disconnect") /\ UNCHANGED conn
  /\ UNCHANGED sock

(* Seeded faults: a connection being set up is given up when it is not yet  *)
(* ready; the answer is not looked at.                                      *)
AfterWorkImpatient(state, connected) ==
  IF connected THEN "Connected" ELSE "Disconnecting"
AfterWorkHasty(state, connected) == "Connected"

(* What tcp_client_work makes of an open connection's state. *)
AfterWork(state, connected) ==
  IF connected THEN "Connected"
  ELSE IF state = "Connected" THEN "Disconnecting" ELSE state

(* The Disconnecting case asserts false before it closes the socket. *)
tcp_client_work(c) ==
  CASE conn[c] = "Disconnected" -> UNCHANGED tcpVars
    [] conn[c] \in {"Connecting", "Connected"} ->
         /\ \E o \in tcp_socket_connected(sock[c]) :
              /\ sock' = [sock EXCEPT ![c] = o.socket]
              /\ conn' = [conn EXCEPT ![c] = AfterWork(@, o.connected)]
         /\ UNCHANGED fate
    [] conn[c] = "Disconnecting" -> Abort("tcp_client_work") /\ UNCHANGED <<conn, sock>>
=============================================================================
