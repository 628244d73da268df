------------------------------ MODULE Sockets ------------------------------
(***************************************************************************)
(* Setting up a connection (nova_serversocket_start, _accept and           *)
(* nova_clientsocket_connect, POSIX build) and the messages of             *)
(* SocketChannel on it.                                                    *)
(*                                                                         *)
(* The set-up calls return a descriptor, and 0 for a failure.  A failing   *)
(* call leaves its socket open, and 0 is also a descriptor, if the program *)
(* was started without a standard input: that socket is taken for a        *)
(* failure.  What is lost so stays in the table, and its port stays bound. *)
(*                                                                         *)
(* One server program and one client program, whose standard library calls *)
(* (external) try again after a failure, and the first connection they get.*)
(***************************************************************************)
EXTENDS SocketChannel

CONSTANTS
  Table,       \* the descriptors a program can have
  MaxFaults    \* bound: calls of the system that fail for reasons of its own

ASSUME SocketsAssumption == Table \subseteq Nat /\ 0 \in Table /\ MaxFaults \in Nat

VARIABLES
  fds,         \* what each descriptor of the server and of the client is
  handle,      \* the descriptors that the programs hold: 0 is none
  pending,     \* the connections that wait to be accepted
  faults

setup == <<fds, handle, pending, faults>>

Side == {"server", "client"}

SocketsInit ==
  /\ Init
  /\ \E stdin \in {"free", "file"} :
       fds = [s \in Side |-> [fd \in Table |-> IF fd = 0 THEN stdin ELSE "free"]]
  /\ handle = [listening |-> 0, accepted |-> 0, connected |-> 0]
  /\ pending = << >> /\ faults = 0

-----------------------------------------------------------------------------
Free(s) == {fd \in Table : fds[s][fd] = "free"}

Full(s) == Free(s) = {}

(* The system gives out the lowest free descriptor.                        *)
Lowest(s) == CHOOSE fd \in Free(s) : \A other \in Free(s) : fd <= other

On(kinds) == {fd \in Table : fds["server"][fd] \in kinds}

PortBound == On({"bound", "listening"}) # {}

Fault == faults < MaxFaults /\ faults' = faults + 1

(* A call of side s opens its lowest descriptor as kind, and its result is *)
(* kept under name.                                                        *)
Opens(s, kind, name, result) ==
  /\ ~Full(s)
  /\ fds' = [fds EXCEPT ![s][Lowest(s)] = kind]
  /\ handle' = [handle EXCEPT ![name] = result]

(* nova_serversocket_start: socket, bind and listen; errno is cleared      *)
(* before bind, so that it tells of bind only.                             *)
nova_serversocket_start ==
  /\ handle.listening = 0 /\ receiver # "closed"
  /\ \/ Full("server") /\ UNCHANGED <<fds, handle, faults>>
     \/ PortBound /\ Opens("server", "socket", "listening", 0) /\ UNCHANGED faults
     \/ /\ ~PortBound
        /\ \/ Fault /\ Opens("server", "socket", "listening", 0)    \* bind fails
           \/ Fault /\ Opens("server", "bound", "listening", 0)     \* listen fails
           \/ /\ Opens("server", "listening", "listening", Lowest("server"))
              /\ UNCHANGED faults
  /\ UNCHANGED <<vars, pending>>

(* Mutant: the result of connect is not looked at.                         *)
Refused_Unchecked(fd) == fd

(* The result of nova_clientsocket_connect when connect fails on fd.       *)
Refused(fd) == 0

(* nova_clientsocket_connect: it is connected before the server accepts.   *)
nova_clientsocket_connect ==
  /\ handle.connected = 0 /\ open
  /\ \/ Full("client") /\ UNCHANGED <<fds, handle, pending, faults>>
     \/ /\ Opens("client", "socket", "connected", Refused(Lowest("client")))
        /\ \/ On({"listening"}) = {} /\ UNCHANGED faults
           \/ On({"listening"}) # {} /\ Fault
        /\ UNCHANGED pending
     \/ /\ On({"listening"}) # {}
        /\ Opens("client", "connection", "connected", Lowest("client"))
        /\ pending' = Append(pending, IF Lowest("client") = 0 THEN "orphan" ELSE "connection")
        /\ UNCHANGED faults
  /\ UNCHANGED vars

(* nova_serversocket_accept: without a descriptor the connection goes on   *)
(* waiting.                                                                *)
nova_serversocket_accept ==
  /\ handle.listening # 0 /\ handle.accepted = 0 /\ receiver # "closed"
  /\ pending # << >>
  /\ \/ Full("server") /\ UNCHANGED <<fds, handle, pending>>
     \/ /\ Opens("server", Head(pending), "accepted", Lowest("server"))
        /\ pending' = Tail(pending)
  /\ UNCHANGED <<vars, faults>>

(* nova_socket_close of the descriptor under name.                         *)
nova_socket_close(s, name) ==
  /\ handle[name] # 0
  /\ fds' = [fds EXCEPT ![s][handle[name]] = "free"]
  /\ handle' = [handle EXCEPT ![name] = 0]
  /\ UNCHANGED <<pending, faults>>

(* The client closes when it likes, the server at the end of the messages. *)
ClientCloses == nova_socket_close("client", "connected") /\ Close

ServerCloses ==
  /\ receiver = "closed" /\ UNCHANGED vars
  /\ \E name \in {"accepted", "listening"} : nova_socket_close("server", name)

-----------------------------------------------------------------------------
Connected == handle.connected # 0 /\ fds["client"][handle.connected] = "connection"

Accepted == handle.accepted # 0 /\ fds["server"][handle.accepted] = "connection"

Sends == Connected /\ (\E len \in Lengths : Send(len)) /\ UNCHANGED setup

Receives ==
  Accepted /\ (Receive \/ ReadNothing \/ Read) /\ UNCHANGED setup

(* The server is done, or it waits in accept, or on a connection that its  *)
(* client has lost.                                                        *)
Rests ==
  /\ \/ Stopped
     \/ handle.accepted = 0 /\ pending = << >>
     \/ "orphan" \in {fds["server"][fd] : fd \in Table}
  /\ UNCHANGED <<vars, setup>>

SocketsNext ==
  \/ nova_serversocket_start \/ nova_clientsocket_connect \/ nova_serversocket_accept
  \/ ClientCloses \/ ServerCloses
  \/ Sends \/ Receives \/ Rests

(* Both programs call again and again, and the server's reads return.      *)
SocketsSpec ==
  /\ SocketsInit /\ [][SocketsNext]_<<vars, setup>>
  /\ WF_<<vars, setup>>(nova_serversocket_start)
  /\ WF_<<vars, setup>>(nova_clientsocket_connect)
  /\ WF_<<vars, setup>>(nova_serversocket_accept)
  /\ WF_<<vars, setup>>(Receives)

-----------------------------------------------------------------------------
(* The programs hold what they think they hold: a result other than 0 of   *)
(* start, connect or accept is a listening or connected socket until it is *)
(* closed, and all of those are held, but for one that got descriptor 0 and*)
(* was taken for a failure.                                                *)
HandlesAreSockets ==
  LET Held(s, names) == {<<s, handle[n]>> : n \in names} \ {<<s, 0>>}
      Good(s, kinds) == {<<s, fd>> : fd \in {f \in Table \ {0} : fds[s][f] \in kinds}}
  IN  /\ Held("server", {"listening"}) = Good("server", {"listening"})
      /\ Held("server", {"accepted"}) = Good("server", {"connection", "orphan"})
      /\ Held("client", {"connected"}) = Good("client", {"connection"})

(* What a failure can take away for good: the port, which a socket nobody  *)
(* holds is bound to; the server's turn, by a connection that the client   *)
(* has lost; the client's descriptors, by trying before the server listens.*)
ServerLost ==
  \/ handle.listening = 0 /\ PortBound
  \/ fds["client"][0] = "connection"

(* A client that tries again after a failure gets through to a server that *)
(* does the same, unless something is lost for good; the server has room   *)
(* for what failures leave open.                                           *)
GetsThrough == <>(Accepted \/ ServerLost \/ Full("client"))

(* What the client has sent arrives, whether it was sent before or after   *)
(* the server accepted the connection, if the reads stay intact.           *)
AllArrive ==
  []intact => \A m \in 1..MaxMessages :
    (Len(sent) >= m) ~> (Len(results) >= m \/ ServerLost)

=============================================================================
