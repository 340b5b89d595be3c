---- MODULE Servers ----
(***************************************************************************)
(* The small servers: src/Networking/HTTPServer.cpp, SSL_TCPServer.cpp,    *)
(* UDPEchoServerClient.cpp and the servers of Networking.cpp,              *)
(* src/Beast/http/HTTPServer.cpp, src/Asio/Coroutines/CoroutineApps.cpp    *)
(* and the daytime server of src/Asio/Experiments/Experiments.cpp.         *)
(*                                                                         *)
(* A TCP server of these is an accept loop and the operations it performs  *)
(* on a connection, one connection at a time or all of them at once.  They *)
(* differ in what an error does: it ends the session, the listener, the    *)
(* server or the process.  A server is therefore a table (Server).  An     *)
(* operation and the statements up to the next one are one action: nothing *)
(* else touches the session in between.  A client may end its connection   *)
(* at any time, or stay and send what is no request or no TLS ("garbled"). *)
(* The UDP server has one socket, one buffer and one endpoint for all      *)
(* clients, and actions of its own.                                        *)
(***************************************************************************)
EXTENDS Integers, Sequences, FiniteSets, SequencesExt

CONSTANTS Clients,
          MaxMsgs      \* bound: messages a client sends

ASSUME BoundAssumption == MaxMsgs \in Nat

VARIABLES
    prog,       \* the server that runs
    up,         \* "up", or how it ended: "ended", "terminated" (std::terminate)
    listening,  \* there is an acceptor
    failed,     \* an accept has failed
    stopping,   \* stop() was called, or the signal came
    late,       \* history: connections accepted after that
    queue,      \* connections that wait for an accept
    at,         \* the operation of a session, 0 before, Gone after
    buf,        \* what a session has read and not written
    conn,       \* the network, for each client
    udp         \* ServerAsync: the operation, senderEndpoint, data

vars == <<prog, up, listening, failed, stopping, late, queue, at, buf, conn, udp>>

server  == <<prog, up, listening, failed, stopping, late>>
Gone    == -1

(* The tables.  Op(o, e): the operation, and what its error does.          *)

Op(o, e) == [op |-> o, error |-> e]

\* Serves one connection and then the next
Sequential(onAccept, steps) ==
    [many |-> FALSE, onAccept |-> onAccept, steps |-> steps, again |-> 0,
     echo |-> FALSE, runs |-> TRUE, once |-> FALSE]

\* Accepts on while its sessions live; a session goes back to its read.
Concurrent(onAccept, steps, again) ==
    [many |-> TRUE, onAccept |-> onAccept, steps |-> steps, again |-> again,
     echo |-> TRUE, runs |-> TRUE, once |-> FALSE]

\* One try block around the loop: any exception ends it, that of http::read for a
\* malformed or oversized request included.
HttpServer ==
    Sequential("ended", <<Op("read", "ended"), Op("write", "ended"),
                          Op("shutdown", "ended")>>)

BeastHttpServer == HttpServer

\* The error of the write is ignored, that of accept() is not.
Daytime == Sequential("ended", <<Op("write", "session")>>)

\* remote_endpoint() throws when the client has reset the connection.
DaytimeEndpoint ==
    Sequential("ended", <<Op("endpoint", "ended"), Op("write", "session")>>)

\* Every error deletes the session, and with it the one that was made for a failed
\* accept: its destructor calls shutdown(), which throws unless the client has closed
\* the stream in an orderly way.
Ssl1 ==
    Concurrent("terminated", <<Op("handshake", "delete"), Op("read", "delete"),
                               Op("write", "delete")>>, 2)

\* Accepts one connection and returns.  What accept() throws is not what it catches.
AcceptConnections ==
    [Sequential("terminated", <<Op("leave", "ended")>>) EXCEPT !.once = TRUE]

\* mutant: handle_client does not catch
Ssl2_uncaught ==
    Sequential("terminated", <<Op("handshake", "terminated"), Op("read", "terminated"),
                               Op("write", "terminated")>>)

\* handle_client catches; accept() throws in a thread, where nobody does.
Ssl2 ==
    Sequential("terminated", <<Op("handshake", "session"), Op("read", "session"),
                               Op("write", "session")>>)

Echoes == <<Op("read", "session"), Op("write", "session")>>

\* Nobody calls run(): the coroutines are never resumed.
AcceptServer == [Concurrent("terminated", Echoes, 1) EXCEPT !.runs = FALSE]

\* The listener catches its own error and ends; the wait for the signal keeps
\* run() alive without it.
EchoServer_One == Concurrent("deaf", Echoes, 1)

\* The listener does not: its exception leaves run().
EchoServer_Refactor == Concurrent("ended", Echoes, 1)

Server ==
    [HttpServer |-> HttpServer, BeastHttpServer |-> BeastHttpServer,
     Daytime |-> Daytime, DaytimeEndpoint |-> DaytimeEndpoint,
     AcceptConnections |-> AcceptConnections, Ssl1 |-> Ssl1, Ssl2 |-> Ssl2,
     AcceptServer |-> AcceptServer, EchoServer_One |-> EchoServer_One,
     EchoServer_Refactor |-> EchoServer_Refactor]

Tcp     == prog \in DOMAIN Server
Prog    == Server[prog]
Tls     == prog \in {"Ssl1", "Ssl2"}
Parses  == Tls \/ prog \in {"HttpServer", "BeastHttpServer"}
Running == up = "up"
Open(c) == at[c] > 0
Step(c) == Prog.steps[at[c]]

\* The connection is whole in both directions.
Connected(c) == conn[c].peer \in {"up", "garbled"}

Init ==
    /\ prog \in DOMAIN Server \cup {"UdpEcho"}
    /\ up = "up"
    /\ listening = TRUE
    /\ failed = FALSE
    /\ stopping = FALSE
    /\ late = 0
    /\ queue = << >>
    /\ at = [c \in Clients |-> 0]
    /\ buf = [c \in Clients |-> << >>]
    /\ conn = [c \in Clients |-> [peer |-> "none", hello |-> FALSE, sent |-> 0,
                                  inb |-> << >>, out |-> << >>]]
    /\ udp = LET none == CHOOSE c \in Clients : TRUE
             IN  [op |-> "receive", sender |-> none, dest |-> none, data |-> <<none, 0>>]

(* The acceptor.                                                           *)

\* accept() waits, or async_accept is in progress.
Accepting == Tcp /\ Running /\ listening /\ (Prog.many \/ \A c \in Clients : ~Open(c))

\* mutant: the listener accepts one connection
AcceptOne_once ==
    /\ Accepting
    /\ queue # << >>
    /\ \A c \in Clients : at[c] = 0
    /\ at' = [at EXCEPT ![Head(queue)] = 1]
    /\ queue' = Tail(queue)
    /\ late' = IF stopping THEN late + 1 ELSE late
    /\ UNCHANGED <<prog, up, listening, failed, stopping, buf, conn, udp>>

AcceptOne ==
    /\ Accepting
    /\ queue # << >>
    /\ at' = [at EXCEPT ![Head(queue)] = 1]
    /\ queue' = Tail(queue)
    /\ late' = IF stopping THEN late + 1 ELSE late
    /\ UNCHANGED <<prog, up, listening, failed, stopping, buf, conn, udp>>

AcceptFails ==
    /\ Accepting
    /\ failed' = TRUE
    /\ IF Prog.onAccept = "deaf" THEN listening' = FALSE /\ UNCHANGED up
       ELSE up' = Prog.onAccept /\ UNCHANGED listening
    /\ UNCHANGED <<prog, stopping, late, queue, at, buf, conn, udp>>

\* Server::stop() of the TLS server sets a flag and joins the thread; the signal
\* handler of the coroutine servers stops the io_context at once.
Stop ==
    /\ Running /\ ~stopping
    /\ prog \in {"Ssl2", "EchoServer_One", "EchoServer_Refactor"}
    /\ stopping' = TRUE
    /\ up' = IF prog = "Ssl2" THEN up ELSE "ended"
    /\ UNCHANGED <<prog, listening, failed, late, queue, at, buf, conn, udp>>

(* A session.                                                              *)

\* run() of the TLS server looks at the flag between two connections.
Leaves(c) ==
    /\ at' = [at EXCEPT ![c] = Gone]
    /\ up' = IF Prog.once \/ (prog = "Ssl2" /\ stopping) THEN "ended" ELSE up

Continues(c) ==
    IF at[c] < Len(Prog.steps)
    THEN at' = [at EXCEPT ![c] = @ + 1] /\ UNCHANGED up
    ELSE IF Prog.again > 0
    THEN at' = [at EXCEPT ![c] = Prog.again] /\ UNCHANGED up
    ELSE Leaves(c)

At(c, o) == Tcp /\ Running /\ Prog.runs /\ Open(c) /\ Step(c).op = o

Handshake(c) ==
    /\ At(c, "handshake")
    /\ conn[c].hello
    /\ conn[c].peer # "reset"
    /\ Continues(c)
    /\ UNCHANGED <<buf, conn>>

\* read_some takes any part of what has arrived; a request is read alone.
Read(c) ==
    /\ At(c, "read")
    /\ conn[c].peer # "reset"
    /\ \E n \in 1..Len(conn[c].inb) :
          /\ n = 1 \/ Prog.echo
          /\ buf' = [buf EXCEPT ![c] = SubSeq(conn[c].inb, 1, n)]
          /\ conn' = [conn EXCEPT ![c].inb = SubSeq(@, n + 1, Len(@))]
    /\ Continues(c)

\* The answer is what was read, or a text of the server.  A client that has closed
\* its connection reads none of it.
Write(c) ==
    /\ At(c, "write")
    /\ conn[c].peer # "reset"
    /\ LET answer == IF Prog.echo THEN buf[c] ELSE <<<<c, 1>>>>
       IN  conn' = [conn EXCEPT ![c].out = IF Connected(c) THEN @ \o answer ELSE @]
    /\ buf' = [buf EXCEPT ![c] = << >>]
    /\ Continues(c)

\* remote_endpoint() and shutdown() of a connection that still exists, the return
\* from acceptConnections() with any
Other(c) ==
    /\ \/ (At(c, "endpoint") \/ At(c, "shutdown")) /\ conn[c].peer # "reset"
       \/ At(c, "leave")
    /\ Continues(c)
    /\ UNCHANGED <<buf, conn>>

\* A handshake or a read fails when nothing is left but the end of the stream or what
\* it cannot take, a write when the client reads no more.
Fails(c) ==
    \/ conn[c].peer = "reset" /\ ~At(c, "leave")
    \/ conn[c].peer # "up" /\ At(c, "handshake") /\ ~conn[c].hello
    \/ conn[c].peer # "up" /\ At(c, "read") /\ conn[c].inb = << >>
    \/ ~Connected(c) /\ At(c, "write")

SessionFails(c) ==
    /\ Tcp /\ Running /\ Prog.runs /\ Open(c)
    /\ Fails(c)
    /\ CASE Step(c).error = "session" -> Leaves(c)
         [] Step(c).error = "delete" ->
              /\ at' = [at EXCEPT ![c] = Gone]
              /\ up' = IF conn[c].peer = "closed" THEN up ELSE "terminated"
         [] OTHER -> at' = [at EXCEPT ![c] = Gone] /\ up' = Step(c).error
    /\ UNCHANGED <<buf, conn>>

Session(c) ==
    /\ Handshake(c) \/ Read(c) \/ Write(c) \/ Other(c) \/ SessionFails(c)
    /\ UNCHANGED <<prog, listening, failed, stopping, late, queue, udp>>

(* ServerAsync.  A receive is in progress, or a send.                      *)

\* Datagrams may overtake each other.
Datagrams(c) == DOMAIN conn[c].inb

\* mutant: the next receive is started before the send is complete
UdpReceive_early ==
    /\ prog = "UdpEcho"
    /\ \E c \in Clients : \E k \in Datagrams(c) :
          LET m == conn[c].inb[k]
          IN  /\ conn' = [conn EXCEPT ![c].inb = RemoveAt(@, k)]
              /\ udp' = [udp EXCEPT !.sender = c, !.data = m,
                                    !.dest = IF udp.op = "receive" THEN c ELSE @,
                                    !.op = IF m[2] > 0 THEN "send" ELSE @]
    /\ UNCHANGED <<server, queue, at, buf>>

\* Any datagram may arrive next.  An empty one is not answered.
UdpReceive ==
    /\ prog = "UdpEcho" /\ udp.op = "receive"
    /\ \E c \in Clients : \E k \in Datagrams(c) :
          LET m == conn[c].inb[k]
          IN  /\ conn' = [conn EXCEPT ![c].inb = RemoveAt(@, k)]
              /\ udp' = [udp EXCEPT !.sender = c, !.data = m,
                                    !.dest = IF m[2] > 0 THEN c ELSE @,
                                    !.op = IF m[2] > 0 THEN "send" ELSE @]
    /\ UNCHANGED <<server, queue, at, buf>>

\* The datagram goes to the endpoint of the time of the call, with what data holds
\* now; it may be lost, and an error is ignored.
UdpSend ==
    /\ prog = "UdpEcho" /\ udp.op = "send"
    /\ \/ conn' = [conn EXCEPT ![udp.dest].out = Append(@, udp.data)]
       \/ UNCHANGED conn
    /\ udp' = [udp EXCEPT !.op = "receive"]
    /\ UNCHANGED <<server, queue, at, buf>>

UdpLose ==
    /\ prog = "UdpEcho"
    /\ \E c \in Clients : \E k \in Datagrams(c) :
          conn' = [conn EXCEPT ![c].inb = RemoveAt(@, k)]
    /\ UNCHANGED <<server, queue, at, buf, udp>>

UdpDuplicate ==
    /\ prog = "UdpEcho"
    /\ \E c \in Clients :
          /\ Len(conn[c].inb) + Len(conn[c].out) < MaxMsgs
          /\ \E k \in Datagrams(c) : conn' = [conn EXCEPT ![c].inb = Append(@, @[k])]
    /\ UNCHANGED <<server, queue, at, buf, udp>>

(* The clients.                                                            *)

Connect(c) ==
    /\ Tcp /\ Running /\ listening
    /\ conn[c].peer = "none"
    /\ conn' = [conn EXCEPT ![c].peer = "up"]
    /\ queue' = Append(queue, c)
    /\ UNCHANGED <<server, at, buf, udp>>

Hello(c) ==
    /\ Tcp /\ Tls
    /\ conn[c].peer = "up" /\ ~conn[c].hello
    /\ conn' = [conn EXCEPT ![c].hello = TRUE]
    /\ UNCHANGED <<server, queue, at, buf, udp>>

Say(c) ==
    /\ conn[c].sent < MaxMsgs
    /\ Tcp => conn[c].peer = "up" /\ (Tls => conn[c].hello)
    /\ conn' = [conn EXCEPT ![c].sent = @ + 1,
                            ![c].inb = Append(@, <<c, conn[c].sent + 1>>)]
    /\ UNCHANGED <<server, queue, at, buf, udp>>

SayNothing(c) ==
    /\ prog = "UdpEcho"
    /\ conn[c].inb = << >>
    /\ conn' = [conn EXCEPT ![c].inb = <<<<c, 0>>>>]
    /\ UNCHANGED <<server, queue, at, buf, udp>>

\* Behind what it has sent comes what is no request, no handshake, no TLS record.
Garble(c) ==
    /\ Tcp /\ Parses
    /\ conn[c].peer = "up"
    /\ conn' = [conn EXCEPT ![c].peer = "garbled"]
    /\ UNCHANGED <<server, queue, at, buf, udp>>

\* A TLS client may say that it closes ("closed"), any client may just do it.
Leave(c) ==
    /\ conn[c].peer \in {"up", "garbled", "closed", "fin"}
    /\ \/ Connected(c) /\ conn' = [conn EXCEPT ![c].peer = "fin"]
       \/ /\ conn[c].peer = "up" /\ conn[c].hello
          /\ conn' = [conn EXCEPT ![c].peer = "closed"]
       \/ conn' = [conn EXCEPT ![c].peer = "reset"]
    /\ UNCHANGED <<server, queue, at, buf, udp>>

Client(c) == Connect(c) \/ Hello(c) \/ Say(c) \/ SayNothing(c) \/ Garble(c) \/ Leave(c)

Next ==
    \/ AcceptOne \/ AcceptFails \/ Stop
    \/ UdpReceive \/ UdpSend \/ UdpLose \/ UdpDuplicate
    \/ \E c \in Clients : Session(c) \/ Client(c)

\* A connection that waits is accepted, an operation that can end ends.  Nothing
\* is promised of the clients, of the network or of accept().
Fairness ==
    /\ WF_vars(AcceptOne)
    /\ WF_vars(UdpSend)
    /\ \A c \in Clients : WF_vars(Session(c))

Spec == Init /\ [][Next]_vars /\ Fairness

(* Properties.                                                             *)

Sent(c) == [n \in 1..conn[c].sent |-> <<c, n>>]

\* A client reads its own data only.  An echo is exact: what was read and is not
\* sent back yet is in the session.  The other servers answer once, the HTTP and
\* TLS servers not before they have a request.  ServerAsync has one buffer and one
\* endpoint for all clients: an answer goes to its sender, and none is empty.
AnswersOwn ==
    \A c \in Clients :
        IF prog = "UdpEcho" THEN ToSet(conn[c].out) \subseteq ToSet(Sent(c))
        ELSE IF Prog.echo
        THEN /\ IsPrefix(conn[c].out, Sent(c))
             /\ Connected(c) /\ at[c] # Gone =>
                   conn[c].out \o buf[c] \o conn[c].inb = Sent(c)
        ELSE /\ Len(conn[c].out) <= 1
             /\ prog \notin {"Daytime", "DaytimeEndpoint"} =>
                   Len(conn[c].out) <= conn[c].sent

\* A client has left like this, or stayed and sent what the server cannot take.
Left(how) == \E c \in Clients : conn[c].peer \in how

\* What may end a server.  Where all is caught, no client can: only a failed accept,
\* stop() or a signal.  A client ends an HTTP server by an early end of its connection,
\* Ssl1 by one that is not orderly, and either of them, still connected, by what is no
\* request or no TLS.  Ssl2 serves one more client at the most after stop() was called.
ServerLife ==
    /\ late <= 1
    /\ ~Running =>
          CASE prog \in {"HttpServer", "BeastHttpServer", "Ssl1"} ->
                  failed \/ Left({"garbled", "fin", "reset"})
            [] prog = "DaytimeEndpoint" -> failed \/ Left({"reset"})
            [] prog = "AcceptConnections" ->
                  IF up = "terminated" THEN failed ELSE \E c \in Clients : at[c] = Gone
            [] prog = "Ssl2" -> failed \/ stopping
            [] prog \in {"Daytime", "AcceptServer"} -> failed
            [] prog = "EchoServer_One" -> stopping
            [] prog = "EchoServer_Refactor" -> failed \/ stopping
            [] prog = "UdpEcho" -> FALSE

\* acceptConnections() answers nobody.
Asks(c) ==
    /\ conn[c].peer = "up"
    /\ prog # "AcceptConnections"
    /\ (conn[c].sent > 0 \/ prog \in {"Daytime", "DaytimeEndpoint"})

NotServed(c) == conn[c].peer # "up" \/ ~Running \/ (~listening /\ at[c] = 0)

\* The concurrent servers answer a client whatever the others do; a client of the
\* others is answered unless one before it keeps its connection open for ever.
\* AcceptServer answers nobody, for its coroutines never run.  Server::stop()
\* returns when the next client has been served.
Served ==
    /\ \A c \in Clients :
          /\ (Tcp /\ Prog.many /\ Prog.runs /\ Asks(c)) ~> (conn[c].out # << >> \/ NotServed(c))
          /\ (\A d \in Clients : []<>~Open(d)) =>
                ((Tcp /\ ~Prog.many /\ Asks(c)) ~> (conn[c].out # << >> \/ NotServed(c)))
    /\ (\A d \in Clients : []<>~Open(d)) =>
          ((prog = "Ssl2" /\ stopping /\ queue # << >>) ~> ~Running)
    /\ (udp.op = "send") ~> (udp.op = "receive")
====
