---- MODULE NetClients ----
(***************************************************************************)
(* The request clients: src/Beast/http/Client.cpp, src/Networking/Beast.cpp,*)
(* src/Beast/web_sockets/WebSocketClients.cpp, the clients of              *)
(* src/Networking/Networking.cpp and UDPEchoServerClient.cpp, and those of *)
(* Experiments/Experiments.cpp and IO_Context/IoContext.cpp in src/Asio.   *)
(*                                                                         *)
(* Each of them, blocking, with callbacks or as a coroutine, performs one  *)
(* operation after the other: resolve, connect, handshake, write, read,    *)
(* close.  They differ in the operations, in the deadlines they set, in    *)
(* what they do with an error and in when they show the answer.  A client  *)
(* is therefore a table (Program), and one set of actions runs all tables. *)
(* The peer is arbitrary: it answers, stays silent, closes or resets.      *)
(***************************************************************************)
EXTENDS Integers, Sequences

VARIABLES
    client,     \* the function that runs
    answer,     \* what the peer answers to a request, if it answers
    pc,         \* the operation being performed, 0 before the first one
    op,         \* "waiting", or the result of the operation
    timed,      \* a deadline of the tcp_stream is set
    conn,       \* the connection: the peer, what it still owes and what has arrived
    got,        \* the part of the answer that was read
    shown,      \* the part of the answer that was written to the output
    outcome     \* "running", or how the client ended

vars == <<client, answer, pc, op, timed, conn, got, shown, outcome>>

(* The tables.  A step is an operation with what the code says before it   *)
(* (expires_after, expires_never, the SNI host name) and the results after *)
(* which it goes on.                                                       *)

Do(o)          == [op |-> o, deadline |-> "keep", sni |-> FALSE, passes |-> {"ok"}]
Timed(o)       == [Do(o) EXCEPT !.deadline = "set"]
Untimed(o)     == [Do(o) EXCEPT !.deadline = "never"]
Sni(s)         == [s EXCEPT !.sni = TRUE]
Passing(s, rs) == [s EXCEPT !.passes = rs]

Blocking(onError, show, odd, steps) ==
    [async |-> FALSE, onError |-> onError, show |-> show, odd |-> odd,
     steps |-> steps]

Async(onError, show, steps) ==
    [async |-> TRUE, onError |-> onError, show |-> show, odd |-> "accept",
     steps |-> steps]

\* The exception of http::read is caught, every other one leaves the function.
SimpleSynch ==
    Blocking("throw", "read", "accept",
        <<Do("resolve"), Do("connect"), Do("write"),
          Passing(Do("read"), {"ok", "eof", "reset"})>>)

\* Reads the status line and the header fields, then everything up to the end of
\* the stream; any status but 200 ends it.
TcpSocket ==
    Blocking("report", "pieces", "return",
        <<Do("resolve"), Do("connect"), Do("write"), Do("head"),
          Passing(Do("rest"), {"ok", "eof"})>>)

HttpAsync ==
    Async("report", "read",
        <<Do("resolve"), Timed("connect"), Timed("write"), Do("read")>>)

\* The deadline is set, but every operation is a blocking one.  An answer that
\* holds no "ip" raises before the parser's error is looked at.
SslRequest ==
    Blocking("throw", "read", "throw",
        <<Sni(Do("resolve")), Do("connect"), Timed("tls"), Do("write"), Do("read"),
          Passing(Do("tlsclose"), {"ok", "eof"})>>)

\* mutant: on_resolve sets no deadline
HttpsAsync_untimed ==
    Async("report", "read",
        <<Sni(Do("resolve")), Do("connect"), Do("tls"), Timed("write"), Do("read"),
          Passing(Timed("tlsclose"), {"truncated"})>>)

\* mutant: the answer is printed in on_shutdown
HttpsAsync_showLate ==
    Async("report", "end",
        <<Sni(Do("resolve")), Timed("connect"), Do("tls"), Timed("write"), Do("read"),
          Passing(Timed("tlsclose"), {"truncated"})>>)

\* on_shutdown calls fail() with every code but stream_truncated, success
\* included.
HttpsAsync ==
    Async("report", "read",
        <<Sni(Do("resolve")), Timed("connect"), Do("tls"), Timed("write"), Do("read"),
          Passing(Timed("tlsclose"), {"truncated"})>>)

\* An exception of the coroutine is thrown again out of io_context.run().
HttpsAwaitable ==
    Async("throw", "read",
        <<Sni(Do("resolve")), Timed("connect"), Timed("tls"), Timed("write"),
          Do("read"), Passing(Timed("tlsclose"), {"ok", "truncated"})>>)

BeastSimple ==
    Blocking("throw", "read", "accept",
        <<Do("resolve"), Do("connect"), Do("write"), Do("read")>>)

BeastSsl == SslRequest

\* do_get, do_patch, do_put, do_post and do_delete, as Test calls them
BeastMethod ==
    Blocking("throw", "none", "accept",
        <<Do("resolve"), Do("connect"), Do("write"), Do("read")>>)

\* do_head reads the header only.
BeastHead ==
    Blocking("throw", "none", "accept",
        <<Do("resolve"), Do("connect"), Do("write"), Do("head")>>)

BeastAsync == HttpAsync

\* mutant: the error code of the read is not looked at
BeastCoroutine_anyRead ==
    Async("report", "read",
        <<Do("resolve"), Timed("connect"), Timed("write"),
          Passing(Do("read"), {"ok", "eof", "reset", "timeout"})>>)

BeastCoroutine ==
    Async("report", "read",
        <<Do("resolve"), Timed("connect"), Timed("write"), Do("read")>>)

\* The exception is caught in sendRequest.
BeastAwaitable == BeastCoroutine

WsSimple ==
    Blocking("throw", "end", "accept",
        <<Do("resolve"), Do("connect"), Do("upgrade"), Do("write"), Do("message"),
          Do("wsclose")>>)

WsSsl ==
    Blocking("throw", "end", "accept",
        <<Do("resolve"), Do("connect"), Sni(Do("tls")), Do("upgrade"), Do("write"),
          Do("message"), Do("wsclose")>>)

\* The deadlines of the stream are turned off before the WebSocket handshake.
WsAsync ==
    Async("report", "end",
        <<Do("resolve"), Timed("connect"), Sni(Timed("tls")), Untimed("upgrade"),
          Do("write"), Do("message"), Do("wsclose")>>)

\* Networking::HTTP::sendRequestGET is the same program as TcpSocket.
NetworkingGet == TcpSocket

Daytime ==
    Blocking("report", "pieces", "accept",
        <<Do("resolve"), Do("connect"), Passing(Do("rest"), {"ok", "eof"})>>)

ConnectToSocket == Blocking("report", "none", "accept", <<Do("connect")>>)

\* write_some takes any part of the request.
WriteToSocket == Blocking("report", "none", "accept", <<Do("connect"), Do("writesome")>>)

\* read_some is called once: any part of the answer is the reply.
SocketRead ==
    Blocking("report", "end", "accept", <<Do("connect"), Do("writesome"), Do("readsome")>>)

SocketReadUntil ==
    Blocking("report", "end", "accept", <<Do("connect"), Do("writesome"), Do("message")>>)

ResolveDns == Blocking("report", "none", "accept", <<Do("resolve")>>)

\* The error code of connect() is not looked at.
ConnectToServer ==
    Blocking("report", "none", "accept", <<Passing(Do("connect"), {"ok", "refused"})>>)

DaytimeClient == Daytime

\* The handler of async_connect does nothing after an error; resolve() throws.
AsynchSocket ==
    Async("throw", "none", <<Do("resolve"), Passing(Do("connect"), {"ok", "refused"})>>)

\* receive_from waits for a datagram, whoever sends it.
UdpClient ==
    Blocking("report", "end", "accept", <<Do("resolve"), Do("sendto"), Do("datagram")>>)

Table ==
    [SimpleSynch |-> SimpleSynch, TcpSocket |-> TcpSocket,
     HttpAsync |-> HttpAsync, SslRequest |-> SslRequest,
     HttpsAsync |-> HttpsAsync, HttpsAwaitable |-> HttpsAwaitable,
     BeastSimple |-> BeastSimple, BeastSsl |-> BeastSsl,
     BeastMethod |-> BeastMethod, BeastHead |-> BeastHead,
     BeastAsync |-> BeastAsync, BeastCoroutine |-> BeastCoroutine,
     BeastAwaitable |-> BeastAwaitable, WsSimple |-> WsSimple,
     WsSsl |-> WsSsl, WsAsync |-> WsAsync, NetworkingGet |-> NetworkingGet,
     Daytime |-> Daytime, ConnectToSocket |-> ConnectToSocket,
     WriteToSocket |-> WriteToSocket, SocketRead |-> SocketRead,
     SocketReadUntil |-> SocketReadUntil, ResolveDns |-> ResolveDns,
     ConnectToServer |-> ConnectToServer, DaytimeClient |-> DaytimeClient,
     AsynchSocket |-> AsynchSocket, UdpClient |-> UdpClient]

Clients    == DOMAIN Table
Program(c) == Table[c]

WsClients == {"WsSimple", "WsSsl", "WsAsync"}
DaytimeClients == {"Daytime", "DaytimeClient"}

(* The messages.  An answer of an HTTP server is a header and a body; the  *)
(* header is odd when the status is not 200 or the document is not the one *)
(* that was expected.                                                      *)

Answers(c) ==
    IF c \in WsClients \cup DaytimeClients \cup {"UdpClient"} THEN {<<"body">>}
    ELSE IF c = "BeastHead" THEN {<<"head">>}
    ELSE IF c \in {"SocketRead", "SocketReadUntil"} THEN {<<"head", "body">>}
    ELSE {<<"head", "body">>, <<"odd", "body">>}

\* What the peer owes for an operation that the client has started
Reply(o) ==
    CASE o = "tls" -> <<"hello">>
      [] o = "upgrade" -> <<"switching">>
      [] o \in {"write", "sendto"} -> answer
      [] o \in {"tlsclose", "wsclose"} -> <<"bye">>
      [] OTHER -> << >>

\* What has to arrive before an operation completes
Expected(o) ==
    CASE o = "tls" -> <<"hello">>
      [] o = "upgrade" -> <<"switching">>
      [] o = "head" -> <<Head(answer)>>
      [] o \in {"read", "message"} -> answer
      [] o = "rest" -> <<"body">>
      [] o \in {"tlsclose", "wsclose"} -> <<"bye">>

Answered == {"head", "read", "message", "rest", "readsome", "datagram"}
Arrives == Answered \cup {"tls", "upgrade", "tlsclose", "wsclose"}

Prog    == Program(client)
Current == Prog.steps[pc]
Running == outcome = "running"

\* A client that reads an answer
Reads == \E n \in DOMAIN Prog.steps : Prog.steps[n].op \in Answered
Waiting == Running /\ op = "waiting"

\* A deadline ends the operation: that of the stream, or the handshake timeout of
\* the websocket stream, which covers the handshake and the close only.  A
\* blocking operation has none.
Expires ==
    /\ Prog.async
    /\ Current.op # "resolve"
    /\ timed \/ (client = "WsAsync" /\ Current.op \in {"upgrade", "wsclose"})

(* The client.                                                             *)

Init ==
    /\ client \in Clients
    /\ answer \in Answers(client)
    /\ pc = 0
    /\ op = "ok"
    /\ timed = FALSE
    /\ conn = [peer |-> "none", owed |-> << >>, inb |-> << >>, unsent |-> 2]
    /\ got = << >>
    /\ shown = << >>
    /\ outcome = "running"

End(how) == outcome' = how /\ op' = "none" /\ UNCHANGED <<pc, timed, conn>>

OnError == End(IF Prog.onError = "throw" THEN "thrown" ELSE "reported")

\* The next operation is started, or the host name for it could not be set.
Start(n) ==
    LET s == Prog.steps[n]
    IN  \/ /\ pc' = n
           /\ op' = "waiting"
           /\ timed' = IF s.deadline = "keep" THEN timed ELSE s.deadline = "set"
           /\ conn' = [conn EXCEPT !.owed = @ \o Reply(s.op)]
           /\ UNCHANGED outcome
        \/ s.sni /\ OnError

\* An answer is written to the output when the operation that read it succeeds,
\* or when the client ends.
Show ==
    shown' = IF \/ Prog.show = "read" /\ Current.op = "read" /\ op = "ok"
                \/ Prog.show = "pieces" /\ Current.op \in {"head", "rest"}
                \/ Prog.show = "end" /\ pc = Len(Prog.steps)
             THEN got ELSE shown

Passes == pc > 0 /\ op \in Current.passes

Odd == /\ Current.op \in {"head", "read"}
       /\ Head(answer) = "odd"
       /\ Prog.odd # "accept"

\* An operation is repeated until the stream ends, or until all is written.
Again ==
    \/ Current.op = "rest" /\ op = "ok"
    \/ Current.op = "writesome" /\ conn.unsent > 0

\* run(), or the call of the function
Launch ==
    /\ Running
    /\ pc = 0
    /\ Start(1)
    /\ UNCHANGED <<client, answer, got, shown>>

\* The operation succeeded and is repeated, or followed by the next one.
Proceed ==
    /\ Running
    /\ Passes
    /\ ~Odd
    /\ Show
    /\ IF Again THEN Start(pc)
       ELSE pc < Len(Prog.steps) /\ Start(pc + 1)
    /\ UNCHANGED <<client, answer, got>>

\* The last operation succeeded: the socket is shut down and destroyed.  The one
\* error of shutdown() is that the peer has reset the connection (not_connected),
\* which the clients ignore.
Finish ==
    /\ Running
    /\ Passes
    /\ ~Odd
    /\ pc = Len(Prog.steps)
    /\ ~Again
    /\ Show
    /\ End("done")
    /\ UNCHANGED <<client, answer, got>>

RejectAnswer ==
    /\ Running
    /\ Passes
    /\ Odd
    /\ End(IF Prog.odd = "throw" THEN "thrown" ELSE "returned")
    /\ UNCHANGED <<client, answer, got, shown>>

Fail ==
    /\ Running
    /\ pc > 0
    /\ op \notin Current.passes \cup {"waiting"}
    /\ OnError
    /\ UNCHANGED <<client, answer, got, shown>>

Handler == Launch \/ Proceed \/ Finish \/ RejectAnswer \/ Fail

(* The operations.                                                         *)

Completes(result) ==
    op' = result /\ UNCHANGED <<client, answer, pc, timed, shown, outcome>>

Resolve ==
    /\ Waiting
    /\ Current.op = "resolve"
    /\ Completes("ok") \/ Completes("not_found")
    /\ UNCHANGED <<conn, got>>

\* The daytime server answers a connection, not a request.
Connect ==
    /\ Waiting
    /\ Current.op = "connect"
    /\ \/ /\ Completes("ok")
          /\ conn' = [conn EXCEPT !.peer = "up",
                                  !.owed = IF client \in DaytimeClients THEN answer
                                           ELSE @]
       \/ Completes("refused") /\ UNCHANGED conn
    /\ UNCHANGED got

\* A request is short: the socket takes all of it, write_some what it likes.
Written ==
    /\ Waiting
    /\ \/ Current.op \in {"write", "sendto"} /\ UNCHANGED conn
       \/ /\ Current.op = "writesome"
          /\ \E n \in 1..conn.unsent :
                conn' = [conn EXCEPT !.unsent = @ - n,
                                     !.owed = IF n = conn.unsent THEN answer ELSE @]
    /\ Completes(IF conn.peer = "reset" THEN "reset" ELSE "ok")
    /\ UNCHANGED got

\* How many of the messages that arrived the operation takes
Takes ==
    LET n == Len(Expected(Current.op))
    IN  CASE Current.op = "readsome" -> 1..Len(conn.inb)
          [] Current.op = "datagram" -> {k \in {1} : k <= Len(conn.inb)}
          [] OTHER -> {k \in {n} : k <= Len(conn.inb)
                                      /\ SubSeq(conn.inb, 1, k) = Expected(Current.op)}

Arrived == Current.op \in Arrives /\ Takes # {}

Receive ==
    /\ Waiting
    /\ Arrived
    /\ Completes("ok")
    /\ \E n \in Takes :
          /\ conn' = [conn EXCEPT !.inb = SubSeq(@, n + 1, Len(@))]
          /\ got' = IF Current.op \in Answered THEN got \o SubSeq(conn.inb, 1, n) ELSE got

\* The stream ends, orderly or not, before the operation has what it waits for.
Broken ==
    /\ Waiting
    /\ Current.op \in Arrives
    /\ \/ /\ conn.peer = "fin"
          /\ ~Arrived
          /\ Completes(IF Current.op = "tlsclose" THEN "truncated" ELSE "eof")
       \/ conn.peer = "reset" /\ Completes("reset")
    /\ UNCHANGED <<conn, got>>

\* The deadline has passed: the stream is closed.
Expire ==
    /\ Waiting
    /\ Expires
    /\ Completes("timeout")
    /\ UNCHANGED <<conn, got>>

(* The peer.                                                               *)

Datagrams == client = "UdpClient" /\ pc > 1

PeerSend ==
    /\ conn.peer = "up" \/ Datagrams
    /\ conn.owed # << >>
    /\ conn' = [conn EXCEPT !.owed = Tail(@), !.inb = Append(@, Head(conn.owed))]
    /\ UNCHANGED <<client, answer, pc, op, timed, got, shown, outcome>>

\* A datagram is lost, or one of somebody else arrives.
DatagramLost ==
    /\ Datagrams
    /\ conn.owed # << >>
    /\ conn' = [conn EXCEPT !.owed = << >>]
    /\ UNCHANGED <<client, answer, pc, op, timed, got, shown, outcome>>

Stranger ==
    /\ Datagrams
    /\ conn.inb = << >>
    /\ conn' = [conn EXCEPT !.inb = <<"odd">>]
    /\ UNCHANGED <<client, answer, pc, op, timed, got, shown, outcome>>

Secured == \E n \in DOMAIN Prog.steps : Prog.steps[n].op \in {"tls", "upgrade"}

\* The peer closes; on a stream with a closing message it may send that first.
PeerFinish ==
    /\ conn.peer = "up"
    /\ \/ conn' = [conn EXCEPT !.peer = "fin"]
       \/ Secured /\ conn' = [conn EXCEPT !.peer = "fin", !.inb = Append(@, "bye")]
    /\ UNCHANGED <<client, answer, pc, op, timed, got, shown, outcome>>

PeerReset ==
    /\ conn.peer \in {"up", "fin"}
    /\ conn' = [conn EXCEPT !.peer = "reset"]
    /\ UNCHANGED <<client, answer, pc, op, timed, got, shown, outcome>>

Network == Resolve \/ Connect \/ Written \/ Receive \/ Broken \/ Expire

Peer == PeerSend \/ DatagramLost \/ Stranger \/ PeerFinish \/ PeerReset

Next == Handler \/ Network \/ Peer

\* A resolver and a connect() end by the timeouts of the operating system, a
\* deadline passes, and a completed operation is handled.  Nothing is assumed of
\* the peer.
Fairness == WF_vars(Handler) /\ WF_vars(Network)

Spec == Init /\ [][Next]_vars /\ Fairness

(* Properties.                                                             *)

\* A client that reads and ends without an error has read the whole answer.  Some do
\* not promise it: httpGetRequest swallows the error of its read, to those that read
\* up to the end of the stream any close is the end of the answer, and to those that
\* take one piece or one datagram, that is the answer, of whoever sent it.
DoneMeansAnswered ==
    (outcome = "done" /\ Reads) =>
        \/ got = answer
        \/ client = "SimpleSynch"
        \/ /\ client \in {"TcpSocket", "NetworkingGet"} \cup DaytimeClients
           /\ conn.peer # "up"
        \/ client = "SocketRead" /\ got = <<Head(answer)>>
        \/ client = "UdpClient" /\ got = <<"odd">>

\* An answer that was read is not lost to a later error: a client that ended has
\* shown it, also when its close failed.  The exceptions: the WebSocket clients
\* show it only after an orderly close, and an odd answer may be rejected.
AnswerShown ==
    (~Running /\ got = answer /\ Prog.show # "none") =>
        \/ shown = answer
        \/ client \in WsClients /\ outcome # "done" /\ shown = << >>
        \/ Head(answer) = "odd" /\ outcome \in {"thrown", "returned"}

\* An asynchronous HTTP client ends although its peer may stall at any point: one
\* deadline or another covers every operation.  The others end at least when the
\* peer has closed the connection; the UDP client, when any datagram has arrived.
ClientEnds ==
    /\ (Prog.async /\ client # "WsAsync") ~> ~Running
    /\ conn.peer \in {"fin", "reset"} ~> ~Running
    /\ (client = "UdpClient" /\ conn.inb # << >>) ~> ~Running
====
