---- MODULE HttpsServer ----
(***************************************************************************)
(* The two servers of src/Beast/http/HTTPS_Server.cpp and handle_request,  *)
(* which maps a request to its response.                                   *)
(*                                                                         *)
(* HTTPS_Server_ASync: four threads run the io_context, but the handlers   *)
(* of a session run on its strand and a session has one operation at a     *)
(* time, so a handler is one action.  A session lives as long as the       *)
(* shared_ptr in the handler of its operation.                             *)
(*                                                                         *)
(* HTTPS_Server_Sync: a detached thread for each connection takes the same *)
(* steps with blocking calls, which have no timeout.                       *)
(***************************************************************************)
EXTENDS Integers, SequencesExt

CONSTANTS Clients,      \* the connections that may arrive
          Requests,     \* the requests a client may send, see Request
          Width,        \* the bits of the variable "size" (16)
          MaxReqs,      \* bound: requests a client sends on one connection
          None

ASSUME BoundAssumption == Width \in Nat /\ MaxReqs \in Nat
ASSUME NoneAssumption == None \notin Clients

\* A request asks for a resource: a file of some size, or a target that is
\* missing, illegal, not to be opened, or a directory (which opens like a file
\* and fails when it is read).  The size is the one that open() reports.
Resource == {"file", "directory", "missing", "denied", "illegal"}
Request  == [method : {"get", "head", "other"}, resource : Resource,
             size : Nat, keep : BOOLEAN]
ASSUME RequestAssumption == Requests \subseteq Request

VARIABLES
    mode,       \* which of the servers runs: "async" or "sync"
    listening,  \* the acceptor was opened, bound and listens
    acc,        \* the accept operation: "pending", "ok", "err" or "ended"
    queue,      \* connections that wait in the listening socket's queue
    socket,     \* the connection a completed accept delivers
    at,         \* at[c]: the operation the session of c is at
    op,         \* op[c]: "waiting", or how it completed
    buffer,     \* buffer[c]: what was read and not yet parsed
    msg,        \* msg[c]: what async_write has still to send
    answering,  \* answering[c]: the number of requests parsed
    conn,       \* conn[c]: the connection, as its peer sees it
    proc        \* "running", "exited", or "aborted" by std::terminate

vars == <<mode, listening, acc, queue, socket, at, op, buffer, msg,
          answering, conn, proc>>

listener == <<mode, listening, acc, queue, socket>>
session  == <<at, op, buffer, msg, answering>>

NewConn == [peer |-> "none", hello |-> FALSE, asked |-> << >>, wire |-> << >>,
            out |-> << >>]

\* Whatever fails in the constructor of Listener is only reported, and run()
\* starts the accept all the same.  (In the synchronous server it throws, which
\* ends runServer like an accept that fails.)
Init ==
    /\ mode \in {"async", "sync"}
    /\ listening \in BOOLEAN
    /\ acc = "pending"
    /\ queue = << >>
    /\ socket = None
    /\ at = [c \in Clients |-> "none"]
    /\ op = [c \in Clients |-> "none"]
    /\ buffer = [c \in Clients |-> << >>]
    /\ msg = [c \in Clients |-> << >>]
    /\ answering = [c \in Clients |-> 0]
    /\ conn = [c \in Clients |-> NewConn]
    /\ proc = "running"

(* handle_request: status, declared Content-Length, length of the body and *)
(* keep-alive of the response.  The error responses have a short body that *)
(* prepare_payload() declares; a HEAD gets it too.                         *)

ErrorBody == 1

Response(status, declared, body, q) ==
    [status |-> status, declared |-> declared, body |-> body, keep |-> q.keep]

Error(status, q) == Response(status, ErrorBody, ErrorBody, q)

\* mutant: a HEAD is answered like a GET
handle_request_body(q) ==
    CASE q.method = "other" \/ q.resource = "illegal" -> Error(400, q)
      [] q.method # "other" /\ q.resource = "missing" -> Error(404, q)
      [] q.method # "other" /\ q.resource = "denied"  -> Error(500, q)
      [] OTHER -> Response(200, q.size % 2^Width, q.size, q)

\* The size of the file goes through a uint16_t before it becomes the
\* Content-Length; the body of the response is the whole file.
handle_request(q) ==
    CASE q.method = "other" \/ q.resource = "illegal" -> Error(400, q)
      [] q.method # "other" /\ q.resource = "missing" -> Error(404, q)
      [] q.method # "other" /\ q.resource = "denied"  -> Error(500, q)
      [] OTHER -> Response(200, q.size % 2^Width,
                           IF q.method = "head" THEN 0 ELSE q.size, q)

\* The response to the n-th request of c, as it is put on the wire: <<n, 0>> is
\* its header and <<n, k>> the k-th byte of its body.
Answer(c, n) == handle_request(conn[c].asked[n])
Message(c, n) == [k \in 1..(Answer(c, n).body + 1) |-> <<n, k - 1>>]

(* The clients.  A request arrives in two parts, <<n, "first">> and        *)
(* <<n, "rest">>, so that a read may end inside of it.                     *)

Connect(c) ==
    /\ listening /\ proc = "running"
    /\ conn[c].peer = "none"
    /\ conn' = [conn EXCEPT ![c].peer = "up"]
    /\ queue' = Append(queue, c)
    /\ UNCHANGED <<mode, listening, acc, socket, session, proc>>

\* The client does its part of the TLS handshake.
Hello(c) ==
    /\ conn[c].peer = "up"
    /\ ~conn[c].hello
    /\ conn' = [conn EXCEPT ![c].hello = TRUE]
    /\ UNCHANGED <<listener, session, proc>>

SendRequest(c) ==
    /\ conn[c].peer = "up"
    /\ conn[c].hello
    /\ LET n == Len(conn[c].asked)
           half == <<n, "first">> \in ToSet(conn[c].wire \o buffer[c])
                   /\ <<n, "rest">> \notin ToSet(conn[c].wire \o buffer[c])
       IN  \/ /\ half
              /\ conn' = [conn EXCEPT ![c].wire = Append(@, <<n, "rest">>)]
           \/ /\ ~half
              /\ n < MaxReqs
              /\ \E q \in Requests :
                   conn' = [conn EXCEPT ![c].asked = Append(@, q),
                                        ![c].wire = Append(@, <<n + 1, "first">>)]
    /\ UNCHANGED <<listener, session, proc>>

\* The client closes its side, or the connection breaks.
Leave(c) ==
    /\ conn[c].peer \in {"up", "fin"}
    /\ \E p \in {"fin", "reset"} \ {conn[c].peer} :
         conn' = [conn EXCEPT ![c].peer = p]
    /\ UNCHANGED <<listener, session, proc>>

(* The operations of a session.                                            *)

Waits(c, phase) == proc = "running" /\ at[c] = phase /\ op[c] = "waiting"

Completes(c, how) == op' = [op EXCEPT ![c] = how]

HandshakeDone(c) ==
    /\ Waits(c, "handshake")
    /\ conn[c].hello
    /\ Completes(c, "ok")
    /\ UNCHANGED <<listener, at, buffer, msg, answering, conn, proc>>

HasRequest(c) == \E n \in 1..MaxReqs : <<n, "rest">> \in ToSet(buffer[c])

\* One read of http::async_read
ReadSome(c) ==
    /\ Waits(c, "read")
    /\ ~HasRequest(c)
    /\ \E n \in 1..Len(conn[c].wire) :
         /\ buffer' = [buffer EXCEPT ![c] = @ \o SubSeq(conn[c].wire, 1, n)]
         /\ conn' = [conn EXCEPT ![c].wire = SubSeq(@, n + 1, Len(@))]
    /\ UNCHANGED <<listener, at, op, msg, answering, proc>>

\* mutant: the parsed request stays in the buffer
RequestRead_keep(c) ==
    /\ Waits(c, "read")
    /\ HasRequest(c)
    /\ answering' = [answering EXCEPT ![c] = Head(buffer[c])[1]]
    /\ Completes(c, "ok")
    /\ UNCHANGED <<listener, at, buffer, msg, conn, proc>>

\* The parser takes one request out of the buffer; what follows it stays there
\* for the next read.
RequestRead(c) ==
    /\ Waits(c, "read")
    /\ HasRequest(c)
    /\ answering' = [answering EXCEPT ![c] = Head(buffer[c])[1]]
    /\ buffer' = [buffer EXCEPT ![c] = SubSeq(@, 3, Len(@))]
    /\ Completes(c, "ok")
    /\ UNCHANGED <<listener, at, msg, conn, proc>>

\* The end of the stream, between two requests or inside of one
ReadEnds(c) ==
    /\ Waits(c, "read")
    /\ ~HasRequest(c)
    /\ conn[c].peer = "fin" /\ conn[c].wire = << >>
    /\ Completes(c, IF buffer[c] = << >> THEN "eof" ELSE "error")
    /\ UNCHANGED <<listener, at, buffer, msg, answering, conn, proc>>

\* How much of what is left can be sent: of a directory nothing, since the serializer
\* gets the first piece of the body, which it cannot read, before it hands out the
\* header.
CanSend(c) ==
    LET q == conn[c].asked[answering[c]]
    IN  IF q.method = "get" /\ q.resource = "directory" /\ q.size > 0
        THEN 0 ELSE Len(msg[c])

SendSome(c) ==
    /\ Waits(c, "write")
    /\ conn[c].peer \in {"up", "fin"}
    /\ \E k \in 1..CanSend(c) :
         /\ conn' = [conn EXCEPT ![c].out = @ \o SubSeq(msg[c], 1, k)]
         /\ msg' = [msg EXCEPT ![c] = SubSeq(@, k + 1, Len(@))]
         /\ op' = [op EXCEPT ![c] = IF k = Len(msg[c]) THEN "ok" ELSE @]
    /\ UNCHANGED <<listener, at, buffer, answering, proc>>

FileFails(c) ==
    /\ Waits(c, "write")
    /\ CanSend(c) = 0
    /\ Completes(c, "error")
    /\ UNCHANGED <<listener, at, buffer, msg, answering, conn, proc>>

\* async_shutdown waits for the peer's close.
ShutdownDone(c) ==
    /\ Waits(c, "shutdown")
    /\ conn[c].peer = "fin"
    /\ Completes(c, "ok")
    /\ UNCHANGED <<listener, at, buffer, msg, answering, conn, proc>>

Breaks(c) ==
    /\ Waits(c, at[c])
    /\ \/ conn[c].peer = "reset"
       \/ at[c] = "handshake" /\ conn[c].peer = "fin"
    /\ Completes(c, "error")
    /\ UNCHANGED <<listener, at, buffer, msg, answering, conn, proc>>

\* expires_after(30 s): the stream is closed and its operation fails, whatever the
\* peer does.  The timer of the read goes on during the write.
Timeout(c) ==
    /\ mode = "async"
    /\ Waits(c, at[c])
    /\ Completes(c, "error")
    /\ UNCHANGED <<listener, at, buffer, msg, answering, conn, proc>>

(* The handlers of a session.  One that starts no operation drops the last *)
(* shared_ptr: the session is gone and the connection closed.              *)

Starts(c, phase) ==
    /\ at' = [at EXCEPT ![c] = phase]
    /\ op' = [op EXCEPT ![c] = IF phase = "gone" THEN "none" ELSE "waiting"]

On(c, phase) ==
    proc = "running" /\ at[c] = phase /\ op[c] \in {"ok", "eof", "error"}

on_run(c) ==
    /\ On(c, "run")
    /\ Starts(c, "handshake")
    /\ UNCHANGED <<listener, buffer, msg, answering, conn, proc>>

on_handshake(c) ==
    /\ On(c, "handshake")
    /\ Starts(c, IF op[c] = "ok" THEN "read" ELSE "gone")
    /\ UNCHANGED <<listener, buffer, msg, answering, conn, proc>>

\* mutant: a failed read is tried again
on_read_again(c) ==
    /\ On(c, "read")
    /\ \/ op[c] = "ok" /\ Starts(c, "write")
                       /\ msg' = [msg EXCEPT ![c] = Message(c, answering[c])]
       \/ op[c] = "eof" /\ Starts(c, "shutdown") /\ UNCHANGED msg
       \/ op[c] = "error" /\ Starts(c, "read") /\ UNCHANGED msg
    /\ UNCHANGED <<listener, buffer, answering, conn, proc>>

on_read(c) ==
    /\ On(c, "read")
    /\ \/ op[c] = "ok" /\ Starts(c, "write")
                       /\ msg' = [msg EXCEPT ![c] = Message(c, answering[c])]
       \/ op[c] = "eof" /\ Starts(c, "shutdown") /\ UNCHANGED msg
       \/ op[c] = "error" /\ Starts(c, "gone") /\ UNCHANGED msg
    /\ UNCHANGED <<listener, buffer, answering, conn, proc>>

\* mutant: a failed write is followed by the shutdown too
on_write_close(c) ==
    /\ On(c, "write")
    /\ Starts(c, IF op[c] = "error" \/ ~Answer(c, answering[c]).keep
                 THEN "shutdown" ELSE "read")
    /\ UNCHANGED <<listener, buffer, msg, answering, conn, proc>>

on_write(c) ==
    /\ On(c, "write")
    /\ Starts(c, IF op[c] = "error" THEN "gone"
                 ELSE IF Answer(c, answering[c]).keep THEN "read"
                 ELSE "shutdown")
    /\ UNCHANGED <<listener, buffer, msg, answering, conn, proc>>

on_shutdown(c) ==
    /\ On(c, "shutdown")
    /\ Starts(c, "gone")
    /\ UNCHANGED <<listener, buffer, msg, answering, conn, proc>>

(* The listener.                                                           *)

AcceptReady ==
    /\ acc = "pending"
    /\ queue # << >>
    /\ acc' = "ok"
    /\ socket' = Head(queue)
    /\ queue' = Tail(queue)
    /\ UNCHANGED <<mode, listening, session, conn, proc>>

\* accept() fails, always when the acceptor does not listen
AcceptError ==
    /\ acc = "pending"
    /\ acc' = "err"
    /\ UNCHANGED <<mode, listening, queue, socket, session, conn, proc>>

\* run() of the new session posts on_run to its strand.  An error ends the loop:
\* "return; // To avoid infinite loop".
on_accept ==
    /\ mode = "async"
    /\ \/ /\ acc = "ok"
          /\ at' = [at EXCEPT ![socket] = "run"]
          /\ op' = [op EXCEPT ![socket] = "ok"]
          /\ acc' = "pending"
          /\ socket' = None
       \/ /\ acc = "err"
          /\ acc' = "ended"
          /\ UNCHANGED <<at, op, socket>>
    /\ UNCHANGED <<mode, listening, queue, buffer, msg, answering, conn,
                   proc>>

\* runServer of HTTPS_Server_Sync: a thread for each connection.  An exception
\* leaves the loop, the process ends and with it every session.
accept_loop ==
    /\ mode = "sync"
    /\ \/ /\ acc = "ok"
          /\ at' = [at EXCEPT ![socket] = "handshake"]
          /\ op' = [op EXCEPT ![socket] = "waiting"]
          /\ acc' = "pending"
          /\ socket' = None
          /\ UNCHANGED proc
       \/ /\ acc = "err"
          /\ acc' = "ended"
          /\ proc' = "exited"
          /\ UNCHANGED <<at, op, socket>>
    /\ UNCHANGED <<mode, listening, queue, buffer, msg, answering,
                   conn>>

\* ioContext.run() returns when no operation is left.  runServer then destroys
\* its vector of threads, which nobody joined: std::terminate.
RunReturns ==
    /\ proc = "running"
    /\ acc = "ended"
    /\ \A c \in Clients : op[c] = "none"
    /\ proc' = "aborted"
    /\ UNCHANGED <<listener, session, conn>>

ListenerNext ==
    AcceptReady \/ AcceptError \/ on_accept \/ accept_loop \/ RunReturns

OperationNext(c) ==
    \/ HandshakeDone(c) \/ ReadSome(c) \/ RequestRead(c) \/ ReadEnds(c)
    \/ SendSome(c) \/ FileFails(c) \/ ShutdownDone(c) \/ Breaks(c) \/ Timeout(c)

\* The body of a synchronous session: the same steps without the dispatch
do_session(c) == on_handshake(c) \/ on_read(c) \/ on_write(c) \/ on_shutdown(c)

HandlerNext(c) == on_run(c) \/ do_session(c)

ClientNext(c) == Connect(c) \/ Hello(c) \/ SendRequest(c) \/ Leave(c)

Next ==
    \/ ListenerNext
    \/ \E c \in Clients : OperationNext(c) \/ HandlerNext(c) \/ ClientNext(c)

Spec == Init /\ [][Next]_vars

\* Queued handlers run and the timer fires; nothing is promised of the peers.
FairSpec ==
    /\ Spec
    /\ WF_vars(on_accept \/ accept_loop) /\ WF_vars(RunReturns)
    /\ \A c \in Clients : WF_vars(HandlerNext(c)) /\ WF_vars(Timeout(c))

(* Properties.                                                             *)

\* The requests that are to be answered: up to the first one without keep-alive
Due(c) ==
    SelectInSeq(conn[c].asked, LAMBDA q : ~q.keep)

\* What the client reads is a prefix of the whole responses to its requests, in
\* the order of the requests, each answered once, none after one that closes the
\* connection, however the requests were pipelined and cut into reads.
AnsweredInOrder ==
    \A c \in Clients :
        LET last == IF Due(c) = 0 THEN Len(conn[c].asked) ELSE Due(c)
        IN  IsPrefix(conn[c].out,
                     FlattenSeq([n \in 1..last |-> Message(c, n)]))

\* The number of body bytes a client takes off the stream after a header
Expected(c, n) ==
    IF conn[c].asked[n].method = "head" THEN 0 ELSE Answer(c, n).declared

\* The client finds the end of the n-th response where the server put it.
FramedAt(c, p) ==
    LET n   == conn[c].out[p][1]
        len == Expected(c, n)
    IN  \A i \in 1..(Len(conn[c].out) - p) :
            (i <= len) = (conn[c].out[p + i][1] = n)
               \/ i > len + 1

\* The framing breaks in two cases only: a file as large as the range of "size",
\* and an error response to a HEAD request.
FramedUnless ==
    \A c \in Clients : \A p \in 1..Len(conn[c].out) :
        LET n == conn[c].out[p][1]
        IN  \/ conn[c].out[p][2] # 0
            \/ Answer(c, n).status = 200 /\ conn[c].asked[n].size >= 2^Width
            \/ Answer(c, n).status # 200 /\ conn[c].asked[n].method = "head"
            \/ FramedAt(c, p)

\* The TLS shutdown is started only behind a whole response that closes the
\* connection or answers the last request: a client that sees an orderly close
\* has every answer it is due, and one whose response was cut off sees none.
OrderlyClose ==
    [][\A c \in Clients :
         (at[c] # "shutdown" /\ at'[c] = "shutdown") =>
            \/ conn[c].asked = << >>
            \/ /\ conn[c].out # << >>
               /\ Last(conn[c].out) = Last(Message(c, answering[c]))
               /\ \/ ~Answer(c, answering[c]).keep
                  \/ answering[c] = Len(conn[c].asked)]_vars

\* Every session of the asynchronous server ends although its client may stall at
\* any point, keep the connection open and read nothing: the timer is armed in
\* every phase.
SessionEnds ==
    mode = "async" => \A c \in Clients : (at[c] = "run") ~> (at[c] = "gone")
====
