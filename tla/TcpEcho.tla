---- MODULE TcpEcho ----
(***************************************************************************)
(* The echo server of src/Networking/TCPEchoServerClient.cpp.  One thread  *)
(* runs io_context.run(); a handler is one action.  A Session is kept      *)
(* alive only by the shared_ptr inside its one pending handler: it has an  *)
(* operation in progress, or it is destroyed and its socket with it.       *)
(***************************************************************************)
EXTENDS Integers, Sequences

CONSTANTS Clients,      \* the connections that may arrive
          maxLength,    \* the size of Session::data
          MaxBytes,     \* bound: bytes a client sends
          None

ASSUME LengthAssumption == maxLength \in Nat \ {0} /\ MaxBytes \in Nat
ASSUME NoneAssumption == None \notin Clients

VARIABLES
    queue,      \* connections that wait in the listening socket's queue
    acc,        \* the accept operation: "pending", "ok" or "err"
    socket,     \* Server::socket: the connection it holds, or None
    op,         \* op[c]: the operation of the session of c, "none" without one
    data,       \* data[c]: the bytes read into Session::data, not yet sent back
    conn        \* conn[c]: the TCP connection

vars == <<queue, acc, socket, op, data, conn>>

NewConn == [peer |-> "none", sent |-> 0, inb |-> << >>, out |-> << >>]

Init ==
    /\ queue = << >>
    /\ acc = "pending"
    /\ socket = None
    /\ op = [c \in Clients |-> "none"]
    /\ data = [c \in Clients |-> << >>]
    /\ conn = [c \in Clients |-> NewConn]

(* The peers: they connect, send, close one or both directions.            *)

Connect(c) ==
    /\ conn[c].peer = "none"
    /\ conn' = [conn EXCEPT ![c].peer = "up"]
    /\ queue' = Append(queue, c)
    /\ UNCHANGED <<acc, socket, op, data>>

\* A byte is named by its position in the stream.
PeerSend(c) ==
    /\ conn[c].peer = "up"
    /\ conn[c].sent < MaxBytes
    /\ conn' = [conn EXCEPT ![c].sent = @ + 1,
                            ![c].inb = Append(@, conn[c].sent + 1)]
    /\ UNCHANGED <<queue, acc, socket, op, data>>

PeerFinish(c) ==
    /\ conn[c].peer = "up"
    /\ conn' = [conn EXCEPT ![c].peer = "fin"]
    /\ UNCHANGED <<queue, acc, socket, op, data>>

PeerReset(c) ==
    /\ conn[c].peer \in {"up", "fin"}
    /\ conn' = [conn EXCEPT ![c].peer = "reset"]
    /\ UNCHANGED <<queue, acc, socket, op, data>>

(* The reactor: the system calls of the operations.                        *)

AcceptReady ==
    /\ acc = "pending"
    /\ queue # << >>
    /\ queue' = Tail(queue)
    /\ socket' = Head(queue)
    /\ acc' = "ok"
    /\ UNCHANGED <<op, data, conn>>

AcceptError ==
    /\ acc = "pending"
    /\ acc' = "err"
    /\ UNCHANGED <<queue, socket, op, data, conn>>

\* recv() into data, from its beginning: as much as has arrived and fits
ReadReady(c) ==
    LET inb == conn[c].inb
        n == IF maxLength < Len(inb) THEN maxLength ELSE Len(inb)
    IN  /\ op[c] = "reading"
        /\ inb # << >>
        /\ data' = [data EXCEPT ![c] = SubSeq(inb, 1, n)]
        /\ conn' = [conn EXCEPT ![c].inb = SubSeq(@, n + 1, Len(@))]
        /\ op' = [op EXCEPT ![c] = "read"]
        /\ UNCHANGED <<queue, acc, socket>>

ReadFails(c) ==
    /\ op[c] = "reading"
    /\ \/ conn[c].peer = "fin" /\ conn[c].inb = << >>
       \/ conn[c].peer = "reset"
    /\ op' = [op EXCEPT ![c] = "failed"]
    /\ UNCHANGED <<queue, acc, socket, data, conn>>

\* mutant: async_write_some, which completes with the first send
SendSome_short(c) ==
    /\ op[c] = "writing"
    /\ conn[c].peer \in {"up", "fin"}
    /\ \E k \in 1..Len(data[c]) :
         /\ conn' = [conn EXCEPT ![c].out = @ \o SubSeq(data[c], 1, k)]
         /\ data' = [data EXCEPT ![c] = SubSeq(@, k + 1, Len(@))]
         /\ op' = [op EXCEPT ![c] = "written"]
    /\ UNCHANGED <<queue, acc, socket>>

\* One send() of async_write; the operation completes with the last byte.
SendSome(c) ==
    /\ op[c] = "writing"
    /\ conn[c].peer \in {"up", "fin"}
    /\ \E k \in 1..Len(data[c]) :
         /\ conn' = [conn EXCEPT ![c].out = @ \o SubSeq(data[c], 1, k)]
         /\ data' = [data EXCEPT ![c] = SubSeq(@, k + 1, Len(@))]
         /\ op' = [op EXCEPT ![c] = IF k = Len(data[c]) THEN "written" ELSE @]
    /\ UNCHANGED <<queue, acc, socket>>

SendFails(c) ==
    /\ op[c] = "writing"
    /\ conn[c].peer = "reset"
    /\ op' = [op EXCEPT ![c] = "failed"]
    /\ UNCHANGED <<queue, acc, socket, data, conn>>

(* The handlers.                                                           *)

\* mutant: the socket is not moved out of the member
OnAccept_keep ==
    /\ \/ /\ acc = "ok"
          /\ op' = [op EXCEPT ![socket] = "reading"]
       \/ /\ acc = "err"
          /\ UNCHANGED op
    /\ acc' = "pending"
    /\ UNCHANGED <<queue, socket, data, conn>>

\* The handler of async_accept: move the socket into a new session and start it,
\* or ignore the error; accept again in both cases.
OnAccept ==
    /\ \/ /\ acc = "ok"
          /\ op' = [op EXCEPT ![socket] = "reading"]
          /\ socket' = None
       \/ /\ acc = "err"
          /\ UNCHANGED <<op, socket>>
    /\ acc' = "pending"
    /\ UNCHANGED <<queue, data, conn>>

\* The handlers of do_read and do_write.  On an error neither starts anything:
\* the last shared_ptr goes away and the session is destroyed.
OnRead(c) ==
    /\ op[c] = "read"
    /\ op' = [op EXCEPT ![c] = "writing"]
    /\ UNCHANGED <<queue, acc, socket, data, conn>>

\* mutant: no read follows the write
OnWritten_end(c) ==
    /\ op[c] = "written"
    /\ op' = [op EXCEPT ![c] = "none"]
    /\ UNCHANGED <<queue, acc, socket, data, conn>>

OnWritten(c) ==
    /\ op[c] = "written"
    /\ op' = [op EXCEPT ![c] = "reading"]
    /\ UNCHANGED <<queue, acc, socket, data, conn>>

OnError(c) ==
    /\ op[c] = "failed"
    /\ op' = [op EXCEPT ![c] = "destroyed"]
    /\ UNCHANGED <<queue, acc, socket, data, conn>>

ServerNext ==
    \/ AcceptReady
    \/ AcceptError
    \/ OnAccept
    \/ \E c \in Clients : ReadReady(c)
    \/ \E c \in Clients : ReadFails(c)
    \/ \E c \in Clients : SendSome(c)
    \/ \E c \in Clients : SendFails(c)
    \/ \E c \in Clients : OnRead(c)
    \/ \E c \in Clients : OnWritten(c)
    \/ \E c \in Clients : OnError(c)

PeerNext(c) == Connect(c) \/ PeerSend(c) \/ PeerFinish(c) \/ PeerReset(c)

Next == ServerNext \/ \E c \in Clients : PeerNext(c)

Spec == Init /\ [][Next]_vars

\* Queued handlers run, the reactor reports readiness, a peer that is up reads
\* what was sent to it, and accept() does not fail for ever.
Fairness ==
    /\ SF_vars(AcceptReady)
    /\ WF_vars(OnAccept)
    /\ \A c \in Clients : /\ WF_vars(ReadReady(c))
                          /\ WF_vars(ReadFails(c))
                          /\ WF_vars(SendSome(c))
                          /\ WF_vars(SendFails(c))
                          /\ WF_vars(OnRead(c))
                          /\ WF_vars(OnWritten(c))
                          /\ WF_vars(OnError(c))

FairSpec == Spec /\ Fairness

(* Properties.                                                             *)

Byte == 1..MaxBytes

ConnType ==
    [peer : {"none", "up", "fin", "reset"}, sent : 0..MaxBytes,
     inb : Seq(Byte), out : Seq(Byte)]

\* Server::socket is one member for all connections.  A connection is in the
\* queue, in that member or in a session, never in two of them and never twice
\* in the queue: no accept overwrites a connection that was not handed on.
ConnectionHasOneOwner ==
    /\ acc = "ok" <=> socket # None
    /\ \A i, j \in DOMAIN queue : queue[i] = queue[j] => i = j
    /\ \A i \in DOMAIN queue : queue[i] # socket /\ op[queue[i]] = "none"
    /\ socket # None => op[socket] = "none"
    /\ \A c \in Clients :
         conn[c].peer # "none" /\ op[c] = "none"
            => c = socket \/ \E i \in DOMAIN queue : queue[i] = c

\* A connection is dropped only for an error of its own.  A session whose peer
\* still sends and reads is never destroyed, whatever happens to the others.
DroppedOnlyOnError ==
    \A c \in Clients :
        op[c] \in {"failed", "destroyed"} =>
            \/ conn[c].peer = "reset"
            \/ /\ conn[c].peer = "fin"
               /\ conn[c].inb = << >>
               /\ Len(conn[c].out) = conn[c].sent

\* The server implements the echo: the bytes sent by a client are the input, the
\* bytes sent back the output, and a connection is up until its peer resets it or
\* its session is destroyed.
Stream(c) == [i \in 1..conn[c].sent |-> i]

Abstract == INSTANCE EchoStream
    WITH in  <- [c \in Clients |-> Stream(c)],
         out <- [c \in Clients |-> conn[c].out],
         up  <- [c \in Clients |-> conn[c].peer # "reset"
                                   /\ op[c] # "destroyed"]

\* The safety part and the fairness of EchoStream: every byte comes back in
\* order, unchanged and once, and in the end all of them unless the connection
\* goes down.
ImplementsEcho == Abstract!EchoSpec
====
