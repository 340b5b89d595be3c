---- MODULE TcpEchoClient ----
(***************************************************************************)
(* The blocking client of src/Networking/TCPEchoServerClient.cpp against   *)
(* the server of TcpEcho: connect, write the request, read exactly as many *)
(* bytes as the request has, close.  Any error is an exception that ends   *)
(* the client.  The other connections come from peers that do as they      *)
(* like.                                                                   *)
(***************************************************************************)
EXTENDS TcpEcho

CONSTANT Blocking   \* the connections of blocking clients

ASSUME BlockingAssumption == Blocking \subseteq Clients

VARIABLES pc,       \* pc[c]: where client() of c stands
          reply     \* reply[c]: the bytes that asio::read has collected

clientVars == <<vars, pc, reply>>

ASSUME RequestAssumption == MaxBytes > 0

requestSize == MaxBytes

ClientInit ==
    /\ Init
    /\ pc = [c \in Clients |-> "connect"]
    /\ reply = [c \in Clients |-> << >>]

ClientConnect(c) ==
    /\ pc[c] = "connect"
    /\ Connect(c)
    /\ pc' = [pc EXCEPT ![c] = "write"]
    /\ UNCHANGED reply

\* asio::write returns when the whole request is sent.
ClientWrite(c) ==
    /\ pc[c] = "write"
    /\ PeerSend(c)
    /\ pc' = [pc EXCEPT ![c] = IF conn'[c].sent = requestSize THEN "read"
                                                             ELSE @]
    /\ UNCHANGED reply

\* mutant: read_some, which returns what is there
ClientRead_some(c) ==
    /\ pc[c] = "read"
    /\ \E n \in 1..Len(conn[c].out) :
         reply' = [reply EXCEPT ![c] = SubSeq(conn[c].out, 1, n)]
    /\ pc' = [pc EXCEPT ![c] = "close"]
    /\ UNCHANGED vars

\* mutant: the whole of the reply buffer is asked for
ClientRead_all(c) ==
    /\ pc[c] = "read"
    /\ Len(conn[c].out) > requestSize
    /\ reply' = [reply EXCEPT ![c] = conn[c].out]
    /\ pc' = [pc EXCEPT ![c] = "close"]
    /\ UNCHANGED vars

\* asio::read returns when the reply is as long as the request.
ClientRead(c) ==
    /\ pc[c] = "read"
    /\ \E n \in (Len(reply[c]) + 1)..Len(conn[c].out) :
         /\ n <= requestSize
         /\ reply' = [reply EXCEPT ![c] = SubSeq(conn[c].out, 1, n)]
         /\ pc' = [pc EXCEPT ![c] = IF n = requestSize THEN "close" ELSE @]
    /\ UNCHANGED vars

\* The socket is closed at the end of its scope.
ClientClose(c) ==
    /\ pc[c] = "close"
    /\ PeerFinish(c)
    /\ pc' = [pc EXCEPT ![c] = "done"]
    /\ UNCHANGED reply

\* The connection breaks: write or read throws, client() prints and returns.
ClientThrows(c) ==
    /\ pc[c] \in {"write", "read"}
    /\ PeerReset(c)
    /\ pc' = [pc EXCEPT ![c] = "failed"]
    /\ UNCHANGED reply

ClientNext ==
    \/ ServerNext /\ UNCHANGED <<pc, reply>>
    \/ \E c \in Blocking : ClientConnect(c)
    \/ \E c \in Blocking : ClientWrite(c)
    \/ \E c \in Blocking : ClientRead(c)
    \/ \E c \in Blocking : ClientClose(c)
    \/ \E c \in Blocking : ClientThrows(c)
    \/ \E c \in Clients \ Blocking : PeerNext(c) /\ UNCHANGED <<pc, reply>>

ClientSpec ==
    /\ ClientInit
    /\ [][ClientNext]_clientVars
    /\ Fairness
    /\ \A c \in Blocking : /\ WF_clientVars(ClientConnect(c))
                           /\ WF_clientVars(ClientWrite(c))
                           /\ WF_clientVars(ClientRead(c))
                           /\ WF_clientVars(ClientClose(c))

\* client() ends, with the reply to its own request or with an exception: reading
\* exactly request.size() bytes never waits for a byte that will not come.
ClientEnds == \A c \in Blocking : <>(pc[c] \in {"done", "failed"})

\* What client() prints as the reply is the request, however server and client
\* split it into sends and reads and whatever other clients do meanwhile.
ReplyIsRequest ==
    \A c \in Blocking : pc[c] = "done" => reply[c] = [i \in 1..requestSize |-> i]
====
