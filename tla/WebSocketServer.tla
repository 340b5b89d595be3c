---- MODULE WebSocketServer ----
(***************************************************************************)
(* The three servers of src/Beast/web_sockets/WebSocketServers.cpp.        *)
(*                                                                         *)
(* SSL_Asynch_Server: a listener that accepts for ever and sessions that   *)
(* answer a message m with "[" m "]".  Four threads run the io_context;    *)
(* the handlers of a session are on its strand, so a handler is one        *)
(* action.  The text of the answer is a local variable of on_read:         *)
(* async_write gets a view of it and the text is destroyed when on_read    *)
(* returns.  What the TLS layer has copied by then is safe, the rest is    *)
(* read from freed memory and may be anything.                             *)
(*                                                                         *)
(* SimpleServer and SSLServer: a detached thread for each connection that  *)
(* reads, writes back and has no timeout.                                  *)
(***************************************************************************)
EXTENDS Integers, SequencesExt

CONSTANTS Clients,  \* the connections that may arrive
          Copied,   \* the pieces of a message the TLS layer copies at once
          MaxLen,   \* bound: the pieces of a message
          MaxMsgs,  \* bound: the messages a client sends
          None

ASSUME BoundAssumption == {Copied, MaxLen, MaxMsgs} \subseteq Nat
ASSUME NoneAssumption == None \notin Clients

\* A piece of a message is <<n, k>>, the k-th of the n-th message of its client.
Junk   == <<0, 0>>
\* The frame that closes a WebSocket
Closed == <<-1, 0>>

VARIABLES
    mode,       \* which server runs: "async", "ssl" or "simple"
    running,    \* the process has not ended
    acc,        \* the accept operation: "pending", "ok" or "err"
    queue,      \* connections that wait in the listening socket's queue
    socket,     \* the connection a completed accept delivers
    at,         \* at[c]: the operation the session of c is at
    op,         \* op[c]: "waiting", or how it completed
    broken,     \* broken[c]: an operation of the stream has failed
    buffer,     \* buffer[c]: the message that is being read or answered
    copied,     \* copied[c]: the pieces of the answer that were copied in time
    pinging,    \* pinging[c]: the stream is writing a ping of its own
    held,       \* history: held[c]: a ping held up the last answer
    conn        \* conn[c]: the connection, as its peer sees it

vars == <<mode, running, acc, queue, socket, at, op, broken, buffer, copied, pinging, held,
          conn>>

listener == <<mode, running, acc, queue, socket>>

NewConn == [peer |-> "none", hello |-> 0, lens |-> << >>, wire |-> << >>,
            got |-> << >>]

Init ==
    /\ mode \in {"async", "ssl", "simple"}
    /\ running = TRUE
    /\ acc = "pending"
    /\ queue = << >>
    /\ socket = None
    /\ at = [c \in Clients |-> "none"]
    /\ op = [c \in Clients |-> "none"]
    /\ broken = [c \in Clients |-> FALSE]
    /\ buffer = [c \in Clients |-> << >>]
    /\ copied = [c \in Clients |-> 0]
    /\ pinging = [c \in Clients |-> FALSE]
    /\ held = [c \in Clients |-> FALSE]
    /\ conn = [c \in Clients |-> NewConn]

(* The clients.                                                            *)

Message(n, len) == [k \in 1..len |-> <<n, k>>]

Connect(c) ==
    /\ running
    /\ conn[c].peer = "none"
    /\ conn' = [conn EXCEPT ![c].peer = "up"]
    /\ queue' = Append(queue, c)
    /\ UNCHANGED <<mode, running, acc, socket, at, op, broken, buffer, copied, pinging, held>>

\* The client does its part of the TLS and then of the WebSocket handshake.
Hello(c) ==
    /\ conn[c].peer = "up"
    /\ conn[c].hello < 2
    /\ conn' = [conn EXCEPT ![c].hello = @ + 1]
    /\ UNCHANGED <<listener, at, op, broken, buffer, copied, pinging, held>>

SendMessage(c) ==
    /\ conn[c].peer = "up" /\ conn[c].hello = 2 /\ at[c] # "gone"
    /\ Len(conn[c].lens) < MaxMsgs
    /\ \E len \in 1..MaxLen :
         conn' = [conn EXCEPT
                    ![c].lens = Append(@, len),
                    ![c].wire = @ \o Message(Len(conn[c].lens) + 1, len)]
    /\ UNCHANGED <<listener, at, op, broken, buffer, copied, pinging, held>>

\* The client says good-bye, or the connection breaks.
Leave(c) ==
    /\ conn[c].peer = "up"
    /\ \/ /\ conn[c].hello = 2
          /\ conn' = [conn EXCEPT ![c].peer = "closed",
                                  ![c].wire = Append(@, Closed)]
       \/ conn' = [conn EXCEPT ![c].peer = "reset"]
    /\ UNCHANGED <<listener, at, op, broken, buffer, copied, pinging, held>>

(* The operations of a stream.                                             *)

Waits(c, phase) == running /\ at[c] = phase /\ op[c] = "waiting"

Completes(c, how) == op' = [op EXCEPT ![c] = how]

HandshakeDone(c) ==
    /\ \/ Waits(c, "handshake") /\ conn[c].hello >= 1
       \/ Waits(c, "accept") /\ conn[c].hello = 2
    /\ Completes(c, "ok")
    /\ UNCHANGED <<listener, at, broken, buffer, copied, pinging, held, conn>>

\* One piece of a message is read; its last piece completes the read.
ReadSome(c) ==
    /\ Waits(c, "read") /\ ~broken[c]
    /\ conn[c].wire # << >>
    /\ LET p == Head(conn[c].wire)
       IN  \/ /\ p = Closed
              /\ Completes(c, "closed")
              /\ broken' = [broken EXCEPT ![c] = TRUE]
              /\ UNCHANGED buffer
           \/ /\ p # Closed
              /\ buffer' = [buffer EXCEPT ![c] = Append(@, p)]
              /\ op' = [op EXCEPT ![c] =
                          IF p[2] = conn[c].lens[p[1]] THEN "ok" ELSE @]
              /\ UNCHANGED broken
    /\ conn' = [conn EXCEPT ![c].wire = Tail(@)]
    /\ UNCHANGED <<listener, at, copied, pinging, held>>

\* The frame of the answer leaves: what was not copied in time is what the memory
\* holds by now, the text or something else.
WriteDone(c) ==
    /\ Waits(c, "write") /\ ~broken[c] /\ ~pinging[c]
    /\ conn[c].peer # "reset"
    /\ \E bad \in SUBSET ((copied[c] + 1)..Len(buffer[c])) :
         conn' = [conn EXCEPT ![c].got = Append(@,
                    [k \in DOMAIN buffer[c] |->
                       IF k \in bad THEN Junk ELSE buffer[c][k]])]
    /\ Completes(c, "ok")
    /\ UNCHANGED <<listener, at, broken, buffer, copied, pinging, held>>

\* Any operation on a broken stream or connection fails.
Fails(c) ==
    /\ Waits(c, at[c])
    /\ broken[c] \/ conn[c].peer = "reset"
    /\ Completes(c, "error")
    /\ broken' = [broken EXCEPT ![c] = TRUE]
    /\ UNCHANGED <<listener, at, buffer, copied, pinging, held, conn>>

\* The timeout of the TLS handshake (30 s), of the WebSocket handshake and of an
\* idle peer (the suggested settings): the operation fails.
Timeout(c) ==
    /\ mode = "async"
    /\ Waits(c, at[c])
    /\ Completes(c, "error")
    /\ broken' = [broken EXCEPT ![c] = TRUE]
    /\ UNCHANGED <<listener, at, buffer, copied, pinging, held, conn>>

\* The pings of the suggested settings; a write that is started meanwhile waits.
PingStarts(c) ==
    /\ mode = "async"
    /\ Waits(c, "read") /\ ~broken[c] /\ ~pinging[c]
    /\ pinging' = [pinging EXCEPT ![c] = TRUE]
    /\ UNCHANGED <<listener, at, op, broken, buffer, copied, held, conn>>

PingEnds(c) ==
    /\ pinging[c]
    /\ pinging' = [pinging EXCEPT ![c] = FALSE]
    /\ UNCHANGED <<listener, at, op, broken, buffer, copied, held, conn>>

(* The handlers of a session.                                              *)

Starts(c, phase) ==
    /\ at' = [at EXCEPT ![c] = phase]
    /\ op' = [op EXCEPT ![c] = IF phase = "gone" THEN "none" ELSE "waiting"]

On(c, phase) ==
    running /\ at[c] = phase /\ op[c] \in {"ok", "closed", "error"}

\* on_run, on_handshake and on_accept: the next operation, or the end
on_setup(c) ==
    /\ \/ On(c, "run") /\ Starts(c, "handshake")
       \/ On(c, "handshake") /\ Starts(c, IF op[c] = "ok" THEN "accept" ELSE "gone")
       \/ On(c, "accept") /\ Starts(c, IF op[c] = "ok" THEN "read" ELSE "gone")
    /\ UNCHANGED <<listener, broken, buffer, copied, pinging, held, conn>>

\* The pieces of the text that async_write takes before on_read returns: none
\* when the stream is busy with a ping.
TakenAtOnce(c) ==
    IF pinging[c] THEN 0
    ELSE IF Copied < Len(buffer[c]) THEN Copied ELSE Len(buffer[c])

\* mutant: no part of the text outlives on_read
on_read_late(c) ==
    /\ mode = "async"
    /\ On(c, "read")
    /\ Starts(c, IF op[c] = "closed" THEN "gone" ELSE "write")
    /\ copied' = [copied EXCEPT ![c] = 0]
    /\ held' = [held EXCEPT ![c] = pinging[c]]
    /\ UNCHANGED <<listener, broken, buffer, pinging, conn>>

\* Only error::closed returns.  Any other error is reported and the handler goes
\* on: it writes what is in the buffer, to a stream that has failed.
on_read(c) ==
    /\ mode = "async"
    /\ On(c, "read")
    /\ Starts(c, IF op[c] = "closed" THEN "gone" ELSE "write")
    /\ copied' = [copied EXCEPT ![c] = TakenAtOnce(c)]
    /\ held' = [held EXCEPT ![c] = pinging[c]]
    /\ UNCHANGED <<listener, broken, buffer, pinging, conn>>

\* The loop of handleSession writes back what it has read, from a buffer that
\* lives until the write returns; any error is an exception that ends it.
write_back(c) ==
    /\ mode # "async"
    /\ On(c, "read")
    /\ Starts(c, IF op[c] = "ok" THEN "write" ELSE "gone")
    /\ copied' = [copied EXCEPT ![c] = Len(buffer[c])]
    /\ UNCHANGED <<listener, broken, buffer, pinging, held, conn>>

\* mutant: the buffer is not cleared
on_write_keep(c) ==
    /\ On(c, "write")
    /\ \/ op[c] = "error" /\ Starts(c, "gone")
       \/ op[c] = "ok" /\ Starts(c, "read")
    /\ UNCHANGED <<listener, buffer, broken, copied, pinging, held, conn>>

\* mutant: no read follows the write
on_write_once(c) ==
    /\ On(c, "write")
    /\ Starts(c, "gone")
    /\ UNCHANGED <<listener, buffer, broken, copied, pinging, held, conn>>

\* The next read, into an empty buffer; the same in the loop of handleSession
on_write(c) ==
    /\ On(c, "write")
    /\ \/ op[c] = "error" /\ Starts(c, "gone") /\ UNCHANGED buffer
       \/ /\ op[c] = "ok"
          /\ buffer' = [buffer EXCEPT ![c] = << >>]
          /\ Starts(c, "read")
    /\ UNCHANGED <<listener, broken, copied, pinging, held, conn>>

(* The listener.                                                           *)

AcceptReady ==
    /\ acc = "pending"
    /\ queue # << >>
    /\ acc' = "ok"
    /\ socket' = Head(queue)
    /\ queue' = Tail(queue)
    /\ UNCHANGED <<mode, running, at, op, broken, buffer, copied, pinging, held, conn>>

AcceptError ==
    /\ acc = "pending"
    /\ acc' = "err"
    /\ UNCHANGED <<mode, running, queue, socket, at, op, broken, buffer, copied, pinging, held, conn>>

\* A session for a connection, nothing for an error; accept again in both cases.
on_accept ==
    /\ mode = "async"
    /\ \/ /\ acc = "ok"
          /\ at' = [at EXCEPT ![socket] = "run"]
          /\ op' = [op EXCEPT ![socket] = "ok"]
          /\ socket' = None
       \/ /\ acc = "err"
          /\ UNCHANGED <<at, op, socket>>
    /\ acc' = "pending"
    /\ UNCHANGED <<mode, running, queue, broken, buffer, copied, pinging, held, conn>>

\* runServer of the synchronous servers: a thread for each connection.  An exception
\* of accept leaves the loop, the process ends and with it every session.
accept_loop ==
    /\ mode # "async"
    /\ \/ /\ acc = "ok"
          /\ at' = [at EXCEPT ![socket] = IF mode = "ssl" THEN "handshake"
                                                         ELSE "accept"]
          /\ op' = [op EXCEPT ![socket] = "waiting"]
          /\ socket' = None
          /\ acc' = "pending"
          /\ UNCHANGED running
       \/ /\ acc = "err"
          /\ running
          /\ running' = FALSE
          /\ UNCHANGED <<acc, at, op, socket>>
    /\ UNCHANGED <<mode, queue, broken, buffer, copied, pinging, held, conn>>

OperationNext(c) ==
    \/ HandshakeDone(c) \/ ReadSome(c) \/ WriteDone(c) \/ Fails(c) \/ Timeout(c)
    \/ PingStarts(c) \/ PingEnds(c)

HandlerNext(c) == on_setup(c) \/ on_read(c) \/ write_back(c) \/ on_write(c)

ClientNext(c) == Connect(c) \/ Hello(c) \/ SendMessage(c) \/ Leave(c)

Next ==
    \/ AcceptReady \/ AcceptError \/ on_accept \/ accept_loop
    \/ \E c \in Clients : OperationNext(c) \/ HandlerNext(c) \/ ClientNext(c)

Spec == Init /\ [][Next]_vars

\* Queued handlers run, the reactor reports what it knows, a ping gets through
\* and accept() does not fail for ever.
FairSpec ==
    /\ Spec
    /\ SF_vars(AcceptReady) /\ WF_vars(on_accept \/ accept_loop)
    /\ \A c \in Clients : /\ WF_vars(HandlerNext(c)) /\ WF_vars(Fails(c))
                          /\ WF_vars(HandshakeDone(c)) /\ WF_vars(ReadSome(c))
                          /\ SF_vars(WriteDone(c)) /\ WF_vars(PingEnds(c))

(* Properties.                                                             *)

\* The answers come in the order of the messages, one for each and none with the
\* text of another, and nothing is sent after an error although on_read goes on
\* to write.  What the TLS layer copied in time is the message.
AnswersMatch ==
    \A c \in Clients : \A n \in DOMAIN conn[c].got :
        /\ n <= Len(conn[c].lens)
        /\ LET answer == conn[c].got[n]
           IN  /\ Len(answer) = conn[c].lens[n]
               /\ \A k \in DOMAIN answer : answer[k] \in {<<n, k>>, Junk}

\* A short answer that meets no ping arrives as it was: the bytes that are lost
\* are those that no copy was made of when on_read returned.  The synchronous servers
\* lose none.
IntactUnlessLate ==
    [][\A c \in Clients :
         conn'[c].got # conn[c].got =>
            LET answer == Last(conn'[c].got)
            IN  \A k \in DOMAIN answer :
                  \/ answer[k] # Junk
                  \/ mode = "async" /\ (k > Copied \/ held[c])]_vars

\* A session whose stream has failed ends, although on_read does not return on an
\* error.
BrokenSessionEnds ==
    \A c \in Clients : broken[c] ~> (at[c] = "gone" \/ ~running)

\* A message that has arrived is answered, unless the connection fails: pings and
\* errors of other connections do not hold it up.
MessagesAnswered ==
    \A c \in Clients : \A n \in 1..MaxMsgs :
        (at[c] = "read" /\ Len(conn[c].lens) >= n)
            ~> (Len(conn[c].got) >= n \/ broken[c] \/ ~running)

\* No session hangs: it answers or it ends, both of the above.
SessionProgress == BrokenSessionEnds /\ MessagesAnswered

====
