---- MODULE TcpServer ----
(***************************************************************************)
(* The allocation-free TCP echo server of src/Asio_TcpServer/main.cpp.     *)
(*                                                                         *)
(* One thread runs io.run(): it takes one completed operation at a time    *)
(* and runs its handler to the end.  A handler is therefore one action     *)
(* here, with every call it makes.  The reactor (which performs the        *)
(* recv/send/accept system calls on behalf of the operations) and the      *)
(* peers interleave with the handlers.                                     *)
(*                                                                         *)
(* The methods of Session are operators from the record of a session to    *)
(* its record after the call, so that a handler composes them in the order *)
(* in which the code calls them.                                           *)
(***************************************************************************)
EXTENDS Integers, Sequences, FiniteSets

CONSTANTS MaxSessions,  \* MAX_SESSIONS
          RxSize,       \* RX_SIZE
          TxSize,       \* TX_SIZE
          MaxConn,      \* bound: connections that ever arrive
          MaxBytes      \* bound: bytes a peer sends on one connection

ASSUME SizeAssumption ==
    /\ MaxSessions \in Nat \ {0}
    /\ RxSize \in Nat \ {0}
    /\ TxSize \in Nat
    /\ RxSize <= TxSize       \* the memcpy of on_data stays inside tx

ASSUME BoundAssumption == MaxConn \in Nat /\ MaxBytes \in Nat

Slots == 1..MaxSessions

\* A peer sends the bytes 1, 2, 3, ... so that a byte names its position in the
\* stream; 0 is a byte of tx that was never written (the arrays of a Session
\* have no initialiser).
Byte  == 1..MaxBytes
Junk  == 0

VARIABLES
    sessions,   \* the slots of SessionPool::sessions that hold a value
    ses,        \* the Session of each slot
    conn,       \* the TCP connection behind each slot, as its peer sees it
    acc,        \* the accept operation of Server::do_accept
    backlog,    \* connections that wait in the listening socket's queue
    arrived,    \* connections that ever arrived
    accepted,   \* history: accept operations that succeeded
    running     \* io.run() has not returned

vars == <<sessions, ses, conn, acc, backlog, arrived, accepted, running>>

(* A Session.                                                              *)
(*   rx, tx   rx holds the first rx_used bytes of Session::rx              *)
(*   rd       its read operation: none, waiting in the reactor, or         *)
(*            completed (with data, with an error) and queued for io.run() *)
(*   got      what a completed read has put behind rx_used                 *)
(*   wq       the async_write operations that wait in the reactor, which   *)
(*            serves the writes of a socket in the order they were issued  *)
(*   wdone    the async_write operations whose last send completed and     *)
(*            whose continuation is queued for io.run()                    *)
(*   overlap  history: on_data ran while an earlier write was incomplete   *)

NewSession ==
    [sock |-> "idle", rx |-> << >>, tx |-> [i \in 1..TxSize |-> Junk],
     rd |-> "none", got |-> << >>, wq |-> << >>, wdone |-> << >>,
     overlap |-> FALSE]

NoConn == [peer |-> "none", sent |-> 0, inb |-> << >>, out |-> << >>]

Remaining(w) == w.len - w.off
Failed(w)    == [w EXCEPT !.ok = FALSE]

\* socket.async_read_some: refused on the spot when the socket is closed
DoRead(r) ==
    [r EXCEPT !.rd = IF r.sock = "open" THEN "armed" ELSE "failed"]

\* Starting (or continuing) an async_write: the operation joins the queue of the
\* reactor, or completes at once with bad_descriptor on a closed socket.
IssueWrite(r, w) ==
    IF r.sock = "open"
    THEN [r EXCEPT !.wq = Append(@, w)]
    ELSE [r EXCEPT !.wdone = Append(@, Failed(w))]

DoWrite(r, n) == IssueWrite(r, [off |-> 0, len |-> n, ok |-> TRUE])

Unfinished(r) ==
    \/ r.wq # << >>
    \/ \E i \in DOMAIN r.wdone : Remaining(r.wdone[i]) > 0

\* memcpy(tx, rx, rx_used), then the write of the rx_used bytes
OnData(r) ==
    DoWrite([r EXCEPT
               !.tx = [i \in 1..TxSize |-> IF i <= Len(r.rx) THEN r.rx[i]
                                                            ELSE r.tx[i]],
               !.rx = << >>,
               !.overlap = @ \/ Unfinished(r)],
            Len(r.rx))

\* shutdown and close: the reactor aborts what waits in it, and the aborted
\* operations are queued with operation_aborted.
Close(r) ==
    [r EXCEPT
       !.sock  = "closed",
       !.rd    = IF @ = "armed" THEN "failed" ELSE @,
       !.wq    = << >>,
       !.wdone = @ \o [i \in DOMAIN r.wq |-> Failed(r.wq[i])]]

\* mutant: the read is not re-armed
OnReadData_once(r) ==
    OnData([r EXCEPT !.rd = "none", !.rx = @ \o r.got, !.got = << >>])

OnReadData(r) ==
    DoRead(OnData([r EXCEPT !.rd = "none", !.rx = @ \o r.got, !.got = << >>]))

\* mutant: the handler returns without close()
OnReadError_forget(r) == [r EXCEPT !.rd = "none"]

OnReadError(r) == Close([r EXCEPT !.rd = "none"])

\* mutant: a short send is taken for the whole write
OnWritten_short(r) ==
    LET rest == [r EXCEPT !.wdone = Tail(@)]
    IN  IF ~Head(r.wdone).ok THEN Close(rest) ELSE rest

\* mutant: a short send is continued from the start of tx
OnWritten_restart(r) ==
    LET w    == Head(r.wdone)
        rest == [r EXCEPT !.wdone = Tail(@)]
    IN  IF ~w.ok THEN Close(rest)
        ELSE IF Remaining(w) > 0 THEN IssueWrite(rest, [w EXCEPT !.off = 0])
        ELSE rest

\* The continuation of an async_write: close on an error, send the rest after a
\* short send, nothing once everything is sent.
OnWritten(r) ==
    LET w    == Head(r.wdone)
        rest == [r EXCEPT !.wdone = Tail(@)]
    IN  IF ~w.ok THEN Close(rest)
        ELSE IF Remaining(w) > 0 THEN IssueWrite(rest, w)
        ELSE rest

(* SessionPool and Server.                                                 *)

\* mutant: acquire() does not look at has_value()
FirstFree_any(busy, s) == s = 1

\* SessionPool::acquire takes the first slot without a value.
FirstFree(busy, s) ==
    /\ s \in Slots \ busy
    /\ \A t \in Slots \ busy : s <= t

Stopped == [st |-> "stopped", slot |-> 0]

\* Server::do_accept on a pool whose busy slots are "busy" and whose sessions
\* are "f": the loop ends for good when acquire() returns a null pointer.
DoAccept(busy, f) ==
    \/ /\ busy = Slots
       /\ sessions' = busy
       /\ ses' = f
       /\ acc' = Stopped
    \/ \E s \in Slots :
         /\ busy # Slots
         /\ FirstFree(busy, s)
         /\ sessions' = busy \cup {s}
         /\ ses' = [f EXCEPT ![s] = NewSession]
         /\ acc' = [st |-> "pending", slot |-> s]

Init ==
    /\ sessions = {1}
    /\ ses = [s \in Slots |-> NewSession]
    /\ conn = [s \in Slots |-> NoConn]
    /\ acc = [st |-> "pending", slot |-> 1]
    /\ backlog = 0
    /\ arrived = 0
    /\ accepted = 0
    /\ running = TRUE

(* The peers and the network.                                              *)

Connect ==
    /\ running
    /\ arrived < MaxConn
    /\ arrived' = arrived + 1
    /\ backlog' = backlog + 1
    /\ UNCHANGED <<sessions, ses, conn, acc, accepted, running>>

PeerSend(s) ==
    /\ conn[s].peer = "up"
    /\ conn[s].sent < MaxBytes
    /\ conn' = [conn EXCEPT ![s].sent = @ + 1,
                            ![s].inb  = Append(@, conn[s].sent + 1)]
    /\ UNCHANGED <<sessions, ses, acc, backlog, arrived, accepted, running>>

PeerFinish(s) ==
    /\ conn[s].peer = "up"
    /\ conn' = [conn EXCEPT ![s].peer = "fin"]
    /\ UNCHANGED <<sessions, ses, acc, backlog, arrived, accepted, running>>

PeerReset(s) ==
    /\ conn[s].peer \in {"up", "fin"}
    /\ conn' = [conn EXCEPT ![s].peer = "reset"]
    /\ UNCHANGED <<sessions, ses, acc, backlog, arrived, accepted, running>>

(* The reactor: it performs the system call of an operation and queues the *)
(* completed operation for io.run().                                       *)

\* The new connection lands in the socket of the slot that was acquired for it.
AcceptReady ==
    /\ running
    /\ acc.st = "pending"
    /\ backlog > 0
    /\ backlog' = backlog - 1
    /\ acc' = [acc EXCEPT !.st = "ok"]
    /\ ses' = [ses EXCEPT ![acc.slot].sock = "open"]
    /\ conn' = [conn EXCEPT ![acc.slot] = [NoConn EXCEPT !.peer = "up"]]
    /\ UNCHANGED <<sessions, arrived, accepted, running>>

\* accept() fails (no descriptor left, say)
AcceptError ==
    /\ running
    /\ acc.st = "pending"
    /\ acc' = [acc EXCEPT !.st = "err"]
    /\ UNCHANGED <<sessions, ses, conn, backlog, arrived, accepted, running>>

\* mutant: the read is not limited to the room in rx
ReadReady_overrun(s) ==
    /\ ses[s].rd = "armed"
    /\ conn[s].inb # << >>
    /\ ses' = [ses EXCEPT ![s].rd  = "data",
                          ![s].got = conn[s].inb]
    /\ conn' = [conn EXCEPT ![s].inb = << >>]
    /\ UNCHANGED <<sessions, acc, backlog, arrived, accepted, running>>

\* recv() returns what has arrived, as much as the rest of rx takes.
ReadReady(s) ==
    LET r == ses[s]
        c == conn[s]
        room == RxSize - Len(r.rx)
        n == IF room < Len(c.inb) THEN room ELSE Len(c.inb)
    IN  /\ r.rd = "armed"
        /\ c.inb # << >>
        /\ ses' = [ses EXCEPT ![s].rd  = "data",
                              ![s].got = SubSeq(c.inb, 1, n)]
        /\ conn' = [conn EXCEPT ![s].inb = SubSeq(@, n + 1, Len(@))]
        /\ UNCHANGED <<sessions, acc, backlog, arrived, accepted, running>>

\* recv() reports the end of the stream, or the reset.
ReadFails(s) ==
    /\ ses[s].rd = "armed"
    /\ \/ conn[s].peer = "fin" /\ conn[s].inb = << >>
       \/ conn[s].peer = "reset"
    /\ ses' = [ses EXCEPT ![s].rd = "failed"]
    /\ UNCHANGED <<sessions, conn, acc, backlog, arrived, accepted, running>>

\* send() takes some of the bytes of the oldest write, out of tx as it is now.
SendSome(s) ==
    /\ ses[s].wq # << >>
    /\ conn[s].peer \in {"up", "fin"}
    /\ LET w == Head(ses[s].wq)
       IN \E k \in 1..Remaining(w) :
            /\ conn' = [conn EXCEPT ![s].out =
                          @ \o [i \in 1..k |-> ses[s].tx[w.off + i]]]
            /\ ses' = [ses EXCEPT
                         ![s].wq = Tail(@),
                         ![s].wdone = Append(@, [w EXCEPT !.off = @ + k])]
    /\ UNCHANGED <<sessions, acc, backlog, arrived, accepted, running>>

SendFails(s) ==
    /\ ses[s].wq # << >>
    /\ conn[s].peer = "reset"
    /\ ses' = [ses EXCEPT ![s].wq = Tail(@),
                          ![s].wdone = Append(@, Failed(Head(ses[s].wq)))]
    /\ UNCHANGED <<sessions, conn, acc, backlog, arrived, accepted, running>>

(* The handlers, run one at a time by io.run().                            *)

\* The handler of async_accept: start the session, or give its slot back; then
\* accept again.
OnAccepted ==
    /\ acc.st = "ok"
    /\ accepted' = accepted + 1
    /\ DoAccept(sessions, [ses EXCEPT ![acc.slot] = DoRead(@)])
    /\ UNCHANGED <<conn, backlog, arrived, running>>

\* mutant: the failed accept keeps its slot
OnAcceptFailed_leak ==
    /\ acc.st = "err"
    /\ DoAccept(sessions, ses)
    /\ UNCHANGED <<conn, backlog, arrived, accepted, running>>

OnAcceptFailed ==
    /\ acc.st = "err"
    /\ DoAccept(sessions \ {acc.slot}, ses)
    /\ UNCHANGED <<conn, backlog, arrived, accepted, running>>

\* mutant: a session whose read failed gives its slot back at once
ReadHandler_release(s) ==
    /\ \/ /\ ses[s].rd = "data"
          /\ ses' = [ses EXCEPT ![s] = OnReadData(@)]
          /\ UNCHANGED sessions
       \/ /\ ses[s].rd = "failed"
          /\ ses' = [ses EXCEPT ![s] = OnReadError(@)]
          /\ sessions' = sessions \ {s}
    /\ UNCHANGED <<conn, acc, backlog, arrived, accepted, running>>

ReadHandler(s) ==
    /\ \/ /\ ses[s].rd = "data"
          /\ ses' = [ses EXCEPT ![s] = OnReadData(@)]
       \/ /\ ses[s].rd = "failed"
          /\ ses' = [ses EXCEPT ![s] = OnReadError(@)]
    /\ UNCHANGED <<sessions, conn, acc, backlog, arrived, accepted, running>>

WriteHandler(s) ==
    /\ ses[s].wdone # << >>
    /\ ses' = [ses EXCEPT ![s] = OnWritten(@)]
    /\ UNCHANGED <<sessions, conn, acc, backlog, arrived, accepted, running>>

Idle(s) == ses[s].rd = "none" /\ ses[s].wq = << >> /\ ses[s].wdone = << >>

\* io.run() returns when no operation is outstanding.
RunReturns ==
    /\ running
    /\ acc.st = "stopped"
    /\ \A s \in Slots : Idle(s)
    /\ running' = FALSE
    /\ UNCHANGED <<sessions, ses, conn, acc, backlog, arrived, accepted>>

Next ==
    \/ Connect
    \/ AcceptReady
    \/ AcceptError
    \/ OnAccepted
    \/ OnAcceptFailed
    \/ \E s \in Slots : PeerSend(s)
    \/ \E s \in Slots : PeerFinish(s)
    \/ \E s \in Slots : PeerReset(s)
    \/ \E s \in Slots : ReadReady(s)
    \/ \E s \in Slots : ReadFails(s)
    \/ \E s \in Slots : SendSome(s)
    \/ \E s \in Slots : SendFails(s)
    \/ \E s \in Slots : ReadHandler(s)
    \/ \E s \in Slots : WriteHandler(s)
    \/ RunReturns

Spec == Init /\ [][Next]_vars

\* io.run() never leaves a queued handler unrun and the reactor reports what it
\* knows of a socket; nothing is assumed of the peers (they need not read).
Fairness ==
    /\ WF_vars(OnAccepted)
    /\ WF_vars(OnAcceptFailed)
    /\ WF_vars(RunReturns)
    /\ \A s \in Slots : /\ WF_vars(ReadReady(s))
                        /\ WF_vars(ReadFails(s))
                        /\ WF_vars(ReadHandler(s))
                        /\ WF_vars(WriteHandler(s))

FairSpec == Spec /\ Fairness

(* Properties.                                                             *)

WriteOp == [off : 0..TxSize, len : 0..TxSize, ok : BOOLEAN]

SessionType ==
    [sock : {"idle", "open", "closed"}, rx : Seq(Byte),
     tx : [1..TxSize -> Byte \cup {Junk}],
     rd : {"none", "armed", "data", "failed"}, got : Seq(Byte),
     wq : Seq(WriteOp), wdone : Seq(WriteOp), overlap : BOOLEAN]

ConnType ==
    [peer : {"none", "up", "fin", "reset"}, sent : 0..MaxBytes,
     inb : Seq(Byte), out : Seq(Byte \cup {Junk})]

Types ==
    /\ sessions \subseteq Slots
    /\ ses \in [Slots -> SessionType]
    /\ conn \in [Slots -> ConnType]
    /\ \/ acc = Stopped
       \/ acc \in [st : {"pending", "ok", "err"}, slot : Slots]
    /\ backlog \in Nat
    /\ arrived \in Nat
    /\ accepted \in Nat
    /\ running \in BOOLEAN

\* What a completed read has put into rx, behind the rx_used bytes that are there
ReadFits(r) == Len(r.rx) + Len(r.got) <= RxSize

\* Every variable has its type: the accept operation names a slot of the pool until
\* the loop of Server::do_accept has ended, a write reads no byte behind the end of
\* tx, and a completed read has written none behind the end of rx.
TypeOK == Types /\ \A s \in Slots : ReadFits(ses[s])

\* Handlers capture a raw "this": no operation may be outstanding on a slot
\* whose optional is empty, the slot of the accept operation holds the session
\* it captured, and that session has not been started yet.
NoDanglingHandler ==
    /\ \A s \in Slots \ sessions : Idle(s)
    /\ acc # Stopped => acc.slot \in sessions /\ Idle(acc.slot)

\* A session whose socket is open always has a read in progress into an empty
\* rx: it can neither be forgotten with its socket open nor read into a buffer
\* with no room left (a read of no bytes completes at once, forever).
ReadOutstanding ==
    \A s \in Slots :
        /\ (ses[s].sock = "open" /\ s # acc.slot) => ses[s].rd # "none"
        /\ ses[s].rd # "none" => ses[s].rx = << >>

\* SessionPool::release is reached only from a failed accept, so the number of
\* used slots is the number of connections ever accepted, plus the one slot of
\* the accept operation: the server serves MAX_SESSIONS connections in its life.
AcceptBudget ==
    /\ Cardinality(sessions) = accepted + (IF acc = Stopped THEN 0 ELSE 1)
    /\ acc = Stopped <=> accepted = MaxSessions

\* io.run() returns, and the program ends, only after MAX_SESSIONS connections
\* were accepted and each of them was closed.
RunReturnsSpent ==
    ~running => /\ accepted = MaxSessions
                /\ \A s \in Slots : ses[s].sock = "closed"

\* A session that holds a connection is neither destroyed nor constructed again, even
\* though acquire() and release() run on every turn of the accept loop: no
\* handler can meet another connection's session behind its captured pointer.
StartedSessionStays ==
    [][\A s \in Slots : ses[s].sock # "idle" =>
          s \in sessions' /\ ses'[s].sock # "idle"]_vars

\* A connection whose peer has gone is given up: its operations drain and its
\* socket is closed, even when the peer never reads what was sent to it.
GoneSessionDrains ==
    \A s \in Slots :
        (s \in sessions /\ conn[s].peer \in {"fin", "reset"})
            ~> (ses[s].sock = "closed" /\ Idle(s))

====
