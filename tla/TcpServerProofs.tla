---- MODULE TcpServerProofs ----
(***************************************************************************)
(* Safety of the server of TcpServer for every number of slots and every   *)
(* buffer size.  The argument has two levels: SesOK is preserved by each   *)
(* method of Session (the lemmas about DoRead ... OnWritten), and IInv     *)
(* relates the sessions to the pool, to the accept operation and to        *)
(* io.run().                                                               *)
(*                                                                         *)
(* The second half follows the bytes of one stream (the properties of      *)
(* TcpServerEcho): Good relates a session to its connection, the steps of  *)
(* the reactor and of the handlers keep it, and AllGood, which says it of  *)
(* every slot, needs no more than IInv beside it.                          *)
(***************************************************************************)
EXTENDS TcpServerEcho, SequenceTheorems, FiniteSetTheorems, WellFoundedInduction, TLAPS

\* Between two handlers rx is empty, a completed read fits into it, and nothing
\* waits in the reactor for a socket that is not open.
SesOK(r) ==
    /\ r \in SessionType
    /\ r.rx = << >>
    /\ Len(r.got) <= RxSize
    /\ r.sock # "open" => r.rd # "armed" /\ r.wq = << >>

Quiet(r) == r.rd = "none" /\ r.wq = << >> /\ r.wdone = << >>

\* A slot is free, reserved for the pending accept, or used by a session that
\* was started; a started session that is open has a read in progress.
SlotInv ==
    /\ \A s \in Slots : SesOK(ses[s])
    /\ \A s \in Slots \ sessions : Quiet(ses[s]) /\ ses[s].sock = "idle"
    /\ acc # Stopped =>
         /\ acc.slot \in sessions
         /\ Quiet(ses[acc.slot])
         /\ ses[acc.slot].sock = IF acc.st = "ok" THEN "open" ELSE "idle"
    /\ \A s \in sessions \ {acc.slot} :
         /\ ses[s].sock # "idle"
         /\ ses[s].sock = "open" => ses[s].rd # "none"

CountInv ==
    /\ Cardinality(sessions) = accepted + (IF acc = Stopped THEN 0 ELSE 1)
    /\ acc = Stopped => sessions = Slots
    /\ ~running => acc = Stopped /\ \A s \in Slots : Quiet(ses[s])

IInv == Types /\ SlotInv /\ CountInv

(* The methods of Session.                                                 *)

\* A session that was just constructed has its type.
LEMMA NewSessionOK == SesOK(NewSession) /\ Quiet(NewSession)
  BY SizeAssumption DEF SesOK, Quiet, NewSession, SessionType

\* do_read arms the read of an open socket; it never leaves the session without
\* a read, and touches nothing else.
LEMMA DoReadOK ==
  ASSUME NEW r, SesOK(r)
  PROVE  /\ SesOK(DoRead(r))
         /\ DoRead(r).rd # "none"
         /\ DoRead(r).sock = r.sock
  BY DEF SesOK, DoRead, SessionType

\* A write that fails is still a write of its length.
LEMMA FailedOK == \A w \in WriteOp : Failed(w) \in WriteOp
  BY DEF Failed, WriteOp

\* Issuing a write changes the two queues of writes and nothing else.
LEMMA IssueWriteOK ==
  ASSUME NEW r, SesOK(r), NEW w \in WriteOp
  PROVE  /\ SesOK(IssueWrite(r, w))
         /\ IssueWrite(r, w).rd = r.rd
         /\ IssueWrite(r, w).sock = r.sock
<1>1. Failed(w) \in WriteOp
  BY FailedOK
<1>2. r.wq \in Seq(WriteOp) /\ r.wdone \in Seq(WriteOp)
  BY DEF SesOK, SessionType
<1>3. Append(r.wq, w) \in Seq(WriteOp) /\ Append(r.wdone, Failed(w)) \in Seq(WriteOp)
  BY <1>1, <1>2, AppendProperties
<1>. QED
  BY <1>2, <1>3 DEF SesOK, IssueWrite, SessionType

\* Closing empties the reactor; the aborted operations stay queued for io.run().
LEMMA CloseOK ==
  ASSUME NEW r, SesOK(r)
  PROVE  /\ SesOK(Close(r))
         /\ Close(r).sock = "closed"
<1>. DEFINE aborted == [i \in DOMAIN r.wq |-> Failed(r.wq[i])]
<1>1. r.wq \in Seq(WriteOp) /\ r.wdone \in Seq(WriteOp)
  BY DEF SesOK, SessionType
<1>2. \A i \in 1..Len(r.wq) : Failed(r.wq[i]) \in WriteOp
  BY <1>1, ElementOfSeq, FailedOK
<1>3. aborted \in Seq(WriteOp)
  BY <1>1, <1>2
<1>4. r.wdone \o aborted \in Seq(WriteOp)
  BY <1>1, <1>3, ConcatProperties
<1>. HIDE DEF aborted
<1>5. Close(r) = [r EXCEPT !.sock  = "closed",
                           !.rd    = IF r.rd = "armed" THEN "failed" ELSE r.rd,
                           !.wq    = << >>,
                           !.wdone = r.wdone \o aborted]
  BY DEF Close, aborted
<1>6. r \in SessionType /\ r.rx = << >> /\ Len(r.got) <= RxSize
  BY DEF SesOK
<1>. DEFINE all == r.wdone \o aborted
            rd  == IF r.rd = "armed" THEN "failed" ELSE r.rd
<1>7. all \in Seq(WriteOp) /\ << >> \in Seq(WriteOp)
      /\ rd \in {"none", "data", "failed"}
  BY <1>4, <1>6, EmptySeq DEF SessionType
<1>. HIDE DEF all, rd
<1>8. Close(r) = [r EXCEPT !.sock = "closed", !.rd = rd, !.wq = << >>,
                           !.wdone = all]
  BY <1>5 DEF all, rd
<1>9. Close(r) \in SessionType
  BY <1>6, <1>7, <1>8 DEF SessionType
<1>. QED
  BY <1>6, <1>7, <1>8, <1>9 DEF SesOK, SessionType

\* The handler of a read that failed closes the socket.
LEMMA OnReadErrorOK ==
  ASSUME NEW r, SesOK(r)
  PROVE  SesOK(OnReadError(r)) /\ OnReadError(r).sock = "closed"
<1>1. SesOK([r EXCEPT !.rd = "none"])
  BY DEF SesOK, SessionType
<1>. QED
  BY <1>1, CloseOK DEF OnReadError

\* The handler of a read that delivered data stays inside rx and tx, issues one
\* write and reads again.
LEMMA OnReadDataOK ==
  ASSUME NEW r, SesOK(r)
  PROVE  /\ SesOK(OnReadData(r))
         /\ OnReadData(r).sock = r.sock
         /\ OnReadData(r).rd # "none"
<1>. DEFINE r1 == [r EXCEPT !.rd = "none", !.rx = @ \o r.got, !.got = << >>]
            n  == Len(r1.rx)
            r2 == [r1 EXCEPT
                     !.tx = [i \in 1..TxSize |-> IF i <= n THEN r1.rx[i]
                                                           ELSE r1.tx[i]],
                     !.rx = << >>,
                     !.overlap = @ \/ Unfinished(r1)]
            w  == [off |-> 0, len |-> n, ok |-> TRUE]
<1>1. r \in SessionType /\ r.rx = << >> /\ r.got \in Seq(Byte)
      /\ Len(r.got) \in 0..RxSize
  BY DEF SesOK, SessionType
<1>2. r1.rx = r.got
  BY <1>1, ConcatEmptySeq DEF SessionType
<1>3. n \in 0..TxSize /\ n = Len(r.got)
  BY <1>1, <1>2, SizeAssumption
<1>4. \A i \in 1..TxSize : i <= n => r1.rx[i] \in Byte
  BY <1>1, <1>2, <1>3, ElementOfSeq
<1>5. [i \in 1..TxSize |-> IF i <= n THEN r1.rx[i] ELSE r1.tx[i]]
        \in [1..TxSize -> Byte \cup {Junk}]
  BY <1>1, <1>4 DEF SessionType
<1>6. (r1.overlap \/ Unfinished(r1)) \in BOOLEAN
  BY <1>1 DEF SessionType, Unfinished
<1>7. SesOK(r2) /\ r2.sock = r.sock
  <2>. DEFINE t == [i \in 1..TxSize |-> IF i <= n THEN r1.rx[i] ELSE r1.tx[i]]
              o == r1.overlap \/ Unfinished(r1)
  <2>1. t \in [1..TxSize -> Byte \cup {Junk}] /\ o \in BOOLEAN
    BY <1>5, <1>6
  <2>. HIDE DEF t, o
  <2>2. r2 = [r EXCEPT !.rd = "none", !.rx = << >>, !.got = << >>,
                       !.tx = t, !.overlap = o]
    BY <1>1 DEF SessionType, t, o
  <2>. HIDE DEF r2
  <2>3. r2 \in SessionType
    BY <1>1, <2>1, <2>2 DEF SessionType
  <2>4. r2.rx = << >> /\ r2.got = << >> /\ r2.sock = r.sock /\ r2.rd = "none"
        /\ r2.wq = r.wq
    BY <1>1, <2>2 DEF SessionType
  <2>. QED
    BY <2>3, <2>4, SizeAssumption DEF SesOK
<1>8. w \in WriteOp
  <2>. HIDE DEF n
  <2>. QED BY <1>3, SizeAssumption DEF WriteOp
<1>9. OnReadData(r) = DoRead(IssueWrite(r2, w))
  BY DEF OnReadData, OnData, DoWrite
<1>. HIDE DEF r2, w
<1>10. SesOK(IssueWrite(r2, w)) /\ IssueWrite(r2, w).sock = r2.sock
  BY <1>7, <1>8, IssueWriteOK
<1>. QED
  BY <1>7, <1>9, <1>10, DoReadOK

\* The continuation of a write leaves the read alone, except by closing.
LEMMA OnWrittenOK ==
  ASSUME NEW r, SesOK(r), r.wdone # << >>
  PROVE  /\ SesOK(OnWritten(r))
         /\ \/ OnWritten(r).sock = "closed"
            \/ OnWritten(r).sock = r.sock /\ OnWritten(r).rd = r.rd
<1>. DEFINE w    == Head(r.wdone)
            rest == [r EXCEPT !.wdone = Tail(@)]
<1>1. r.wdone \in Seq(WriteOp)
  BY DEF SesOK, SessionType
<1>2. w \in WriteOp /\ Tail(r.wdone) \in Seq(WriteOp)
  BY <1>1, HeadTailProperties
<1>3. SesOK(rest) /\ rest.sock = r.sock /\ rest.rd = r.rd
  BY <1>2 DEF SesOK, SessionType
<1>4. OnWritten(r) = IF ~w.ok THEN Close(rest)
                     ELSE IF Remaining(w) > 0 THEN IssueWrite(rest, w)
                     ELSE rest
  BY DEF OnWritten
<1>. HIDE DEF w, rest
<1>. QED
  BY <1>2, <1>3, <1>4, CloseOK, IssueWriteOK

(* The steps.  An action of the reactor or of a handler replaces the       *)
(* session of one slot; SlotUpdate says when that keeps the invariant.     *)

\* Replacing the session of one slot keeps the type of ses.
LEMMA SlotUpdate ==
  ASSUME IInv, NEW s \in Slots, NEW r, SesOK(r),
         ses' = [ses EXCEPT ![s] = r]
  PROVE  /\ ses' \in [Slots -> SessionType]
         /\ ses'[s] = r
         /\ \A t \in Slots : t # s => ses'[t] = ses[t]
         /\ \A t \in Slots : SesOK(ses'[t])
<1>1. ses \in [Slots -> SessionType] /\ \A t \in Slots : SesOK(ses[t])
  BY DEF IInv, Types, SlotInv
<1>2. r \in SessionType
  BY DEF SesOK
<1>. QED
  BY <1>1, <1>2

\* The accept operation is over, or it holds a slot of the pool.
LEMMA AccCases ==
  ASSUME IInv
  PROVE  /\ acc # Stopped => /\ acc.slot \in Slots
                             /\ acc.st \in {"pending", "ok", "err"}
         /\ acc.st = "stopped" <=> acc = Stopped
  BY DEF IInv, Types, Stopped

\* A step that replaces the session of a slot other than the accepting one by a
\* started session keeps the invariant.
LEMMA StartedUpdate ==
  ASSUME IInv, NEW s \in sessions \ {acc.slot}, NEW r, SesOK(r),
         r.sock # "idle",
         r.sock = "open" => r.rd # "none",
         ~Quiet(ses[s]),
         ses' = [ses EXCEPT ![s] = r],
         conn' \in [Slots -> ConnType],
         UNCHANGED <<sessions, acc, backlog, arrived, accepted, running>>
  PROVE  IInv'
<1>1. s \in Slots
  BY DEF IInv, Types
<1>2. /\ ses' \in [Slots -> SessionType]
      /\ ses'[s] = r
      /\ \A t \in Slots : t # s => ses'[t] = ses[t]
      /\ \A t \in Slots : SesOK(ses'[t])
  BY <1>1, SlotUpdate
<1>3. Types'
  BY <1>2 DEF IInv, Types
<1>4. running
  BY <1>1 DEF IInv, CountInv, Types
<1>5. SlotInv'
  <2>1. \A t \in Slots \ sessions : Quiet(ses'[t]) /\ ses'[t].sock = "idle"
    BY <1>2 DEF IInv, SlotInv
  <2>2. acc # Stopped =>
          /\ acc.slot \in sessions
          /\ Quiet(ses'[acc.slot])
          /\ ses'[acc.slot].sock = IF acc.st = "ok" THEN "open" ELSE "idle"
    BY <1>2, AccCases DEF IInv, SlotInv
  <2>3. \A t \in sessions \ {acc.slot} :
          /\ ses'[t].sock # "idle"
          /\ ses'[t].sock = "open" => ses'[t].rd # "none"
    BY <1>2 DEF IInv, SlotInv, Types
  <2>. QED
    BY <1>2, <2>1, <2>2, <2>3 DEF SlotInv
<1>6. CountInv'
  BY <1>4 DEF IInv, CountInv
<1>. QED
  BY <1>3, <1>5, <1>6 DEF IInv

\* A slot whose session is not quiet was started.
LEMMA BusyIsStarted ==
  ASSUME IInv, NEW s \in Slots, ~Quiet(ses[s])
  PROVE  s \in sessions \ {acc.slot} /\ ses[s].sock # "idle" /\ SesOK(ses[s])
<1>1. s \in sessions /\ SesOK(ses[s])
  BY DEF IInv, SlotInv
<1>2. s # acc.slot
  <2>1. CASE acc = Stopped
    BY <2>1 DEF Slots, Stopped
  <2>2. CASE acc # Stopped
    BY <2>2 DEF IInv, SlotInv
  <2>. QED BY <2>1, <2>2
<1>. QED
  BY <1>1, <1>2 DEF IInv, SlotInv

\* do_accept on a pool whose busy slots are exactly the started sessions: it
\* reserves a free slot, or ends the loop when there is none.
LEMMA DoAcceptOK ==
  ASSUME NEW busy \in SUBSET Slots, NEW f \in [Slots -> SessionType],
         \A s \in Slots : SesOK(f[s]),
         \A s \in Slots \ busy : Quiet(f[s]) /\ f[s].sock = "idle",
         \A s \in busy : /\ f[s].sock # "idle"
                         /\ f[s].sock = "open" => f[s].rd # "none",
         DoAccept(busy, f),
         NEW n \in Nat, Cardinality(busy) = n, accepted' = n,
         conn' \in [Slots -> ConnType], backlog' \in Nat, arrived' \in Nat,
         running', running' \in BOOLEAN
  PROVE  IInv'
<1>0. Stopped.slot \notin Slots
  BY DEF Stopped, Slots
<1>1. CASE busy = Slots /\ sessions' = busy /\ ses' = f /\ acc' = Stopped
  <2>1. Types'
    BY <1>1 DEF Types
  <2>2. SlotInv'
    <3>2. \A s \in Slots : SesOK(ses'[s])
      BY <1>1
    <3>3. \A s \in Slots \ sessions' : Quiet(ses'[s]) /\ ses'[s].sock = "idle"
      BY <1>1
    <3>4. \A s \in sessions' \ {acc'.slot} :
            /\ ses'[s].sock # "idle"
            /\ ses'[s].sock = "open" => ses'[s].rd # "none"
      BY <1>1
    <3>5. acc' = Stopped
      BY <1>1
    <3>. QED BY <3>2, <3>3, <3>4, <3>5 DEF SlotInv
  <2>3. CountInv'
    <3>1. acc' = Stopped /\ sessions' = Slots /\ running'
      BY <1>1
    <3>2. sessions' = busy
      BY <1>1
    <3>3. Cardinality(sessions') = accepted'
      BY <3>2
    <3>4. accepted' = accepted' + (IF acc' = Stopped THEN 0 ELSE 1)
      BY <3>1
    <3>. QED BY <3>1, <3>3, <3>4, Zenon DEF CountInv
  <2>. QED
    BY <2>1, <2>2, <2>3 DEF IInv
<1>2. ASSUME NEW t \in Slots, FirstFree(busy, t),
             sessions' = busy \cup {t}, ses' = [f EXCEPT ![t] = NewSession],
             acc' = [st |-> "pending", slot |-> t]
      PROVE  IInv'
  <2>1. t \in Slots \ busy
    BY <1>2 DEF FirstFree
  <2>2. /\ ses' \in [Slots -> SessionType]
        /\ ses'[t] = NewSession
        /\ \A u \in Slots : u # t => ses'[u] = f[u]
        /\ \A u \in Slots : SesOK(ses'[u])
    BY <1>2, NewSessionOK DEF SesOK
  <2>3. acc' # Stopped /\ acc'.slot = t /\ acc'.st = "pending"
    BY <1>2 DEF Stopped
  <2>4. Types'
    BY <1>2, <2>1, <2>2 DEF Types
  <2>5. SlotInv'
    <3>1. \A u \in Slots \ sessions' : Quiet(ses'[u]) /\ ses'[u].sock = "idle"
      BY <1>2, <2>2
    <3>2. /\ acc'.slot \in sessions'
          /\ Quiet(ses'[acc'.slot])
          /\ ses'[acc'.slot].sock = "idle"
      BY <1>2, <2>2, <2>3, NewSessionOK DEF NewSession
    <3>3. \A u \in sessions' \ {acc'.slot} :
            /\ ses'[u].sock # "idle"
            /\ ses'[u].sock = "open" => ses'[u].rd # "none"
      BY <1>2, <2>2, <2>3
    <3>. QED
      BY <2>2, <2>3, <3>1, <3>2, <3>3 DEF SlotInv
  <2>6. CountInv'
    <3>0. IsFiniteSet(Slots)
      BY FS_Interval, SizeAssumption DEF Slots
    <3>1. IsFiniteSet(busy)
      BY <3>0, FS_Subset
    <3>2. Cardinality(sessions') = Cardinality(busy) + 1
      BY <1>2, <2>1, <3>1, FS_AddElement
    <3>. QED
      BY <2>3, <3>2 DEF CountInv
  <2>. QED
    BY <2>4, <2>5, <2>6 DEF IInv
<1>. QED
  BY <1>1, <1>2 DEF DoAccept

\* The initial state satisfies the invariant.
LEMMA InitOK == Init => IInv
<1>. SUFFICES ASSUME Init PROVE IInv
  OBVIOUS
<1>1. 1 \in Slots /\ \A s \in Slots : ses[s] = NewSession
  BY SizeAssumption DEF Init, Slots
<1>2. acc # Stopped /\ acc.slot = 1 /\ acc.st = "pending" /\ sessions = {1}
  BY DEF Init, Stopped
<1>3. Types
  <2>1. NoConn \in ConnType
    BY BoundAssumption DEF NoConn, ConnType
  <2>. QED
    BY <1>1, <2>1, NewSessionOK DEF Init, Types, SesOK
<1>4. SlotInv
  BY <1>1, <1>2, NewSessionOK DEF SlotInv, NewSession
<1>5. CountInv
  BY <1>2, FS_Singleton DEF Init, CountInv
<1>. QED
  BY <1>3, <1>4, <1>5 DEF IInv

(* The actions, one lemma for each group that touches the same state.      *)

\* The peers and the network touch only the connections and the backlog.
LEMMA PeerStep ==
  ASSUME IInv,
         \/ Connect
         \/ \E s \in Slots : PeerSend(s) \/ PeerFinish(s) \/ PeerReset(s)
  PROVE  IInv'
<1>. DEFINE Frame == /\ UNCHANGED <<sessions, ses, acc, accepted, running>>
                     /\ conn' \in [Slots -> ConnType]
                     /\ backlog' \in Nat /\ arrived' \in Nat
<1>1. Frame
  <2>1. CASE Connect
    BY <2>1 DEF Connect, IInv, Types
  <2>2. ASSUME NEW s \in Slots, PeerSend(s)
        PROVE  Frame
    <3>1. conn[s] \in ConnType
      BY DEF IInv, Types
    <3>2. conn[s].sent + 1 \in Byte /\ conn[s].sent + 1 \in 0..MaxBytes
      BY <2>2, <3>1, BoundAssumption DEF PeerSend, Byte, ConnType
    <3>3. Append(conn[s].inb, conn[s].sent + 1) \in Seq(Byte)
      BY <3>1, <3>2, AppendProperties DEF ConnType
    <3>. QED
      BY <2>2, <3>1, <3>2, <3>3 DEF PeerSend, IInv, Types, ConnType
  <2>3. ASSUME NEW s \in Slots, PeerFinish(s)
        PROVE  Frame
    BY <2>3 DEF PeerFinish, IInv, Types, ConnType
  <2>4. ASSUME NEW s \in Slots, PeerReset(s)
        PROVE  Frame
    <3>1. conn[s] \in ConnType /\ conn' = [conn EXCEPT ![s] = [conn[s] EXCEPT !.peer = "reset"]]
      BY <2>4 DEF PeerReset, IInv, Types
    <3>2. [conn[s] EXCEPT !.peer = "reset"] \in ConnType
      BY <3>1 DEF ConnType
    <3>. QED
      BY <2>4, <3>1, <3>2 DEF PeerReset, IInv, Types
  <2>. QED
    BY <2>1, <2>2, <2>3, <2>4
<1>. QED
  BY <1>1 DEF IInv, Types, SlotInv, CountInv

\* accept() succeeds: the reserved slot, which is quiet, gets an open socket.
LEMMA AcceptReadyStep == IInv /\ AcceptReady => IInv'
<1>. SUFFICES ASSUME IInv, AcceptReady PROVE IInv'
  OBVIOUS
<1>. DEFINE a == acc.slot
            r == [ses[a] EXCEPT !.sock = "open"]
<1>1. /\ acc # Stopped /\ acc.st = "pending" /\ a \in Slots /\ a \in sessions
      /\ running
  BY AccCases DEF AcceptReady, Stopped, IInv, SlotInv
<1>2. SesOK(ses[a]) /\ Quiet(ses[a])
  BY <1>1 DEF IInv, SlotInv
<1>3. SesOK(r) /\ Quiet(r) /\ r.sock = "open"
  BY <1>2 DEF SesOK, SessionType, Quiet
<1>4. ses' = [ses EXCEPT ![a] = r]
  BY DEF AcceptReady
<1>. HIDE DEF r
<1>5. /\ ses' \in [Slots -> SessionType]
      /\ ses'[a] = r
      /\ \A t \in Slots : t # a => ses'[t] = ses[t]
      /\ \A t \in Slots : SesOK(ses'[t])
  BY <1>1, <1>3, <1>4, SlotUpdate
<1>6. acc' = [st |-> "ok", slot |-> a] /\ acc' # Stopped
      /\ acc'.slot = a /\ acc'.st = "ok"
  BY <1>1 DEF AcceptReady, IInv, Types, Stopped
<1>7. Types'
  <2>0. NoConn \in ConnType
    BY BoundAssumption DEF NoConn, ConnType
  <2>1. [NoConn EXCEPT !.peer = "up"] \in ConnType
    BY <2>0 DEF ConnType
  <2>2. conn' \in [Slots -> ConnType]
    BY <1>1, <2>1 DEF AcceptReady, IInv, Types
  <2>3. backlog' \in Nat
    BY DEF AcceptReady, IInv, Types
  <2>. QED
    BY <1>1, <1>5, <1>6, <2>2, <2>3 DEF AcceptReady, IInv, Types
<1>8. SlotInv'
  <2>1. sessions' = sessions
    BY DEF AcceptReady
  <2>4. /\ acc'.slot \in sessions'
        /\ Quiet(ses'[acc'.slot])
        /\ ses'[acc'.slot].sock = "open"
    BY <1>1, <1>3, <1>5, <1>6, <2>1
  <2>2. \A t \in Slots \ sessions : Quiet(ses'[t]) /\ ses'[t].sock = "idle"
    BY <1>1, <1>5 DEF IInv, SlotInv
  <2>3. \A t \in sessions \ {a} :
          /\ ses'[t].sock # "idle"
          /\ ses'[t].sock = "open" => ses'[t].rd # "none"
    BY <1>1, <1>5 DEF IInv, SlotInv, Types
  <2>. QED
    BY <1>5, <1>6, <2>1, <2>2, <2>3, <2>4 DEF SlotInv
<1>9. CountInv'
  BY <1>1, <1>6 DEF AcceptReady, IInv, CountInv
<1>. QED
  BY <1>7, <1>8, <1>9 DEF IInv

\* accept() fails: only the state of the operation changes.
LEMMA AcceptErrorStep == IInv /\ AcceptError => IInv'
<1>. SUFFICES ASSUME IInv, AcceptError PROVE IInv'
  OBVIOUS
<1>1. acc # Stopped /\ acc.slot \in Slots
  BY AccCases DEF AcceptError, Stopped
<1>2. acc' = [st |-> "err", slot |-> acc.slot] /\ acc' # Stopped
      /\ acc'.slot = acc.slot /\ acc'.st = "err"
  BY <1>1 DEF AcceptError, IInv, Types, Stopped
<1>3. Types'
  BY <1>1, <1>2 DEF AcceptError, IInv, Types
<1>4. SlotInv'
  BY <1>1, <1>2 DEF AcceptError, IInv, SlotInv
<1>5. CountInv'
  BY <1>1, <1>2 DEF AcceptError, IInv, CountInv
<1>. QED
  BY <1>3, <1>4, <1>5 DEF IInv

\* A read completes, with what arrived or with an error.
LEMMA ReadStep ==
  ASSUME IInv, NEW s \in Slots, ReadReady(s) \/ ReadFails(s)
  PROVE  IInv'
<1>1. ses[s].rd = "armed"
  BY DEF ReadReady, ReadFails
<1>2. s \in sessions \ {acc.slot} /\ ses[s].sock = "open" /\ SesOK(ses[s])
  BY <1>1, BusyIsStarted DEF Quiet, SesOK
<1>3. ~Quiet(ses[s])
  BY <1>1 DEF Quiet
<1>4. CASE ReadFails(s)
  <2>. DEFINE r == [ses[s] EXCEPT !.rd = "failed"]
  <2>1. SesOK(r) /\ r.sock = "open" /\ r.rd # "none"
    BY <1>2 DEF SesOK, SessionType
  <2>2. ses' = [ses EXCEPT ![s] = r]
    BY <1>4 DEF ReadFails, IInv, Types
  <2>3. /\ conn' \in [Slots -> ConnType]
        /\ UNCHANGED <<sessions, acc, backlog, arrived, accepted, running>>
    BY <1>4 DEF ReadFails, IInv, Types
  <2>. HIDE DEF r
  <2>. QED
    BY <1>2, <1>3, <2>1, <2>2, <2>3, StartedUpdate
<1>5. CASE ReadReady(s)
  <2>. DEFINE c    == conn[s]
              room == RxSize - Len(ses[s].rx)
              n    == IF room < Len(c.inb) THEN room ELSE Len(c.inb)
              got  == SubSeq(c.inb, 1, n)
              rest == SubSeq(c.inb, n + 1, Len(c.inb))
              r    == [ses[s] EXCEPT !.rd = "data", !.got = got]
  <2>1. c \in ConnType /\ c.inb \in Seq(Byte) /\ Len(c.inb) \in Nat
    BY DEF IInv, Types, ConnType
  <2>2. room = RxSize
    BY <1>2, SizeAssumption DEF SesOK
  <2>3. n \in 0..RxSize /\ n \in 0..Len(c.inb)
    BY <2>1, <2>2, SizeAssumption
  <2>. HIDE DEF n
  <2>4. got \in Seq(Byte) /\ Len(got) <= RxSize
    <3>1. \A i \in 1..n : c.inb[i] \in Byte
      BY <2>1, <2>3, ElementOfSeq
    <3>. QED
      BY <2>3, <3>1, SubSeqProperties, SizeAssumption
  <2>5. rest \in Seq(Byte)
    <3>1. \A i \in (n + 1)..Len(c.inb) : c.inb[i] \in Byte
      BY <2>1, <2>3, ElementOfSeq
    <3>2. n + 1 \in Int /\ Len(c.inb) \in Int
      BY <2>1, <2>3
    <3>. QED
      BY <3>1, <3>2, SubSeqProperties
  <2>6. ses' = [ses EXCEPT ![s] = r] /\ conn' = [conn EXCEPT ![s].inb = rest]
    BY <1>5 DEF ReadReady, n, IInv, Types
  <2>. HIDE DEF got, rest
  <2>7. SesOK(r) /\ r.sock = "open" /\ r.rd # "none"
    BY <1>2, <2>4 DEF SesOK, SessionType
  <2>8. conn' \in [Slots -> ConnType]
    BY <2>5, <2>6 DEF IInv, Types, ConnType
  <2>9. UNCHANGED <<sessions, acc, backlog, arrived, accepted, running>>
    BY <1>5 DEF ReadReady
  <2>. HIDE DEF r
  <2>. QED
    BY <1>2, <1>3, <2>6, <2>7, <2>8, <2>9, StartedUpdate
<1>. QED
  BY <1>4, <1>5

\* A send takes some bytes of the oldest write, or fails.
LEMMA SendStep ==
  ASSUME IInv, NEW s \in Slots, SendSome(s) \/ SendFails(s)
  PROVE  IInv'
<1>. DEFINE w == Head(ses[s].wq)
<1>1. ses[s].wq # << >>
  BY DEF SendSome, SendFails
<1>2. s \in sessions \ {acc.slot} /\ ses[s].sock = "open" /\ SesOK(ses[s])
  BY <1>1, BusyIsStarted DEF Quiet, SesOK
<1>3. ~Quiet(ses[s]) /\ ses[s].rd # "none"
  BY <1>1, <1>2 DEF Quiet, IInv, SlotInv
<1>4. /\ ses[s].wq \in Seq(WriteOp) /\ ses[s].wdone \in Seq(WriteOp)
      /\ ses[s].tx \in [1..TxSize -> Byte \cup {Junk}]
  BY <1>2 DEF SesOK, SessionType
<1>5. w \in WriteOp /\ Tail(ses[s].wq) \in Seq(WriteOp)
  BY <1>1, <1>4, HeadTailProperties
<1>6. ASSUME NEW v \in WriteOp,
             ses' = [ses EXCEPT ![s].wq = Tail(@),
                                ![s].wdone = Append(@, v)],
             conn' \in [Slots -> ConnType],
             UNCHANGED <<sessions, acc, backlog, arrived, accepted, running>>
      PROVE  IInv'
  <2>. DEFINE r == [ses[s] EXCEPT !.wq = Tail(@), !.wdone = Append(@, v)]
  <2>1. Append(ses[s].wdone, v) \in Seq(WriteOp)
    BY <1>4, AppendProperties
  <2>2. SesOK(r) /\ r.sock = "open" /\ r.rd # "none"
    BY <1>2, <1>3, <1>5, <2>1 DEF SesOK, SessionType
  <2>3. ses' = [ses EXCEPT ![s] = r]
    BY <1>6 DEF IInv, Types
  <2>. HIDE DEF r
  <2>. QED
    BY <1>2, <1>3, <1>6, <2>2, <2>3, StartedUpdate
<1>. HIDE DEF w
<1>7. CASE SendFails(s)
  <2>1. Failed(w) \in WriteOp
    BY <1>5, FailedOK
  <2>2. conn' \in [Slots -> ConnType]
    BY <1>7 DEF SendFails, IInv, Types
  <2>. QED
    BY <1>6, <1>7, <2>1, <2>2 DEF SendFails, w
<1>8. CASE SendSome(s)
  <2>1. PICK k \in 1..Remaining(w) :
          /\ conn' = [conn EXCEPT ![s].out =
                        @ \o [i \in 1..k |-> ses[s].tx[w.off + i]]]
          /\ ses' = [ses EXCEPT
                       ![s].wq = Tail(@),
                       ![s].wdone = Append(@, [w EXCEPT !.off = @ + k])]
    BY <1>8 DEF SendSome, w
  <2>2. /\ k \in Nat /\ w.off \in 0..TxSize /\ w.off + k \in 0..TxSize
    BY <1>5, SizeAssumption DEF WriteOp, Remaining
  <2>3. [w EXCEPT !.off = @ + k] \in WriteOp
    BY <1>5, <2>2 DEF WriteOp
  <2>. DEFINE bytes == [i \in 1..k |-> ses[s].tx[w.off + i]]
  <2>4. bytes \in Seq(Byte \cup {Junk})
    <3>1. \A i \in 1..k : ses[s].tx[w.off + i] \in Byte \cup {Junk}
      BY <1>4, <2>2, SizeAssumption
    <3>. QED
      BY <2>2, <3>1
  <2>. HIDE DEF bytes
  <2>5. conn[s].out \o bytes \in Seq(Byte \cup {Junk})
    BY <2>4, ConcatProperties DEF IInv, Types, ConnType
  <2>6. conn' = [conn EXCEPT ![s].out = conn[s].out \o bytes]
    BY <2>1 DEF bytes
  <2>7. conn' \in [Slots -> ConnType]
    BY <2>5, <2>6 DEF IInv, Types, ConnType
  <2>. QED
    BY <1>6, <1>8, <2>1, <2>3, <2>7 DEF SendSome
<1>. QED
  BY <1>7, <1>8

\* The handler of a read, and the continuation of a write.
LEMMA HandlerStep ==
  ASSUME IInv, NEW s \in Slots, ReadHandler(s) \/ WriteHandler(s)
  PROVE  IInv'
<1>1. ~Quiet(ses[s])
  BY DEF ReadHandler, WriteHandler, Quiet
<1>2. s \in sessions \ {acc.slot} /\ ses[s].sock # "idle" /\ SesOK(ses[s])
  BY <1>1, BusyIsStarted
<1>3. ses[s].sock = "open" => ses[s].rd # "none"
  BY <1>2 DEF IInv, SlotInv
<1>4. ASSUME NEW r, SesOK(r), r.sock # "idle",
             r.sock = "open" => r.rd # "none",
             ses' = [ses EXCEPT ![s] = r],
             UNCHANGED <<sessions, conn, acc, backlog, arrived, accepted, running>>
      PROVE  IInv'
  <2>1. conn' \in [Slots -> ConnType]
    BY <1>4 DEF IInv, Types
  <2>. QED
    BY <1>1, <1>2, <1>4, <2>1, StartedUpdate
<1>5. CASE ReadHandler(s) /\ ses[s].rd = "data"
  <2>1. ses' = [ses EXCEPT ![s] = OnReadData(ses[s])]
    BY <1>5 DEF ReadHandler
  <2>. QED
    BY <1>2, <1>4, <1>5, <2>1, OnReadDataOK DEF ReadHandler
<1>6. CASE ReadHandler(s) /\ ses[s].rd = "failed"
  <2>1. ses' = [ses EXCEPT ![s] = OnReadError(ses[s])]
    BY <1>6 DEF ReadHandler
  <2>. QED
    BY <1>2, <1>4, <1>6, <2>1, OnReadErrorOK DEF ReadHandler
<1>7. CASE WriteHandler(s)
  <2>1. /\ ses[s].wdone # << >>
        /\ ses' = [ses EXCEPT ![s] = OnWritten(ses[s])]
    BY <1>7 DEF WriteHandler
  <2>2. /\ SesOK(OnWritten(ses[s]))
        /\ \/ OnWritten(ses[s]).sock = "closed"
           \/ /\ OnWritten(ses[s]).sock = ses[s].sock
              /\ OnWritten(ses[s]).rd = ses[s].rd
    BY <1>2, <2>1, OnWrittenOK
  <2>. QED
    BY <1>2, <1>3, <1>4, <1>7, <2>1, <2>2 DEF WriteHandler
<1>. QED
  BY <1>5, <1>6, <1>7 DEF ReadHandler

\* The handler of async_accept on success: the reserved slot becomes a started
\* session, the number of accepted connections grows with the started slots.
LEMMA OnAcceptedStep == IInv /\ OnAccepted => IInv'
<1>. SUFFICES ASSUME IInv, OnAccepted PROVE IInv'
  OBVIOUS
<1>. DEFINE a == acc.slot
            r == DoRead(ses[a])
            f == [ses EXCEPT ![a] = r]
<1>1. /\ acc # Stopped /\ acc.st = "ok" /\ a \in Slots /\ a \in sessions
      /\ running
  BY AccCases DEF OnAccepted, Stopped, IInv, SlotInv, CountInv
<1>2. SesOK(ses[a]) /\ ses[a].sock = "open"
  BY <1>1 DEF IInv, SlotInv
<1>3. SesOK(r) /\ r.sock = "open" /\ r.rd # "none"
  BY <1>2, DoReadOK
<1>. HIDE DEF r
<1>4. r \in SessionType
  BY <1>3 DEF SesOK
<1>5. /\ f \in [Slots -> SessionType]
      /\ f[a] = r
      /\ \A t \in Slots : t # a => f[t] = ses[t]
  BY <1>1, <1>4 DEF IInv, Types
<1>6. DoAccept(sessions, f)
  BY DEF OnAccepted, r
<1>. HIDE DEF f
<1>7. \A t \in Slots : SesOK(f[t])
  BY <1>3, <1>5 DEF IInv, SlotInv
<1>8. \A t \in Slots \ sessions : Quiet(f[t]) /\ f[t].sock = "idle"
  BY <1>1, <1>5 DEF IInv, SlotInv
<1>9. \A t \in sessions : /\ f[t].sock # "idle"
                          /\ f[t].sock = "open" => f[t].rd # "none"
  BY <1>1, <1>3, <1>5 DEF IInv, SlotInv, Types
<1>10. /\ accepted + 1 \in Nat /\ Cardinality(sessions) = accepted + 1
       /\ accepted' = accepted + 1
  BY <1>1 DEF OnAccepted, IInv, Types, CountInv
<1>11. /\ sessions \in SUBSET Slots
       /\ conn' \in [Slots -> ConnType] /\ backlog' \in Nat /\ arrived' \in Nat
       /\ running' /\ running' \in BOOLEAN
  BY <1>1 DEF OnAccepted, IInv, Types
<1>. QED
  BY <1>5, <1>6, <1>7, <1>8, <1>9, <1>10, <1>11, DoAcceptOK

\* The handler of async_accept on an error: the reserved slot is given back.
LEMMA OnAcceptFailedStep == IInv /\ OnAcceptFailed => IInv'
<1>. SUFFICES ASSUME IInv, OnAcceptFailed PROVE IInv'
  OBVIOUS
<1>. DEFINE a    == acc.slot
            busy == sessions \ {a}
<1>1. /\ acc # Stopped /\ acc.st = "err" /\ a \in Slots /\ a \in sessions
      /\ running
  BY AccCases DEF OnAcceptFailed, Stopped, IInv, SlotInv, CountInv
<1>2. DoAccept(busy, ses)
  BY DEF OnAcceptFailed
<1>3. ses \in [Slots -> SessionType] /\ \A t \in Slots : SesOK(ses[t])
  BY DEF IInv, Types, SlotInv
<1>4. \A t \in Slots \ busy : Quiet(ses[t]) /\ ses[t].sock = "idle"
  BY <1>1 DEF IInv, SlotInv
<1>5. \A t \in busy : /\ ses[t].sock # "idle"
                      /\ ses[t].sock = "open" => ses[t].rd # "none"
  BY DEF IInv, SlotInv
<1>6. Cardinality(busy) = accepted /\ accepted \in Nat /\ accepted' = accepted
  <2>0. IsFiniteSet(Slots)
    BY FS_Interval, SizeAssumption DEF Slots
  <2>1. IsFiniteSet(sessions)
    BY <2>0, FS_Subset DEF IInv, Types
  <2>2. Cardinality(busy) = Cardinality(sessions) - 1
    BY <1>1, <2>1, FS_RemoveElement
  <2>3. Cardinality(sessions) = accepted + 1 /\ accepted \in Nat
    BY <1>1 DEF IInv, Types, CountInv
  <2>4. accepted' = accepted
    BY DEF OnAcceptFailed
  <2>. QED
    BY <2>2, <2>3, <2>4
<1>7. /\ busy \in SUBSET Slots
      /\ conn' \in [Slots -> ConnType] /\ backlog' \in Nat /\ arrived' \in Nat
      /\ running' /\ running' \in BOOLEAN
  BY <1>1 DEF OnAcceptFailed, IInv, Types
<1>. HIDE DEF busy
<1>. QED
  BY <1>2, <1>3, <1>4, <1>5, <1>6, <1>7, DoAcceptOK

\* io.run() returns: nothing else changes.
LEMMA RunReturnsStep == IInv /\ RunReturns => IInv'
<1>. SUFFICES ASSUME IInv, RunReturns PROVE IInv'
  OBVIOUS
<1>1. acc = Stopped /\ \A s \in Slots : Quiet(ses[s])
  BY AccCases DEF RunReturns, Idle, Quiet
<1>2. Types' /\ SlotInv'
  BY DEF RunReturns, IInv, Types, SlotInv
<1>3. CountInv'
  BY <1>1 DEF RunReturns, IInv, CountInv
<1>. QED
  BY <1>2, <1>3 DEF IInv

\* Every step of the server and of its environment keeps the invariant.
THEOREM Inductive == IInv /\ [Next]_vars => IInv'
<1>. SUFFICES ASSUME IInv, [Next]_vars PROVE IInv'
  OBVIOUS
<1>1. CASE UNCHANGED vars
  BY <1>1 DEF vars, IInv, Types, SlotInv, CountInv
<1>2. CASE \/ Connect
           \/ \E s \in Slots : PeerSend(s) \/ PeerFinish(s) \/ PeerReset(s)
  BY <1>2, PeerStep
<1>3. CASE AcceptReady
  BY <1>3, AcceptReadyStep
<1>4. CASE AcceptError
  BY <1>4, AcceptErrorStep
<1>5. CASE OnAccepted
  BY <1>5, OnAcceptedStep
<1>6. CASE OnAcceptFailed
  BY <1>6, OnAcceptFailedStep
<1>7. CASE \E s \in Slots : ReadReady(s) \/ ReadFails(s)
  BY <1>7, ReadStep
<1>8. CASE \E s \in Slots : SendSome(s) \/ SendFails(s)
  BY <1>8, SendStep
<1>9. CASE \E s \in Slots : ReadHandler(s) \/ WriteHandler(s)
  BY <1>9, HandlerStep
<1>10. CASE RunReturns
  BY <1>10, RunReturnsStep
<1>. QED
  BY <1>1, <1>2, <1>3, <1>4, <1>5, <1>6, <1>7, <1>8, <1>9, <1>10 DEF Next

\* IInv holds in every reachable state.
THEOREM Invariance == Spec => []IInv
  BY InitOK, Inductive, PTL DEF Spec

(* What the invariant gives.                                               *)

\* The types, and with them the two arrays of a Session: what a completed read has put
\* behind rx_used fits into rx, and no write, however often it is continued, leaves tx.
THEOREM TypeCorrect == Spec => []TypeOK
<1>1. IInv => TypeOK
  <2>1. SUFFICES ASSUME IInv, NEW s \in Slots PROVE ReadFits(ses[s])
    BY DEF IInv, TypeOK
  <2>2. ses[s].rx = << >> /\ Len(ses[s].got) <= RxSize /\ Len(ses[s].got) \in Nat
    BY <2>1 DEF IInv, SlotInv, SesOK, SessionType
  <2>. QED
    BY <2>2 DEF ReadFits
<1>. QED
  BY <1>1, Invariance, PTL

\* No operation is outstanding on a slot of the pool without a session: the raw
\* pointers captured by the handlers never dangle.
THEOREM HandlersSafe == Spec => []NoDanglingHandler
<1>1. IInv => NoDanglingHandler
  BY DEF IInv, SlotInv, NoDanglingHandler, Idle, Quiet
<1>. QED
  BY <1>1, Invariance, PTL

\* An open session always reads, into an empty rx.
THEOREM AlwaysReading == Spec => []ReadOutstanding
<1>1. IInv => ReadOutstanding
  BY DEF IInv, SlotInv, ReadOutstanding, SesOK, Quiet
<1>. QED
  BY <1>1, Invariance, PTL

\* The pool has as many used slots as connections were accepted, so the server
\* accepts MAX_SESSIONS connections and not one more.
THEOREM Budget == Spec => []AcceptBudget
<1>1. IInv => AcceptBudget
  <2>. SUFFICES ASSUME IInv PROVE AcceptBudget
    OBVIOUS
  <2>1. IsFiniteSet(Slots) /\ Cardinality(Slots) = MaxSessions
    BY FS_Interval, SizeAssumption DEF Slots
  <2>2. /\ Cardinality(sessions) = accepted + (IF acc = Stopped THEN 0 ELSE 1)
        /\ acc = Stopped => sessions = Slots
        /\ accepted \in Nat /\ sessions \in SUBSET Slots
    BY DEF IInv, CountInv, Types
  <2>3. Cardinality(sessions) <= MaxSessions
    BY <2>1, <2>2, FS_Subset
  <2>4. CASE acc = Stopped
    <3>1. Cardinality(sessions) = MaxSessions
      BY <2>1, <2>2, <2>4, Zenon
    <3>. QED
      BY <2>2, <2>4, <3>1 DEF AcceptBudget
  <2>5. CASE acc # Stopped
    BY <2>2, <2>3, <2>5, SizeAssumption DEF AcceptBudget
  <2>. QED
    BY <2>4, <2>5
<1>. QED
  BY <1>1, Invariance, PTL

\* io.run() returns only when the pool is spent and every session is closed.
THEOREM ReturnsSpent == Spec => []RunReturnsSpent
<1>1. IInv /\ AcceptBudget => RunReturnsSpent
  <2>. SUFFICES ASSUME IInv, AcceptBudget, ~running PROVE RunReturnsSpent
    BY DEF RunReturnsSpent
  <2>1. acc = Stopped /\ sessions = Slots /\ \A s \in Slots : Quiet(ses[s])
    BY DEF IInv, CountInv
  <2>2. \A s \in Slots : s # acc.slot
    BY <2>1 DEF Slots, Stopped
  <2>3. \A s \in Slots : ses[s].sock = "closed"
    BY <2>1, <2>2 DEF IInv, Types, SlotInv, SessionType, Quiet
  <2>. QED
    BY <2>1, <2>3 DEF AcceptBudget, RunReturnsSpent
<1>. QED
  BY <1>1, Invariance, Budget, PTL

\* do_accept never reserves a slot that is busy.
LEMMA DoAcceptSpares ==
  ASSUME NEW busy \in SUBSET Slots, NEW f, DoAccept(busy, f), NEW s \in busy
  PROVE  s \in sessions' /\ s # acc'.slot
<1>1. CASE sessions' = busy /\ acc' = Stopped
  BY <1>1 DEF Slots, Stopped
<1>2. ASSUME NEW t \in Slots, FirstFree(busy, t), sessions' = busy \cup {t},
             acc' = [st |-> "pending", slot |-> t]
      PROVE  s \in sessions' /\ s # acc'.slot
  BY <1>2 DEF FirstFree
<1>. QED
  BY <1>1, <1>2 DEF DoAccept

\* A session that holds a connection is never destroyed and never constructed
\* again by the acquire() and release() of the accept loop.
THEOREM StartedForEver == Spec => StartedSessionStays
<1>1. IInv /\ IInv' /\ [Next]_vars =>
        [\A s \in Slots : ses[s].sock # "idle" =>
           s \in sessions' /\ ses'[s].sock # "idle"]_vars
  <2>. SUFFICES ASSUME IInv, IInv', [Next]_vars,
                       NEW s \in Slots, ses[s].sock # "idle"
                PROVE  s \in sessions' /\ ses'[s].sock # "idle"
    OBVIOUS
  <2>1. sessions \in SUBSET Slots
    BY DEF IInv, Types
  <2>2. s \in sessions
    BY DEF IInv, SlotInv
  <2>3. s = acc.slot => acc # Stopped /\ acc.st = "ok"
    BY DEF IInv, SlotInv, Stopped, Slots
  <2>4. ASSUME s \in sessions', s # acc'.slot
        PROVE  ses'[s].sock # "idle"
    BY <2>4 DEF IInv, SlotInv
  <2>5. CASE OnAccepted
    <3>1. DoAccept(sessions, [ses EXCEPT ![acc.slot] = DoRead(@)])
      BY <2>5 DEF OnAccepted
    <3>. QED
      BY <2>1, <2>2, <2>4, <3>1, DoAcceptSpares
  <2>6. CASE OnAcceptFailed
    <3>1. acc.st = "err" /\ DoAccept(sessions \ {acc.slot}, ses)
      BY <2>6 DEF OnAcceptFailed
    <3>2. s \in sessions \ {acc.slot}
      BY <2>2, <2>3, <3>1
    <3>3. sessions \ {acc.slot} \in SUBSET Slots
      BY <2>1
    <3>. QED
      BY <2>4, <3>1, <3>2, <3>3, DoAcceptSpares
  <2>7. CASE AcceptReady \/ AcceptError
    <3>1. acc.st = "pending" /\ acc'.slot = acc.slot /\ sessions' = sessions
      BY <2>7, AccCases DEF AcceptReady, AcceptError, IInv, Types, Stopped
    <3>. QED
      BY <2>2, <2>3, <2>4, <3>1
  <2>8. CASE UNCHANGED <<sessions, acc>>
    <3>1. CASE s = acc.slot
      BY <2>2, <2>3, <2>8, <3>1 DEF IInv, SlotInv
    <3>2. CASE s # acc.slot
      BY <2>2, <2>4, <2>8, <3>2
    <3>. QED
      BY <3>1, <3>2
  <2>9. \/ OnAccepted \/ OnAcceptFailed \/ AcceptReady \/ AcceptError
        \/ UNCHANGED <<sessions, acc>>
    BY DEF Next, vars, Connect, PeerSend, PeerFinish, PeerReset, ReadReady,
           ReadFails, SendSome, SendFails, ReadHandler, WriteHandler,
           RunReturns
  <2>. QED
    BY <2>5, <2>6, <2>7, <2>8, <2>9
<1>. QED
  BY <1>1, Invariance, PTL DEF Spec, StartedSessionStays

(* The bytes that a queue of writes has still to send.  RemainingOf is a   *)
(* recursive function: SumsExist shows that there is one, SumOf what it    *)
(* computes, and the lemmas after it what the first and the last write of  *)
(* a queue contribute.                                                     *)

\* A set of numbers that holds 0 and the successor of each of its members is all of Nat.
LEMMA Induction ==
  ASSUME NEW S \in SUBSET Nat, 0 \in S, \A n \in S : n + 1 \in S
  PROVE  S = Nat
<1>. DEFINE R == OpToRel(<, Nat)
            T == Nat \ S
<1>1. \A m, n \in Nat : <<m, n>> \in R <=> m < n
  BY DEF OpToRel
<1>2. IsWellFoundedOn(R, Nat)
  BY NatLessThanWellFounded
<1>. HIDE DEF R
<1>3. SUFFICES ASSUME S # Nat PROVE FALSE
  OBVIOUS
<1>4. T \in SUBSET Nat /\ T # {}
  BY <1>3
<1>. HIDE DEF T
<1>5. PICK n \in T : \A m \in T : ~(<<m, n>> \in R)
  BY <1>2, <1>4, WFMin
<1>6. n \in Nat \ S /\ \A m \in Nat \ S : ~(m < n)
  BY <1>1, <1>4, <1>5 DEF T
<1>7. n - 1 \in Nat /\ n - 1 \notin Nat \ S
  BY <1>6
<1>. QED
  BY <1>6, <1>7

\* f sums up the bytes that the first i of n writes have still to send.
Sums(f, ws, n) ==
    f = [i \in 0..n |-> IF i = 0 THEN 0 ELSE f[i - 1] + Remaining(ws[i])]

\* There are such sums for every queue.
LEMMA SumsExist == \A ws : \A n \in Nat : \E f : Sums(f, ws, n)
<1>. SUFFICES ASSUME NEW ws PROVE \A n \in Nat : \E f : Sums(f, ws, n)
  OBVIOUS
<1>. DEFINE S == {n \in Nat : \E f : Sums(f, ws, n)}
<1>1. 0 \in S
  <2>1. Sums([i \in 0..0 |-> 0], ws, 0)
    BY DEF Sums
  <2>. QED
    BY <2>1
<1>2. ASSUME NEW n \in S PROVE n + 1 \in S
  <2>1. PICK f : Sums(f, ws, n)
    OBVIOUS
  <2>. DEFINE g == [i \in 0..(n + 1) |->
                      IF i \in 0..n THEN f[i] ELSE f[n] + Remaining(ws[n + 1])]
  <2>2. ASSUME NEW i \in 0..(n + 1)
        PROVE  g[i] = IF i = 0 THEN 0 ELSE g[i - 1] + Remaining(ws[i])
    <3>1. CASE i \in 0..n
      <4>1. f[i] = IF i = 0 THEN 0 ELSE f[i - 1] + Remaining(ws[i])
        BY <2>1, <3>1 DEF Sums
      <4>2. i # 0 => i - 1 \in 0..n /\ i - 1 \in 0..(n + 1)
        BY <3>1
      <4>. QED
        BY <3>1, <4>1, <4>2
    <3>2. CASE i \notin 0..n
      <4>1. i = n + 1 /\ i # 0 /\ i - 1 = n /\ n \in 0..n /\ n \in 0..(n + 1)
        BY <3>2
      <4>. QED
        BY <3>2, <4>1
    <3>. QED
      BY <3>1, <3>2
  <2>3. g = [i \in 0..(n + 1) |-> g[i]]
    OBVIOUS
  <2>. HIDE DEF g
  <2>4. Sums(g, ws, n + 1)
    BY <2>2, <2>3 DEF Sums
  <2>. QED
    BY <2>4
<1>3. S = Nat
  <2>1. S \in SUBSET Nat
    OBVIOUS
  <2>. HIDE DEF S
  <2>. QED
    BY <1>1, <1>2, <2>1, Induction
<1>. QED
  BY <1>3

\* RemainingOf is the last of the sums of its queue.
LEMMA SumOf ==
  ASSUME NEW ws \in Seq(WriteOp)
  PROVE  \E f : /\ RemainingOf(ws) = f[Len(ws)]
                /\ f[0] = 0
                /\ \A i \in 1..Len(ws) : f[i] = f[i - 1] + Remaining(ws[i])
                /\ \A i \in 0..Len(ws) : f[i] \in Int
<1>. DEFINE N == Len(ws)
            f == CHOOSE f : Sums(f, ws, N)
<1>1. N \in Nat
  OBVIOUS
<1>2. Sums(f, ws, N)
  <2>1. \E g : Sums(g, ws, N)
    BY <1>1, SumsExist
  <2>. QED
    BY <2>1
<1>3. RemainingOf(ws) = f[N]
  BY DEF RemainingOf, Sums
<1>. HIDE DEF f
<1>4. \A i \in 0..N : f[i] = IF i = 0 THEN 0 ELSE f[i - 1] + Remaining(ws[i])
  BY <1>2 DEF Sums
<1>5. f[0] = 0 /\ \A i \in 1..N : f[i] = f[i - 1] + Remaining(ws[i])
  BY <1>1, <1>4
<1>. DEFINE S == {n \in Nat : n <= N => f[n] \in Int}
<1>6. 0 \in S
  BY <1>5
<1>7. ASSUME NEW n \in S PROVE n + 1 \in S
  <2>1. SUFFICES ASSUME n + 1 <= N PROVE f[n + 1] \in Int
    OBVIOUS
  <2>2. n \in Nat /\ n + 1 \in 1..N /\ (n + 1) - 1 = n /\ f[n] \in Int
    BY <1>1, <2>1
  <2>3. f[n + 1] = f[n] + Remaining(ws[n + 1])
    BY <1>5, <2>2
  <2>4. Remaining(ws[n + 1]) \in Int
    <3>1. ws[n + 1] \in WriteOp
      BY <2>2, ElementOfSeq
    <3>. QED
      BY <3>1, SizeAssumption DEF Remaining, WriteOp
  <2>. QED
    BY <2>2, <2>3, <2>4
<1>8. S = Nat
  <2>1. S \in SUBSET Nat
    OBVIOUS
  <2>. HIDE DEF S
  <2>. QED
    BY <1>6, <1>7, <2>1, Induction
<1>9. \A i \in 0..N : f[i] \in Int
  BY <1>1, <1>8
<1>. QED
  BY <1>3, <1>5, <1>9

\* It is a number.
LEMMA SumOfInt == \A ws \in Seq(WriteOp) : RemainingOf(ws) \in Int
<1>. SUFFICES ASSUME NEW ws \in Seq(WriteOp) PROVE RemainingOf(ws) \in Int
  OBVIOUS
<1>1. Len(ws) \in 0..Len(ws)
  OBVIOUS
<1>. QED
  BY <1>1, SumOf

\* A queue without writes has nothing to send.
LEMMA NothingRemains == RemainingOf(<< >>) = 0
<1>1. << >> \in Seq(WriteOp) /\ Len(<< >>) = 0
  OBVIOUS
<1>. QED
  BY <1>1, SumOf

\* f grows from 0 to N as g does from d to N + d.
InStep(f, g, N, d) ==
    /\ \A i \in 0..N : f[i] \in Int /\ g[i + d] \in Int
    /\ \A i \in 1..N : f[i] - f[i - 1] = g[i + d] - g[(i - 1) + d]

\* Two sequences of numbers with the same differences grow by the same number.
LEMMA SameSums ==
  ASSUME NEW N \in Nat, NEW d \in Nat, NEW f, NEW g, InStep(f, g, N, d)
  PROVE  f[N] - f[0] = g[N + d] - g[d]
<1>. DEFINE S == {n \in Nat : n <= N => f[n] - f[0] = g[n + d] - g[d]}
<1>1. 0 \in S
  <2>1. 0 + d = d /\ f[0] \in Int /\ g[0 + d] \in Int
    BY DEF InStep
  <2>. QED
    BY <2>1
<1>2. ASSUME NEW n \in S PROVE n + 1 \in S
  <2>1. SUFFICES ASSUME n + 1 <= N PROVE f[n + 1] - f[0] = g[(n + 1) + d] - g[d]
    OBVIOUS
  <2>2. n \in 0..N /\ n + 1 \in 0..N /\ n + 1 \in 1..N /\ (n + 1) - 1 = n /\ 0 \in 0..N
    BY <2>1
  <2>3. f[n] - f[0] = g[n + d] - g[d]
    BY <2>2
  <2>4. f[n + 1] - f[(n + 1) - 1] = g[(n + 1) + d] - g[((n + 1) - 1) + d]
    BY <2>2 DEF InStep
  <2>5. /\ f[n] \in Int /\ f[n + 1] \in Int /\ f[0] \in Int
        /\ g[n + d] \in Int /\ g[(n + 1) + d] \in Int /\ g[0 + d] \in Int /\ 0 + d = d
    BY <2>2 DEF InStep
  <2>. QED
    BY <2>2, <2>3, <2>4, <2>5
<1>3. S = Nat
  <2>1. S \in SUBSET Nat
    OBVIOUS
  <2>. HIDE DEF S
  <2>. QED
    BY <1>1, <1>2, <2>1, Induction
<1>. QED
  BY <1>3

\* A write that joins at the end brings its bytes with it.
LEMMA OneMoreRemains ==
  ASSUME NEW ws \in Seq(WriteOp), NEW w \in WriteOp
  PROVE  /\ RemainingOf(Append(ws, w)) = RemainingOf(ws) + Remaining(w)
         /\ RemainingOf(ws) \in Int /\ Remaining(w) \in Int
<1>. DEFINE N == Len(ws)
            more == Append(ws, w)
<1>1. /\ more \in Seq(WriteOp) /\ Len(more) = N + 1 /\ N \in Nat /\ more[N + 1] = w
      /\ \A i \in 1..N : more[i] = ws[i]
  BY AppendProperties
<1>2. PICK f : /\ RemainingOf(ws) = f[N]
               /\ f[0] = 0
               /\ \A i \in 1..N : f[i] = f[i - 1] + Remaining(ws[i])
               /\ \A i \in 0..N : f[i] \in Int
  BY SumOf
<1>. HIDE DEF more
<1>3. PICK g : /\ RemainingOf(more) = g[Len(more)]
               /\ g[0] = 0
               /\ \A i \in 1..Len(more) : g[i] = g[i - 1] + Remaining(more[i])
               /\ \A i \in 0..Len(more) : g[i] \in Int
  BY <1>1, SumOf
<1>4. \A i \in 0..N : f[i] \in Int /\ g[i + 0] \in Int
  BY <1>1, <1>2, <1>3
<1>5. ASSUME NEW v \in WriteOp PROVE Remaining(v) \in Int
  BY SizeAssumption DEF Remaining, WriteOp
<1>6. ASSUME NEW i \in 1..N
      PROVE  f[i] - f[i - 1] = g[i + 0] - g[(i - 1) + 0]
  <2>1. ws[i] \in WriteOp /\ more[i] = ws[i]
    BY <1>1, ElementOfSeq
  <2>2. Remaining(ws[i]) \in Int
    BY <1>5, <2>1
  <2>3. i \in 1..Len(more) /\ i + 0 = i /\ (i - 1) + 0 = i - 1 /\ i - 1 \in 0..N
        /\ i - 1 \in 0..Len(more)
    BY <1>1
  <2>4. f[i] = f[i - 1] + Remaining(ws[i]) /\ g[i] = g[i - 1] + Remaining(ws[i])
    BY <1>2, <1>3, <2>1, <2>3
  <2>5. f[i - 1] \in Int /\ g[i - 1] \in Int
    BY <1>2, <1>3, <2>3
  <2>. QED
    BY <2>2, <2>3, <2>4, <2>5
<1>7. f[N] - f[0] = g[N + 0] - g[0]
  <2>1. N \in Nat /\ 0 \in Nat
    BY <1>1
  <2>2. InStep(f, g, N, 0)
    BY <1>4, <1>6 DEF InStep
  <2>. QED
    BY <2>1, <2>2, SameSums
<1>8. g[N + 1] = g[(N + 1) - 1] + Remaining(w)
  BY <1>1, <1>3
<1>9. N + 0 = N /\ (N + 1) - 1 = N /\ f[N] \in Int /\ g[N] \in Int
  BY <1>1, <1>2, <1>3
<1>10. RemainingOf(more) = RemainingOf(ws) + Remaining(w)
  BY <1>1, <1>2, <1>3, <1>7, <1>8, <1>9
<1>. QED
  BY <1>2, <1>5, <1>9, <1>10 DEF more

\* A write that leaves from the front takes its bytes with it.
LEMMA OneLessRemains ==
  ASSUME NEW ws \in Seq(WriteOp), ws # << >>
  PROVE  /\ RemainingOf(ws) = Remaining(Head(ws)) + RemainingOf(Tail(ws))
         /\ RemainingOf(Tail(ws)) \in Int /\ Remaining(Head(ws)) \in Int
<1>. DEFINE less == Tail(ws)
            N    == Len(less)
<1>1. /\ less \in Seq(WriteOp) /\ Len(ws) = N + 1 /\ N \in Nat
      /\ ws[1] = Head(ws) /\ Head(ws) \in WriteOp
  BY HeadTailProperties
<1>2. \A i \in 1..N : less[i] = ws[i + 1]
  BY <1>1
<1>. HIDE DEF less
<1>3. PICK f : /\ RemainingOf(less) = f[N]
               /\ f[0] = 0
               /\ \A i \in 1..N : f[i] = f[i - 1] + Remaining(less[i])
               /\ \A i \in 0..N : f[i] \in Int
  BY <1>1, SumOf
<1>4. PICK g : /\ RemainingOf(ws) = g[Len(ws)]
               /\ g[0] = 0
               /\ \A i \in 1..Len(ws) : g[i] = g[i - 1] + Remaining(ws[i])
               /\ \A i \in 0..Len(ws) : g[i] \in Int
  BY SumOf
<1>5. \A i \in 0..N : f[i] \in Int /\ g[i + 1] \in Int
  BY <1>1, <1>3, <1>4
<1>6. ASSUME NEW v \in WriteOp PROVE Remaining(v) \in Int
  BY SizeAssumption DEF Remaining, WriteOp
<1>7. ASSUME NEW i \in 1..N
      PROVE  f[i] - f[i - 1] = g[i + 1] - g[(i - 1) + 1]
  <2>1. i + 1 \in 1..Len(ws) /\ (i + 1) - 1 = i /\ (i - 1) + 1 = i
        /\ i - 1 \in 0..N /\ i \in 0..Len(ws)
    BY <1>1
  <2>2. ws[i + 1] \in WriteOp /\ less[i] = ws[i + 1]
    BY <1>2, <2>1, ElementOfSeq
  <2>3. Remaining(ws[i + 1]) \in Int
    BY <1>6, <2>2
  <2>4. /\ f[i] = f[i - 1] + Remaining(ws[i + 1])
        /\ g[i + 1] = g[i] + Remaining(ws[i + 1])
    <3>1. g[i + 1] = g[(i + 1) - 1] + Remaining(ws[i + 1])
      BY <1>4, <2>1
    <3>. QED
      BY <1>3, <2>1, <2>2, <3>1
  <2>5. f[i - 1] \in Int /\ g[i] \in Int
    BY <1>3, <1>4, <2>1
  <2>. QED
    BY <2>1, <2>3, <2>4, <2>5
<1>8. f[N] - f[0] = g[N + 1] - g[1]
  <2>1. N \in Nat /\ 1 \in Nat
    BY <1>1
  <2>2. InStep(f, g, N, 1)
    BY <1>5, <1>7 DEF InStep
  <2>. QED
    BY <2>1, <2>2, SameSums
<1>9. g[1] = Remaining(Head(ws))
  <2>1. 1 \in 1..Len(ws) /\ 1 - 1 = 0
    BY <1>1
  <2>2. g[1] = g[1 - 1] + Remaining(ws[1])
    BY <1>4, <2>1
  <2>3. Remaining(Head(ws)) \in Int
    BY <1>1, <1>6
  <2>. QED
    BY <1>1, <1>4, <2>1, <2>2, <2>3
<1>10. f[N] \in Int /\ g[N + 1] \in Int /\ Remaining(Head(ws)) \in Int
  BY <1>1, <1>3, <1>4, <1>6
<1>11. RemainingOf(ws) = Remaining(Head(ws)) + RemainingOf(less)
  BY <1>1, <1>3, <1>4, <1>8, <1>9, <1>10
<1>. QED
  BY <1>3, <1>10, <1>11 DEF less

(* A session and its connection.                                           *)

\* The bytes of q are those that come after the first n of the stream.
Bytes(q, n) == \A i \in 1..Len(q) : q[i] = n + i

AllSent(ws) == \A i \in 1..Len(ws) : Remaining(ws[i]) = 0

LastUnsent(ws, w) ==
    /\ Len(ws) > 0 /\ ws[Len(ws)] = w
    /\ \A i \in 1..Len(ws) : i # Len(ws) => Remaining(ws[i]) = 0

\* n bytes are in the write in progress, behind the o bytes that came back and before
\* those that were read and those that wait.
InOrder(got, inb, sent, o, n) ==
    /\ Bytes(got, o + n)
    /\ Bytes(inb, o + n + Len(got))
    /\ sent = o + n + Len(got) + Len(inb)

\* What w has still to send are the next bytes of the stream.
Loaded(tx, w, o) ==
    /\ Remaining(w) > 0
    /\ \A i \in 1..Remaining(w) : tx[w.off + i] = o + i

\* There is one write in progress at the most, and tx holds what it has to send.
OneWrite(got, inb, sent, o, tx, wq, wdone) ==
    \/ wq = << >> /\ AllSent(wdone) /\ InOrder(got, inb, sent, o, 0)
    \/ \E w \in WriteOp :
          /\ Loaded(tx, w, o) /\ InOrder(got, inb, sent, o, Remaining(w))
          /\ \/ wq = <<w>> /\ AllSent(wdone)
             \/ wq = << >> /\ LastUnsent(wdone, w)

\* A read that completed has bytes and no other has; before its connection nothing
\* comes back; what comes back is a beginning of the stream.
StreamInv(r, c) ==
    /\ r.rd = "data" <=> r.got # << >>
    /\ r.sock = "idle" => c.out = << >> /\ ~r.overlap
    /\ ~r.overlap => Bytes(c.out, 0) /\ Len(c.out) <= c.sent
    /\ ~r.overlap /\ r.sock = "open" =>
         OneWrite(r.got, c.inb, c.sent, Len(c.out), r.tx, r.wq, r.wdone)

NoneOverrun(ws) == \A i \in 1..Len(ws) : Remaining(ws[i]) >= 0

\* Every byte that was sent is in one place; overlapping writes keep their lengths.
Balanced(got, inb, wq, wdone, sent, o) ==
    sent = Len(inb) + Len(got) + RemainingOf(wq) + RemainingOf(wdone) + o

LengthInv(r, c) ==
    r.sock = "open" =>
        /\ NoneOverrun(r.wq) /\ NoneOverrun(r.wdone)
        /\ Balanced(r.got, c.inb, r.wq, r.wdone, c.sent, Len(c.out))

Good(r, c) ==
    /\ SesOK(r) /\ c \in ConnType
    /\ StreamInv(r, c)
    /\ LengthInv(r, c)

(* Pieces of the stream.                                                   *)

\* The next byte continues a piece of the stream.
LEMMA BytesAppended ==
  ASSUME NEW q \in Seq(Byte), NEW n \in Int, Bytes(q, n), NEW x, x = n + Len(q) + 1
  PROVE  Bytes(Append(q, x), n) /\ Len(Append(q, x)) = Len(q) + 1
<1>1. Len(Append(q, x)) = Len(q) + 1 /\ Len(q) \in Nat
  OBVIOUS
<1>2. ASSUME NEW i \in 1..(Len(q) + 1) PROVE Append(q, x)[i] = n + i
  <2>1. CASE i = Len(q) + 1
    BY <1>1, <2>1
  <2>2. CASE i # Len(q) + 1
    BY <1>1, <2>2 DEF Bytes
  <2>. QED
    BY <2>1, <2>2
<1>. QED
  BY <1>1, <1>2 DEF Bytes

\* A piece of the stream is cut in two.
LEMMA BytesCut ==
  ASSUME NEW q \in Seq(Byte), NEW n \in Int, Bytes(q, n), NEW k \in 0..Len(q)
  PROVE  /\ Bytes(SubSeq(q, 1, k), n) /\ Len(SubSeq(q, 1, k)) = k
         /\ Bytes(SubSeq(q, k + 1, Len(q)), n + k)
         /\ Len(SubSeq(q, k + 1, Len(q))) = Len(q) - k
<1>1. Len(q) \in Nat /\ k \in Nat
  OBVIOUS
<1>2. /\ Len(SubSeq(q, 1, k)) = k
      /\ \A i \in 1..k : SubSeq(q, 1, k)[i] = q[i]
  BY <1>1
<1>3. /\ Len(SubSeq(q, k + 1, Len(q))) = Len(q) - k
      /\ \A i \in 1..(Len(q) - k) : SubSeq(q, k + 1, Len(q))[i] = q[k + i]
  BY <1>1
<1>4. ASSUME NEW i \in 1..(Len(q) - k) PROVE q[k + i] = (n + k) + i
  <2>1. k + i \in 1..Len(q)
    BY <1>1
  <2>2. q[k + i] = n + (k + i)
    BY <2>1 DEF Bytes
  <2>. QED
    BY <1>1, <2>2
<1>. QED
  BY <1>1, <1>2, <1>3, <1>4 DEF Bytes

\* A piece of the stream follows another.
LEMMA BytesJoined ==
  ASSUME NEW q \in Seq(Byte \cup {Junk}), NEW b \in Seq(Byte \cup {Junk}),
         NEW n \in Int, Bytes(q, n), Bytes(b, n + Len(q))
  PROVE  Bytes(q \o b, n) /\ Len(q \o b) = Len(q) + Len(b)
<1>1. Len(q \o b) = Len(q) + Len(b) /\ Len(q) \in Nat /\ Len(b) \in Nat
  OBVIOUS
<1>2. ASSUME NEW i \in 1..(Len(q) + Len(b)) PROVE (q \o b)[i] = n + i
  <2>1. CASE i <= Len(q)
    BY <1>1, <2>1 DEF Bytes
  <2>2. CASE i > Len(q)
    <3>1. i - Len(q) \in 1..Len(b) /\ (q \o b)[i] = b[i - Len(q)]
      BY <1>1, <2>2
    <3>2. b[i - Len(q)] = (n + Len(q)) + (i - Len(q))
      BY <3>1 DEF Bytes
    <3>. QED
      BY <1>1, <3>1, <3>2
  <2>. QED
    BY <1>1, <2>1, <2>2
<1>. QED
  BY <1>1, <1>2 DEF Bytes

\* The next byte of the stream arrives.
LEMMA ByteArrives ==
  ASSUME NEW got \in Seq(Byte), NEW inb \in Seq(Byte), NEW sent \in Nat, NEW o \in Nat,
         NEW n \in Int, InOrder(got, inb, sent, o, n)
  PROVE  InOrder(got, Append(inb, sent + 1), sent + 1, o, n)
<1>. DEFINE m == o + n + Len(got)
<1>1. m \in Int /\ Bytes(inb, m) /\ sent = m + Len(inb) /\ Len(inb) \in Nat
  BY DEF InOrder
<1>2. Bytes(got, o + n)
  BY DEF InOrder
<1>3. InOrder(got, Append(inb, sent + 1), sent + 1, o, n)
        <=> Bytes(got, o + n) /\ Bytes(Append(inb, sent + 1), m)
            /\ sent + 1 = m + Len(Append(inb, sent + 1))
  BY DEF InOrder
<1>. HIDE DEF m
<1>4. Bytes(Append(inb, sent + 1), m) /\ Len(Append(inb, sent + 1)) = Len(inb) + 1
  <2>1. sent + 1 = m + Len(inb) + 1
    BY <1>1
  <2>. QED
    BY <1>1, <2>1, BytesAppended
<1>. QED
  BY <1>1, <1>2, <1>3, <1>4

\* The first k bytes that wait are read.
LEMMA BytesRead ==
  ASSUME NEW inb \in Seq(Byte), NEW sent \in Nat, NEW o \in Nat, NEW n \in Int,
         InOrder(<< >>, inb, sent, o, n), NEW k \in 1..Len(inb)
  PROVE  InOrder(SubSeq(inb, 1, k), SubSeq(inb, k + 1, Len(inb)), sent, o, n)
<1>. DEFINE m    == o + n
            got  == SubSeq(inb, 1, k)
            rest == SubSeq(inb, k + 1, Len(inb))
<1>1. m \in Int /\ Len(inb) \in Nat /\ k \in Nat /\ k \in 0..Len(inb) /\ Len(<< >>) = 0
  OBVIOUS
<1>2. Bytes(inb, m) /\ sent = m + Len(inb)
  BY <1>1 DEF InOrder
<1>3. /\ Bytes(got, m) /\ Len(got) = k
      /\ Bytes(rest, m + k) /\ Len(rest) = Len(inb) - k
  BY <1>1, <1>2, BytesCut
<1>4. InOrder(got, rest, sent, o, n)
        <=> Bytes(got, m) /\ Bytes(rest, m + Len(got)) /\ sent = m + Len(got) + Len(rest)
  BY DEF InOrder
<1>. HIDE DEF m, got, rest
<1>5. InOrder(got, rest, sent, o, n)
  BY <1>1, <1>2, <1>3, <1>4
<1>. QED
  BY <1>5 DEF got, rest

\* The next k of the n bytes in the write come back.
LEMMA BytesBack ==
  ASSUME NEW got \in Seq(Byte), NEW inb \in Seq(Byte), NEW sent \in Nat, NEW o \in Nat,
         NEW n \in Int, NEW k \in Nat, InOrder(got, inb, sent, o, n)
  PROVE  InOrder(got, inb, sent, o + k, n - k)
<1>1. (o + k) + (n - k) = o + n
  OBVIOUS
<1>2. InOrder(got, inb, sent, o + k, n - k)
        <=> /\ Bytes(got, (o + k) + (n - k))
            /\ Bytes(inb, (o + k) + (n - k) + Len(got))
            /\ sent = (o + k) + (n - k) + Len(got) + Len(inb)
  BY DEF InOrder
<1>. QED
  BY <1>1, <1>2 DEF InOrder

\* The bytes that were read are put into a write.
LEMMA BytesLoaded ==
  ASSUME NEW got \in Seq(Byte), NEW inb \in Seq(Byte), NEW sent \in Nat, NEW o \in Nat,
         InOrder(got, inb, sent, o, 0)
  PROVE  /\ InOrder(<< >>, inb, sent, o, Len(got))
         /\ \A i \in 1..Len(got) : got[i] = o + i
<1>1. Len(<< >>) = 0 /\ Len(got) \in Nat /\ Len(inb) \in Nat
  OBVIOUS
<1>2. Bytes(got, o) /\ Bytes(inb, o + Len(got)) /\ sent = o + Len(got) + Len(inb)
  <2>1. o + 0 = o
    OBVIOUS
  <2>. QED
    BY <1>1, <2>1 DEF InOrder
<1>3. Bytes(<< >>, o + Len(got))
  BY DEF Bytes
<1>4. InOrder(<< >>, inb, sent, o, Len(got))
        <=> /\ Bytes(<< >>, o + Len(got))
            /\ Bytes(inb, o + Len(got) + Len(<< >>))
            /\ sent = o + Len(got) + Len(<< >>) + Len(inb)
  BY DEF InOrder
<1>5. o + Len(got) + Len(<< >>) = o + Len(got)
  BY <1>1
<1>. QED
  BY <1>1, <1>2, <1>3, <1>4, <1>5 DEF Bytes

\* The bytes that are in order were sent.
LEMMA OrderBounds ==
  ASSUME NEW got \in Seq(Byte), NEW inb \in Seq(Byte), NEW sent \in Nat, NEW o \in Nat,
         NEW n \in Int, InOrder(got, inb, sent, o, n)
  PROVE  o + n <= sent
<1>1. Len(got) \in Nat /\ Len(inb) \in Nat
  OBVIOUS
<1>. QED
  BY <1>1 DEF InOrder

\* The three ways in which bytes change places keep their number.
LEMMA BalanceKept ==
  ASSUME NEW got \in Seq(Byte), NEW inb \in Seq(Byte), NEW wq \in Seq(WriteOp),
         NEW wdone \in Seq(WriteOp), NEW sent \in Nat, NEW o \in Nat,
         Balanced(got, inb, wq, wdone, sent, o)
  PROVE  /\ \A x : Balanced(got, Append(inb, x), wq, wdone, sent + 1, o)
         /\ \A k \in 1..Len(inb) : got = << >> =>
              Balanced(SubSeq(inb, 1, k), SubSeq(inb, k + 1, Len(inb)), wq, wdone, sent, o)
         /\ \A w \in WriteOp : Remaining(w) = Len(got) =>
              Balanced(<< >>, inb, Append(wq, w), wdone, sent, o)
<1>1. /\ Len(got) \in Nat /\ Len(inb) \in Nat /\ Len(<< >>) = 0
      /\ RemainingOf(wq) \in Int /\ RemainingOf(wdone) \in Int
  BY SumOfInt
<1>2. sent = Len(inb) + Len(got) + RemainingOf(wq) + RemainingOf(wdone) + o
  BY DEF Balanced
<1>3. ASSUME NEW x PROVE Balanced(got, Append(inb, x), wq, wdone, sent + 1, o)
  <2>1. Len(Append(inb, x)) = Len(inb) + 1
    OBVIOUS
  <2>. DEFINE q == RemainingOf(wq)
              d == RemainingOf(wdone)
              l == Len(inb)
              g == Len(got)
  <2>2. Balanced(got, Append(inb, x), wq, wdone, sent + 1, o) <=> sent + 1 = l + 1 + g + q + d + o
    BY <2>1 DEF Balanced
  <2>3. /\ q \in Int /\ d \in Int /\ l \in Nat /\ g \in Nat
        /\ sent = l + g + q + d + o
    BY <1>1, <1>2
  <2>. HIDE DEF q, d, l, g
  <2>. QED
    BY <2>2, <2>3
<1>4. ASSUME NEW k \in 1..Len(inb), got = << >>
      PROVE  Balanced(SubSeq(inb, 1, k), SubSeq(inb, k + 1, Len(inb)), wq, wdone, sent, o)
  <2>. DEFINE front == SubSeq(inb, 1, k)
              rest  == SubSeq(inb, k + 1, Len(inb))
  <2>1. Len(front) = k /\ Len(rest) = Len(inb) - k /\ k \in Nat /\ Len(got) = 0
    BY <1>1, <1>4
  <2>. HIDE DEF front, rest
  <2>2. Balanced(front, rest, wq, wdone, sent, o)
    BY <1>1, <1>2, <2>1 DEF Balanced
  <2>. QED
    BY <2>2 DEF front, rest
<1>5. ASSUME NEW w \in WriteOp, Remaining(w) = Len(got)
      PROVE  Balanced(<< >>, inb, Append(wq, w), wdone, sent, o)
  <2>1. RemainingOf(Append(wq, w)) = RemainingOf(wq) + Len(got)
    BY <1>5, OneMoreRemains
  <2>. QED
    BY <1>1, <1>2, <2>1 DEF Balanced
<1>. QED
  BY <1>3, <1>4, <1>5

\* So do the two ways in which a write changes its place.
LEMMA BalanceMoved ==
  ASSUME NEW got \in Seq(Byte), NEW inb \in Seq(Byte), NEW wq \in Seq(WriteOp),
         NEW wdone \in Seq(WriteOp), NEW sent \in Nat, NEW o \in Nat,
         Balanced(got, inb, wq, wdone, sent, o)
  PROVE  /\ \A v \in WriteOp, k \in Nat :
              wq # << >> /\ Remaining(v) = Remaining(Head(wq)) - k =>
                Balanced(got, inb, Tail(wq), Append(wdone, v), sent, o + k)
         /\ wdone # << >> =>
              /\ Balanced(got, inb, Append(wq, Head(wdone)), Tail(wdone), sent, o)
              /\ Remaining(Head(wdone)) = 0 => Balanced(got, inb, wq, Tail(wdone), sent, o)
<1>1. /\ Len(got) \in Nat /\ Len(inb) \in Nat
      /\ RemainingOf(wq) \in Int /\ RemainingOf(wdone) \in Int
  BY SumOfInt
<1>2. sent = Len(inb) + Len(got) + RemainingOf(wq) + RemainingOf(wdone) + o
  BY DEF Balanced
<1>3. ASSUME NEW v \in WriteOp, NEW k \in Nat, wq # << >>,
             Remaining(v) = Remaining(Head(wq)) - k
      PROVE  Balanced(got, inb, Tail(wq), Append(wdone, v), sent, o + k)
  <2>1. /\ RemainingOf(wq) = Remaining(Head(wq)) + RemainingOf(Tail(wq))
        /\ RemainingOf(Tail(wq)) \in Int /\ Remaining(Head(wq)) \in Int
    BY <1>3, OneLessRemains
  <2>2. RemainingOf(Append(wdone, v)) = RemainingOf(wdone) + Remaining(v)
    BY OneMoreRemains
  <2>. DEFINE left == RemainingOf(Tail(wq))
              now  == RemainingOf(wdone)
              h    == Remaining(Head(wq))
  <2>3. /\ RemainingOf(wq) = h + left /\ h \in Int /\ left \in Int
        /\ RemainingOf(Append(wdone, v)) = now + (h - k) /\ now \in Int
        /\ sent = Len(inb) + Len(got) + RemainingOf(wq) + now + o
    BY <1>1, <1>2, <1>3, <2>1, <2>2
  <2>4. Balanced(got, inb, Tail(wq), Append(wdone, v), sent, o + k)
          <=> sent = Len(inb) + Len(got) + left + RemainingOf(Append(wdone, v)) + (o + k)
    BY DEF Balanced
  <2>. HIDE DEF left, now, h
  <2>. QED
    BY <1>1, <2>3, <2>4
<1>4. ASSUME wdone # << >>
      PROVE  /\ Balanced(got, inb, Append(wq, Head(wdone)), Tail(wdone), sent, o)
             /\ Remaining(Head(wdone)) = 0 => Balanced(got, inb, wq, Tail(wdone), sent, o)
  <2>1. /\ RemainingOf(wdone) = Remaining(Head(wdone)) + RemainingOf(Tail(wdone))
        /\ RemainingOf(Tail(wdone)) \in Int /\ Remaining(Head(wdone)) \in Int
    BY <1>4, OneLessRemains
  <2>2. Head(wdone) \in WriteOp
    BY <1>4, HeadTailProperties
  <2>3. RemainingOf(Append(wq, Head(wdone))) = RemainingOf(wq) + Remaining(Head(wdone))
    BY <2>2, OneMoreRemains
  <2>. DEFINE left == RemainingOf(Tail(wdone))
              now  == RemainingOf(wq)
              h    == Remaining(Head(wdone))
  <2>4. /\ RemainingOf(wdone) = h + left /\ h \in Int /\ left \in Int
        /\ RemainingOf(Append(wq, Head(wdone))) = now + h /\ now \in Int
        /\ sent = Len(inb) + Len(got) + now + RemainingOf(wdone) + o
    BY <1>1, <1>2, <2>1, <2>3
  <2>5. /\ Balanced(got, inb, Append(wq, Head(wdone)), Tail(wdone), sent, o)
             <=> sent = Len(inb) + Len(got) + RemainingOf(Append(wq, Head(wdone))) + left + o
        /\ Balanced(got, inb, wq, Tail(wdone), sent, o)
             <=> sent = Len(inb) + Len(got) + now + left + o
        /\ Remaining(Head(wdone)) = h
    BY DEF Balanced
  <2>. HIDE DEF left, now, h
  <2>6. sent = Len(inb) + Len(got) + now + (h + left) + o
    BY <2>4
  <2>7. sent = Len(inb) + Len(got) + (now + h) + left + o
    BY <1>1, <2>4, <2>6
  <2>8. h = 0 => sent = Len(inb) + Len(got) + now + left + o
    BY <1>1, <2>4, <2>6
  <2>. QED
    BY <2>4, <2>5, <2>7, <2>8
<1>. QED
  BY <1>3, <1>4

\* Of a queue in which everything is sent only the write that joins it may be unsent.
LEMMA SentJoined ==
  ASSUME NEW ws \in Seq(WriteOp), NEW w \in WriteOp
  PROVE  /\ AllSent(ws) /\ Remaining(w) = 0 => AllSent(Append(ws, w))
         /\ AllSent(ws) => LastUnsent(Append(ws, w), w)
         /\ NoneOverrun(ws) /\ Remaining(w) >= 0 => NoneOverrun(Append(ws, w))
<1>. DEFINE more == Append(ws, w)
<1>1. /\ Len(more) = Len(ws) + 1 /\ Len(ws) \in Nat /\ more[Len(ws) + 1] = w
      /\ \A i \in 1..Len(ws) : more[i] = ws[i]
  BY AppendProperties
<1>2. \A i \in 1..Len(more) : i = Len(more) \/ i \in 1..Len(ws)
  BY <1>1
<1>. HIDE DEF more
<1>3. /\ AllSent(ws) /\ Remaining(w) = 0 => AllSent(more)
      /\ AllSent(ws) => LastUnsent(more, w)
      /\ NoneOverrun(ws) /\ Remaining(w) >= 0 => NoneOverrun(more)
  BY <1>1, <1>2 DEF AllSent, LastUnsent, NoneOverrun
<1>. QED
  BY <1>3 DEF more

\* What the first write of a queue says of the others
LEMMA FirstLeft ==
  ASSUME NEW ws \in Seq(WriteOp), ws # << >>
  PROVE  /\ AllSent(ws) => Remaining(Head(ws)) = 0 /\ AllSent(Tail(ws))
         /\ \A w : LastUnsent(ws, w) /\ Len(ws) = 1 => Head(ws) = w /\ AllSent(Tail(ws))
         /\ \A w : LastUnsent(ws, w) /\ Len(ws) # 1 =>
                 Remaining(Head(ws)) = 0 /\ LastUnsent(Tail(ws), w)
         /\ NoneOverrun(ws) => Remaining(Head(ws)) >= 0 /\ NoneOverrun(Tail(ws))
<1>. DEFINE less == Tail(ws)
<1>1. /\ Len(ws) \in Nat \ {0} /\ Len(less) = Len(ws) - 1 /\ Head(ws) = ws[1]
      /\ \A i \in 1..Len(less) : less[i] = ws[i + 1] /\ i + 1 \in 1..Len(ws)
  BY HeadTailProperties
<1>. HIDE DEF less
<1>2. 1 \in 1..Len(ws)
  BY <1>1
<1>3. ASSUME AllSent(ws) PROVE Remaining(Head(ws)) = 0 /\ AllSent(less)
  BY <1>1, <1>2, <1>3 DEF AllSent
<1>4. ASSUME NEW w, LastUnsent(ws, w), Len(ws) = 1 PROVE Head(ws) = w /\ AllSent(less)
  BY <1>1, <1>4 DEF LastUnsent, AllSent
<1>5. ASSUME NEW w, LastUnsent(ws, w), Len(ws) # 1
      PROVE  Remaining(Head(ws)) = 0 /\ LastUnsent(less, w)
  <2>1. Len(less) > 0 /\ Len(less) \in 1..Len(less) /\ Len(less) + 1 = Len(ws)
    BY <1>1, <1>5
  <2>2. less[Len(less)] = w
    BY <1>1, <1>5, <2>1 DEF LastUnsent
  <2>3. ASSUME NEW i \in 1..Len(less), i # Len(less) PROVE Remaining(less[i]) = 0
    BY <1>1, <1>5, <2>1, <2>3 DEF LastUnsent
  <2>4. Remaining(Head(ws)) = 0
    BY <1>1, <1>2, <1>5 DEF LastUnsent
  <2>. QED
    BY <2>1, <2>2, <2>3, <2>4 DEF LastUnsent
<1>6. ASSUME NoneOverrun(ws) PROVE Remaining(Head(ws)) >= 0 /\ NoneOverrun(less)
  BY <1>1, <1>2, <1>6 DEF NoneOverrun
<1>. QED
  BY <1>3, <1>4, <1>5, <1>6 DEF less

\* The bytes that a write has still to send
LEMMA RemainingInt == \A w \in WriteOp : Remaining(w) \in Int
  BY SizeAssumption DEF Remaining, WriteOp

\* OneWrite when the next byte of the stream arrives
LEMMA WriteArrives ==
  ASSUME NEW got \in Seq(Byte), NEW inb \in Seq(Byte), NEW sent \in Nat, NEW o \in Nat,
         NEW tx, NEW wq, NEW wdone, OneWrite(got, inb, sent, o, tx, wq, wdone)
  PROVE  OneWrite(got, Append(inb, sent + 1), sent + 1, o, tx, wq, wdone)
<1>1. \A n \in Int : InOrder(got, inb, sent, o, n) =>
                       InOrder(got, Append(inb, sent + 1), sent + 1, o, n)
  BY ByteArrives
<1>. QED
  BY <1>1, RemainingInt DEF OneWrite

\* OneWrite when a read takes the first k bytes that wait
LEMMA WriteRead ==
  ASSUME NEW inb \in Seq(Byte), NEW sent \in Nat, NEW o \in Nat,
         NEW tx, NEW wq, NEW wdone, OneWrite(<< >>, inb, sent, o, tx, wq, wdone),
         NEW k \in 1..Len(inb)
  PROVE  OneWrite(SubSeq(inb, 1, k), SubSeq(inb, k + 1, Len(inb)), sent, o, tx, wq, wdone)
<1>1. \A n \in Int : InOrder(<< >>, inb, sent, o, n) =>
                       InOrder(SubSeq(inb, 1, k), SubSeq(inb, k + 1, Len(inb)), sent, o, n)
  BY BytesRead
<1>. QED
  BY <1>1, RemainingInt DEF OneWrite

\* OneWrite when on_data turns what was read into a write and none is unfinished
LEMMA WriteLoaded ==
  ASSUME NEW got \in Seq(Byte), NEW inb \in Seq(Byte), NEW sent \in Nat, NEW o \in Nat,
         NEW tx, NEW wq, NEW wdone \in Seq(WriteOp),
         OneWrite(got, inb, sent, o, tx, wq, wdone), got # << >>,
         wq = << >>, \A i \in 1..Len(wdone) : ~(Remaining(wdone[i]) > 0),
         NEW w \in WriteOp, w.off = 0, Remaining(w) = Len(got),
         NEW tx2, \A i \in 1..Len(got) : tx2[i] = got[i]
  PROVE  OneWrite(<< >>, inb, sent, o, tx2, <<w>>, wdone)
<1>1. AllSent(wdone) /\ InOrder(got, inb, sent, o, 0)
  <2>1. ASSUME NEW u \in WriteOp, Loaded(tx, u, o), LastUnsent(wdone, u) PROVE FALSE
    <3>1. Len(wdone) \in 1..Len(wdone)
      BY <2>1 DEF LastUnsent
    <3>2. wdone[Len(wdone)] = u /\ Remaining(u) > 0
      BY <2>1 DEF LastUnsent, Loaded
    <3>. QED
      BY <3>1, <3>2
  <2>2. \A u \in WriteOp : wq # <<u>>
    OBVIOUS
  <2>. QED
    BY <2>1, <2>2 DEF OneWrite
<1>2. /\ InOrder(<< >>, inb, sent, o, Len(got))
      /\ \A i \in 1..Len(got) : got[i] = o + i
  BY <1>1, BytesLoaded
<1>3. Loaded(tx2, w, o)
  <2>1. Len(got) \in Nat /\ Len(got) # 0
    OBVIOUS
  <2>2. ASSUME NEW i \in 1..Len(got) PROVE tx2[w.off + i] = o + i
    <3>1. w.off + i = i
      OBVIOUS
    <3>. QED
      BY <1>2, <3>1
  <2>. QED
    BY <2>1, <2>2 DEF Loaded
<1>. QED
  BY <1>1, <1>2, <1>3 DEF OneWrite

\* OneWrite when a send takes the first k bytes of the write
LEMMA WriteBack ==
  ASSUME NEW got \in Seq(Byte), NEW inb \in Seq(Byte), NEW sent \in Nat,
         NEW out \in Seq(Byte \cup {Junk}), Bytes(out, 0),
         NEW tx, NEW wq \in Seq(WriteOp), NEW wdone \in Seq(WriteOp),
         OneWrite(got, inb, sent, Len(out), tx, wq, wdone), wq # << >>,
         NEW k \in Nat, k <= Remaining(Head(wq)),
         NEW b \in Seq(Byte \cup {Junk}), Len(b) = k,
         NEW off \in Nat, off = Head(wq).off, \A i \in 1..k : b[i] = tx[off + i],
         NEW v \in WriteOp, v.off = off + k, Remaining(v) = Remaining(Head(wq)) - k
  PROVE  /\ Bytes(out \o b, 0) /\ Len(out \o b) <= sent
         /\ OneWrite(got, inb, sent, Len(out \o b), tx, Tail(wq), Append(wdone, v))
<1>. DEFINE o  == Len(out)
            o2 == Len(out \o b)
            m  == Remaining(Head(wq))
            m2 == Remaining(v)
<1>1. o \in Nat /\ o2 = o + k /\ Head(wq) \in WriteOp
  BY ConcatProperties, HeadTailProperties
<1>2. m \in Int /\ m2 \in Int /\ m2 = m - k /\ k <= m
  BY <1>1, RemainingInt
<1>3. /\ Loaded(tx, Head(wq), o) /\ InOrder(got, inb, sent, o, m)
      /\ Tail(wq) = << >> /\ AllSent(wdone)
  <2>1. PICK u \in WriteOp : /\ Loaded(tx, u, o) /\ InOrder(got, inb, sent, o, Remaining(u))
                             /\ wq = <<u>> /\ AllSent(wdone)
    BY DEF OneWrite
  <2>. QED
    BY <2>1
<1>4. m > 0 /\ \A i \in 1..m : tx[off + i] = o + i
  BY <1>3 DEF Loaded
<1>. HIDE DEF m, m2, o, o2
<1>5. Bytes(b, o)
  <2>1. ASSUME NEW i \in 1..k PROVE b[i] = o + i
    <3>1. i \in 1..m
      BY <1>2
    <3>2. tx[off + i] = o + i
      BY <1>4, <3>1
    <3>. QED
      BY <3>2
  <2>. QED
    BY <2>1 DEF Bytes
<1>6. Bytes(out \o b, 0)
  <2>1. PICK z \in Int : z = 0
    OBVIOUS
  <2>2. z + o = o
    BY <1>1, <2>1
  <2>3. Bytes(out, z) /\ Bytes(b, z + Len(out))
    BY <1>5, <2>1, <2>2 DEF o
  <2>4. Bytes(out \o b, z)
    BY <2>3, BytesJoined
  <2>. QED
    BY <2>1, <2>4
<1>7. InOrder(got, inb, sent, o2, m2)
  BY <1>1, <1>2, <1>3, BytesBack
<1>8. o2 <= sent
  <2>1. o2 + m2 <= sent
    BY <1>1, <1>2, <1>7, OrderBounds
  <2>. QED
    BY <1>1, <1>2, <2>1
<1>9. OneWrite(got, inb, sent, o2, tx, Tail(wq), Append(wdone, v))
  <2>1. CASE m2 = 0
    <3>1. AllSent(Append(wdone, v))
      BY <1>3, <2>1, SentJoined DEF m2
    <3>. QED
      BY <1>3, <1>7, <2>1, <3>1 DEF OneWrite
  <2>2. CASE m2 # 0
    <3>1. ASSUME NEW i \in 1..m2 PROVE tx[v.off + i] = o2 + i
      <4>1. k + i \in 1..m /\ v.off + i = off + (k + i) /\ o2 + i = o + (k + i)
        BY <1>1, <1>2
      <4>. QED
        BY <1>4, <4>1
    <3>2. m2 > 0
      BY <1>2, <2>2
    <3>3. Loaded(tx, v, o2)
      BY <3>1, <3>2 DEF Loaded, m2
    <3>4. LastUnsent(Append(wdone, v), v)
      BY <1>3, SentJoined
    <3>. QED
      BY <1>3, <1>7, <3>3, <3>4 DEF OneWrite, m2
  <2>. QED
    BY <2>1, <2>2
<1>. QED
  BY <1>6, <1>8, <1>9 DEF o2

\* OneWrite when the continuation of the oldest write runs: it is over, or it goes on
LEMMA WriteContinued ==
  ASSUME NEW got, NEW inb, NEW sent, NEW o,
         NEW tx, NEW wq \in Seq(WriteOp), NEW wdone \in Seq(WriteOp), wdone # << >>,
         OneWrite(got, inb, sent, o, tx, wq, wdone)
  PROVE  /\ Remaining(Head(wdone)) = 0 =>
              OneWrite(got, inb, sent, o, tx, wq, Tail(wdone))
         /\ Remaining(Head(wdone)) # 0 =>
              OneWrite(got, inb, sent, o, tx, Append(wq, Head(wdone)), Tail(wdone))
<1>. DEFINE h == Head(wdone)
<1>1. CASE AllSent(wdone)
  <2>1. Remaining(h) = 0 /\ AllSent(Tail(wdone))
    BY <1>1, FirstLeft
  <2>2. ASSUME NEW u \in WriteOp, Loaded(tx, u, o), LastUnsent(wdone, u) PROVE FALSE
    <3>1. Len(wdone) \in 1..Len(wdone)
      BY <2>2 DEF LastUnsent
    <3>2. Remaining(u) = 0 /\ Remaining(u) > 0
      BY <1>1, <2>2, <3>1 DEF LastUnsent, Loaded, AllSent
    <3>. QED
      BY <3>2
  <2>. QED
    BY <2>1, <2>2 DEF OneWrite
<1>2. CASE ~AllSent(wdone)
  <2>1. PICK u \in WriteOp : /\ Loaded(tx, u, o) /\ InOrder(got, inb, sent, o, Remaining(u))
                             /\ wq = << >> /\ LastUnsent(wdone, u)
    BY <1>2 DEF OneWrite
  <2>2. CASE Len(wdone) = 1
    <3>1. h = u /\ AllSent(Tail(wdone))
      BY <2>1, <2>2, FirstLeft
    <3>2. Append(wq, h) = <<u>>
      BY <2>1, <3>1
    <3>3. Remaining(h) # 0
      BY <2>1, <3>1 DEF Loaded
    <3>. QED
      BY <2>1, <3>1, <3>2, <3>3 DEF OneWrite
  <2>3. CASE Len(wdone) # 1
    <3>1. Remaining(h) = 0 /\ LastUnsent(Tail(wdone), u)
      BY <2>1, <2>3, FirstLeft
    <3>. QED
      BY <2>1, <3>1 DEF OneWrite
  <2>. QED
    BY <2>2, <2>3
<1>. QED
  BY <1>1, <1>2

(* What the steps of a session do to Good.                                 *)

\* The types of the parts of a session and of its connection
Typed(r, c) ==
    /\ r \in SessionType /\ c \in ConnType
    /\ c.inb \in Seq(Byte) /\ c.out \in Seq(Byte \cup {Junk}) /\ c.sent \in Nat
    /\ r.got \in Seq(Byte) /\ r.wq \in Seq(WriteOp) /\ r.wdone \in Seq(WriteOp)
    /\ Len(c.out) \in Nat

\* Every session has them.
LEMMA Parts == \A r, c : Good(r, c) => Typed(r, c)
  BY BoundAssumption DEF Typed, Good, SesOK, SessionType, ConnType

\* A peer sends its next byte.
LEMMA SentGood ==
  ASSUME NEW r, NEW c, Good(r, c), NEW c2 \in ConnType,
         c2.sent = c.sent + 1, c2.inb = Append(c.inb, c.sent + 1), c2.out = c.out
  PROVE  Good(r, c2)
<1>0. Typed(r, c)
  BY Parts
<1>1. StreamInv(r, c2)
  <2>1. ~r.overlap => Len(c2.out) <= c2.sent
    BY <1>0 DEF Typed, Good, StreamInv
  <2>2. ~r.overlap /\ r.sock = "open" =>
          OneWrite(r.got, c2.inb, c2.sent, Len(c2.out), r.tx, r.wq, r.wdone)
    BY <1>0, WriteArrives DEF Typed, Good, StreamInv
  <2>. QED
    BY <2>1, <2>2 DEF Good, StreamInv
<1>2. LengthInv(r, c2)
  BY <1>0, BalanceKept DEF Typed, Good, LengthInv
<1>. QED
  BY <1>1, <1>2 DEF Good

\* A peer finishes its stream, or resets the connection.
LEMMA LeftGood ==
  ASSUME NEW r, NEW c, Good(r, c), NEW c2 \in ConnType,
         c2.sent = c.sent, c2.inb = c.inb, c2.out = c.out
  PROVE  Good(r, c2)
  BY DEF Good, StreamInv, LengthInv

\* A read takes the first n bytes of those that wait.
LEMMA ReceivedGood ==
  ASSUME NEW r, NEW c, Good(r, c), r.rd = "armed", NEW n \in 1..Len(c.inb),
         NEW r2, SesOK(r2), NEW c2 \in ConnType,
         r2.sock = r.sock, r2.rd = "data", r2.got = SubSeq(c.inb, 1, n),
         r2.wq = r.wq, r2.wdone = r.wdone, r2.overlap = r.overlap, r2.tx = r.tx,
         c2.sent = c.sent, c2.inb = SubSeq(c.inb, n + 1, Len(c.inb)), c2.out = c.out
  PROVE  Good(r2, c2)
<1>0. Typed(r, c)
  BY Parts
<1>1. r.got = << >>
  BY DEF Good, StreamInv
<1>2. r2.got # << >>
  <2>1. c.inb \in Seq(Byte) /\ n \in Nat /\ n # 0 /\ Len(SubSeq(c.inb, 1, n)) = n
    BY <1>0 DEF Typed
  <2>. QED
    BY <2>1
<1>3. StreamInv(r2, c2)
  <2>1. ~r.overlap /\ r.sock = "open" =>
          OneWrite(r2.got, c2.inb, c2.sent, Len(c2.out), r2.tx, r2.wq, r2.wdone)
    BY <1>0, <1>1, WriteRead DEF Typed, Good, StreamInv
  <2>. QED
    BY <1>1, <1>2, <2>1 DEF Good, StreamInv
<1>4. LengthInv(r2, c2)
  <2>1. Balanced(r.got, c.inb, r.wq, r.wdone, c.sent, Len(c.out)) =>
          Balanced(SubSeq(c.inb, 1, n), SubSeq(c.inb, n + 1, Len(c.inb)),
                   r.wq, r.wdone, c.sent, Len(c.out))
    BY <1>0, <1>1, BalanceKept DEF Typed
  <2>. QED
    BY <2>1 DEF Good, LengthInv
<1>. QED
  BY <1>3, <1>4 DEF Good

\* A read fails, or is started: it has no bytes.
LEMMA ReadGood ==
  ASSUME NEW r, NEW c, Good(r, c), r.rd # "data",
         NEW r2, SesOK(r2), r2.got = r.got, r2.rd # "data", r2.sock = r.sock,
         r2.wq = r.wq, r2.wdone = r.wdone, r2.overlap = r.overlap, r2.tx = r.tx
  PROVE  Good(r2, c)
  BY DEF Good, StreamInv, LengthInv

\* The socket is closed.
LEMMA ClosedGood ==
  ASSUME NEW r, NEW c, Good(r, c),
         NEW r2, SesOK(r2), r2.sock = "closed", r2.rd = "data" <=> r2.got # << >>,
         r.overlap => r2.overlap
  PROVE  Good(r2, c)
  BY DEF Good, StreamInv, LengthInv

\* b is the first k bytes that w has to send, and v is what is left of w.
Cut(tx, w, b, v, k) ==
    \E off \in Nat, m \in Int :
        /\ off = w.off /\ m = Remaining(w) /\ k <= m
        /\ Len(b) = k /\ \A i \in 1..k : b[i] = tx[off + i]
        /\ v.off = off + k /\ Remaining(v) = m - k

\* The oldest write goes to the operations that completed, and b to the peer.
SentBack(r, c, b, v, r2, c2) ==
    /\ r2.sock = r.sock /\ r2.rd = r.rd /\ r2.got = r.got /\ r2.wq = Tail(r.wq)
    /\ r2.wdone = Append(r.wdone, v) /\ r2.overlap = r.overlap /\ r2.tx = r.tx
    /\ c2.sent = c.sent /\ c2.inb = c.inb /\ c2.out = c.out \o b

\* A send takes the first k bytes of the oldest write, or fails with none.
LEMMA SentBackGood ==
  ASSUME NEW r, NEW c, Good(r, c), r.wq # << >>,
         NEW k \in Nat, NEW b \in Seq(Byte \cup {Junk}), NEW v \in WriteOp,
         Cut(r.tx, Head(r.wq), b, v, k),
         NEW r2, SesOK(r2), NEW c2 \in ConnType, SentBack(r, c, b, v, r2, c2)
  PROVE  Good(r2, c2)
<1>a. PICK off \in Nat, m \in Int :
        /\ off = Head(r.wq).off /\ m = Remaining(Head(r.wq)) /\ k <= m
        /\ Len(b) = k /\ \A i \in 1..k : b[i] = r.tx[off + i]
        /\ v.off = off + k /\ Remaining(v) = m - k
  BY DEF Cut
<1>b. /\ r2.sock = r.sock /\ r2.rd = r.rd /\ r2.got = r.got /\ r2.wq = Tail(r.wq)
      /\ r2.wdone = Append(r.wdone, v) /\ r2.overlap = r.overlap /\ r2.tx = r.tx
      /\ c2.sent = c.sent /\ c2.inb = c.inb /\ c2.out = c.out \o b
  BY DEF SentBack
<1>0. Typed(r, c)
  BY Parts
<1>1. r.sock = "open"
  BY DEF Good, SesOK
<1>2. StreamInv(r2, c2)
  <2>1. ASSUME ~r.overlap
        PROVE  /\ Bytes(c.out \o b, 0) /\ Len(c.out \o b) <= c.sent
               /\ OneWrite(r.got, c.inb, c.sent, Len(c.out \o b), r.tx, Tail(r.wq),
                           Append(r.wdone, v))
    <3>1. /\ Bytes(c.out, 0)
          /\ OneWrite(r.got, c.inb, c.sent, Len(c.out), r.tx, r.wq, r.wdone)
      BY <1>1, <2>1 DEF Good, StreamInv
    <3>2. PICK out \in Seq(Byte \cup {Junk}) : out = c.out
      BY <1>0 DEF Typed
    <3>3. PICK inb \in Seq(Byte) : inb = c.inb
      BY <1>0 DEF Typed
    <3>4. PICK got \in Seq(Byte) : got = r.got
      BY <1>0 DEF Typed
    <3>5. PICK sent \in Nat : sent = c.sent
      BY <1>0 DEF Typed
    <3>6. PICK wq \in Seq(WriteOp) : wq = r.wq
      BY <1>0 DEF Typed
    <3>7. PICK wdone \in Seq(WriteOp) : wdone = r.wdone
      BY <1>0 DEF Typed
    <3>8. PICK tx : tx = r.tx
      OBVIOUS
    <3>9. /\ Bytes(out, 0) /\ OneWrite(got, inb, sent, Len(out), tx, wq, wdone)
          /\ wq # << >> /\ k <= Remaining(Head(wq)) /\ off = Head(wq).off
          /\ \A i \in 1..k : b[i] = tx[off + i]
          /\ Remaining(v) = Remaining(Head(wq)) - k
      BY <1>a, <3>1, <3>2, <3>3, <3>4, <3>5, <3>6, <3>7, <3>8
    <3>10. /\ Bytes(out \o b, 0) /\ Len(out \o b) <= sent
           /\ OneWrite(got, inb, sent, Len(out \o b), tx, Tail(wq), Append(wdone, v))
      BY <1>a, <3>9, WriteBack
    <3>. QED
      BY <3>2, <3>3, <3>4, <3>5, <3>6, <3>7, <3>8, <3>10
  <2>. QED
    BY <1>b, <1>1, <2>1 DEF Good, StreamInv
<1>3. LengthInv(r2, c2)
  <2>1. Len(c.out \o b) = Len(c.out) + k
    <3>1. PICK out \in Seq(Byte \cup {Junk}) : out = c.out
      BY <1>0 DEF Typed
    <3>2. Len(out \o b) = Len(out) + k
      BY <1>a, ConcatProperties
    <3>. QED
      BY <3>1, <3>2
  <2>2. /\ NoneOverrun(r.wq) /\ NoneOverrun(r.wdone)
        /\ Balanced(r.got, c.inb, r.wq, r.wdone, c.sent, Len(c.out))
    BY <1>1 DEF Good, LengthInv
  <2>3. Balanced(r.got, c.inb, Tail(r.wq), Append(r.wdone, v), c.sent, Len(c.out) + k)
    BY <1>0, <1>a, <2>2, BalanceMoved DEF Typed
  <2>4. Remaining(v) >= 0
    <3>1. m - k >= 0
      BY <1>a
    <3>. QED
      BY <1>a, <3>1
  <2>5. NoneOverrun(Tail(r.wq)) /\ NoneOverrun(Append(r.wdone, v))
    BY <1>0, <2>2, <2>4, FirstLeft, SentJoined DEF Typed
  <2>. QED
    BY <1>b, <2>1, <2>3, <2>5 DEF LengthInv
<1>. QED
  BY <1>2, <1>3 DEF Good

\* What on_data leaves behind, when its read is armed again
LEMMA DataParts ==
  ASSUME NEW r, SesOK(r), r.sock # "idle"
  PROVE  LET w == [off |-> 0, len |-> Len(r.got), ok |-> TRUE]
             d == OnReadData(r)
         IN  /\ SesOK(d) /\ d.sock = r.sock /\ d.rd # "data" /\ d.got = << >>
             /\ d.overlap <=> r.overlap \/ Unfinished(r)
             /\ \A i \in 1..Len(r.got) : d.tx[i] = r.got[i]
             /\ w \in WriteOp
             /\ r.sock = "open" => d.wq = Append(r.wq, w) /\ d.wdone = r.wdone
<1>. DEFINE got == r.got
            tx2 == [i \in 1..TxSize |-> IF i <= Len(got) THEN got[i] ELSE r.tx[i]]
            over == r.overlap \/ Unfinished(r)
            w   == [off |-> 0, len |-> Len(got), ok |-> TRUE]
            r1  == [r EXCEPT !.rd = "none", !.rx = << >>, !.got = << >>, !.tx = tx2,
                             !.overlap = over]
<1>1. r \in SessionType /\ r.rx = << >> /\ got \in Seq(Byte) /\ Len(got) <= RxSize
  BY DEF SesOK, SessionType
<1>2. Len(got) \in 0..TxSize
  BY <1>1, SizeAssumption
<1>3. w \in WriteOp
  <2>1. 0 \in 0..TxSize
    BY SizeAssumption
  <2>. QED
    BY <1>2, <2>1 DEF WriteOp
<1>4. OnReadData(r) = DoRead(IssueWrite(r1, w))
  <2>1. r.rx \o r.got = got
    BY <1>1, ConcatEmptySeq
  <2>2. [r EXCEPT !.rd = "none", !.rx = @ \o r.got, !.got = << >>]
          = [r EXCEPT !.rd = "none", !.rx = got, !.got = << >>]
    BY <2>1
  <2>. DEFINE s == [r EXCEPT !.rd = "none", !.rx = got, !.got = << >>]
  <2>3. /\ s.rx = got /\ s.tx = r.tx /\ s.overlap = r.overlap
        /\ s.wq = r.wq /\ s.wdone = r.wdone
    BY <1>1 DEF SessionType
  <2>4. Unfinished(s) <=> Unfinished(r)
    BY <2>3 DEF Unfinished
  <2>5. [s EXCEPT !.tx = tx2, !.rx = << >>, !.overlap = over] = r1
    BY <1>1 DEF SessionType
  <2>6. [i \in 1..TxSize |-> IF i <= Len(s.rx) THEN s.rx[i] ELSE s.tx[i]] = tx2
    BY <2>3
  <2>7. (s.overlap \/ Unfinished(s)) = over
    BY <2>3, <2>4, Zenon
  <2>8. Len(s.rx) = Len(got)
    BY <2>3
  <2>9. OnReadData(r) = DoRead(OnData(s))
    BY <2>2 DEF OnReadData
  <2>. HIDE DEF s, r1, tx2, over
  <2>10. OnData(s) = IssueWrite(r1, w)
    BY <2>5, <2>6, <2>7, <2>8, Zenon DEF OnData, DoWrite
  <2>. QED
    BY <2>9, <2>10
<1>5. /\ r1.sock = r.sock /\ r1.got = << >> /\ r1.wq = r.wq /\ r1.wdone = r.wdone
      /\ r1.tx = tx2 /\ r1.overlap = over
  BY <1>1 DEF SessionType
<1>6. \A i \in 1..Len(got) : tx2[i] = got[i]
  BY <1>2, SizeAssumption
<1>7. SesOK(OnReadData(r)) /\ OnReadData(r).sock = r.sock
  BY OnReadDataOK
<1>8. DOMAIN r1 = DOMAIN r
  OBVIOUS
<1>9. "rd" \in DOMAIN r /\ "wq" \in DOMAIN r /\ "wdone" \in DOMAIN r
  BY <1>1 DEF SessionType
<1>. HIDE DEF r1, tx2, over, w, got
<1>10. /\ OnReadData(r).rd # "data" /\ OnReadData(r).got = << >>
       /\ OnReadData(r).overlap = over /\ OnReadData(r).tx = tx2
       /\ r.sock = "open" =>
            OnReadData(r).wq = Append(r.wq, w) /\ OnReadData(r).wdone = r.wdone
  BY <1>4, <1>5, <1>8, <1>9 DEF DoRead, IssueWrite
<1>. QED
  BY <1>3, <1>6, <1>7, <1>10 DEF got, w, over

\* The handler of a read that has data
LEMMA DataGood ==
  ASSUME NEW r, NEW c, Good(r, c), r.sock # "idle", r.rd = "data"
  PROVE  Good(OnReadData(r), c)
<1>. DEFINE d == OnReadData(r)
            w == [off |-> 0, len |-> Len(r.got), ok |-> TRUE]
<1>0. Typed(r, c) /\ SesOK(r)
  BY Parts DEF Good
<1>1. /\ SesOK(d) /\ d.sock = r.sock /\ d.rd # "data" /\ d.got = << >>
      /\ d.overlap <=> r.overlap \/ Unfinished(r)
      /\ \A i \in 1..Len(r.got) : d.tx[i] = r.got[i]
      /\ w \in WriteOp
      /\ r.sock = "open" => d.wq = Append(r.wq, w) /\ d.wdone = r.wdone
  BY <1>0, DataParts
<1>2. Remaining(w) = Len(r.got) /\ w.off = 0 /\ Len(r.got) \in Nat
  <2>1. Len(r.got) \in Nat
    BY <1>0 DEF Typed
  <2>2. w.len = Len(r.got) /\ w.off = 0
    OBVIOUS
  <2>. DEFINE n == Len(r.got)
  <2>3. n \in Nat /\ w.len = n
    BY <2>1, <2>2
  <2>. HIDE DEF n
  <2>4. w.len - w.off = n
    BY <2>2, <2>3
  <2>. QED
    BY <2>1, <2>2, <2>4 DEF Remaining, n
<1>3. r.got # << >>
  BY DEF Good, StreamInv
<1>. HIDE DEF d, w
<1>4. ASSUME r.sock = "open", ~d.overlap
      PROVE  OneWrite(d.got, c.inb, c.sent, Len(c.out), d.tx, d.wq, d.wdone)
  <2>1. ~r.overlap /\ r.wq = << >>
        /\ \A i \in 1..Len(r.wdone) : ~(Remaining(r.wdone[i]) > 0)
    BY <1>0, <1>1, <1>4 DEF Unfinished, Typed
  <2>2. OneWrite(r.got, c.inb, c.sent, Len(c.out), r.tx, r.wq, r.wdone)
    BY <1>4, <2>1 DEF Good, StreamInv
  <2>3. OneWrite(<< >>, c.inb, c.sent, Len(c.out), d.tx, <<w>>, r.wdone)
    BY <1>0, <1>1, <1>2, <1>3, <2>1, <2>2, WriteLoaded DEF Typed
  <2>4. d.wq = <<w>> /\ d.wdone = r.wdone /\ d.got = << >>
    BY <1>1, <1>4, <2>1
  <2>. QED
    BY <2>3, <2>4
<1>5. StreamInv(d, c)
  BY <1>1, <1>4 DEF Good, StreamInv
<1>6. LengthInv(d, c)
  <2>. SUFFICES ASSUME r.sock = "open" PROVE LengthInv(d, c)
    BY <1>1 DEF LengthInv
  <2>1. /\ NoneOverrun(r.wq) /\ NoneOverrun(r.wdone)
        /\ Balanced(r.got, c.inb, r.wq, r.wdone, c.sent, Len(c.out))
    BY DEF Good, LengthInv
  <2>2. Balanced(<< >>, c.inb, Append(r.wq, w), r.wdone, c.sent, Len(c.out))
    BY <1>0, <1>1, <1>2, <2>1, BalanceKept DEF Typed
  <2>3. NoneOverrun(Append(r.wq, w))
    BY <1>0, <1>1, <1>2, <2>1, SentJoined DEF Typed
  <2>. QED
    BY <1>1, <2>1, <2>2, <2>3 DEF LengthInv
<1>. QED
  BY <1>0, <1>1, <1>5, <1>6 DEF Good, Typed, d

\* The handler of a read that failed
LEMMA ErrorGood ==
  ASSUME NEW r, NEW c, Good(r, c), r.rd = "failed"
  PROVE  Good(OnReadError(r), c)
<1>. DEFINE d == OnReadError(r)
<1>1. r \in SessionType /\ r.got = << >>
  BY DEF Good, SesOK, StreamInv
<1>2. d.overlap = r.overlap /\ d.got = r.got /\ d.rd = "none"
  BY <1>1 DEF OnReadError, Close, SessionType
<1>3. SesOK(d) /\ d.sock = "closed"
  BY OnReadErrorOK DEF Good
<1>. HIDE DEF d
<1>4. Good(d, c)
  BY <1>1, <1>2, <1>3, ClosedGood
<1>. QED
  BY <1>4 DEF d

\* The continuation of a write
LEMMA WrittenGood ==
  ASSUME NEW r, NEW c, Good(r, c), r.wdone # << >>, r.sock # "idle"
  PROVE  Good(OnWritten(r), c)
<1>. DEFINE d    == OnWritten(r)
            h    == Head(r.wdone)
            rest == [r EXCEPT !.wdone = Tail(@)]
<1>0. Typed(r, c) /\ SesOK(r)
  BY Parts DEF Good
<1>1. h \in WriteOp /\ Remaining(h) \in Int
  BY <1>0, HeadTailProperties, RemainingInt DEF Typed
<1>2. SesOK(d)
  BY <1>0, OnWrittenOK
<1>3. /\ rest.sock = r.sock /\ rest.got = r.got /\ rest.rd = r.rd /\ rest.wq = r.wq
      /\ rest.wdone = Tail(r.wdone) /\ rest.overlap = r.overlap /\ rest.tx = r.tx
      /\ rest.rx = r.rx
  BY <1>0 DEF Typed, SessionType
<1>4. d = IF ~h.ok THEN Close(rest)
          ELSE IF Remaining(h) > 0 THEN IssueWrite(rest, h)
          ELSE rest
  BY DEF OnWritten
<1>5. DOMAIN rest = DOMAIN r /\ r \in SessionType
  BY <1>0 DEF Typed
<1>. SUFFICES Good(d, c)
  OBVIOUS
<1>. HIDE DEF d, rest, h
<1>6. DOMAIN rest = {"sock", "rx", "tx", "rd", "got", "wq", "wdone", "overlap"}
  BY <1>5 DEF SessionType
<1>7. d.got = r.got /\ d.overlap = r.overlap /\ d.tx = r.tx /\ (d.rd = "data" <=> r.rd = "data")
      /\ (d.sock = r.sock \/ d.sock = "closed")
  BY <1>3, <1>4, <1>6 DEF Close, IssueWrite
<1>8. CASE d.sock # "open"
  <2>1. d.sock = "closed"
    BY <1>0, <1>7, <1>8 DEF SesOK, SessionType
  <2>. QED
    BY <1>2, <1>7, <2>1, ClosedGood DEF Good, StreamInv
<1>9. CASE d.sock = "open"
  <2>1. r.sock = "open"
    BY <1>7, <1>9
  <2>2. \/ Remaining(h) > 0 /\ d.wq = Append(r.wq, h) /\ d.wdone = Tail(r.wdone)
        \/ ~(Remaining(h) > 0) /\ d.wq = r.wq /\ d.wdone = Tail(r.wdone)
    BY <1>3, <1>4, <1>6, <1>9, <2>1 DEF Close, IssueWrite
  <2>3. /\ NoneOverrun(r.wq) /\ NoneOverrun(r.wdone)
        /\ Balanced(r.got, c.inb, r.wq, r.wdone, c.sent, Len(c.out))
    BY <2>1 DEF Good, LengthInv
  <2>4. Remaining(h) >= 0 /\ NoneOverrun(Tail(r.wdone)) /\ NoneOverrun(Append(r.wq, h))
    BY <1>0, <1>1, <2>3, FirstLeft, SentJoined DEF Typed, h
  <2>5. \/ Remaining(h) # 0 /\ d.wq = Append(r.wq, h)
        \/ Remaining(h) = 0 /\ d.wq = r.wq
    BY <1>1, <2>2, <2>4
  <2>6. d.wdone = Tail(r.wdone)
    BY <2>2
  <2>7. LengthInv(d, c)
    <3>1. /\ Balanced(r.got, c.inb, Append(r.wq, h), Tail(r.wdone), c.sent, Len(c.out))
          /\ Remaining(h) = 0 =>
               Balanced(r.got, c.inb, r.wq, Tail(r.wdone), c.sent, Len(c.out))
      BY <1>0, <2>3, BalanceMoved DEF Typed, h
    <3>. QED
      BY <1>7, <2>3, <2>4, <2>5, <2>6, <3>1 DEF LengthInv
  <2>8. ASSUME ~r.overlap
        PROVE  OneWrite(d.got, c.inb, c.sent, Len(c.out), d.tx, d.wq, d.wdone)
    <3>1. OneWrite(r.got, c.inb, c.sent, Len(c.out), r.tx, r.wq, r.wdone)
      BY <2>1, <2>8 DEF Good, StreamInv
    <3>2. /\ Remaining(h) = 0 => OneWrite(r.got, c.inb, c.sent, Len(c.out), r.tx, r.wq,
                                          Tail(r.wdone))
          /\ Remaining(h) # 0 => OneWrite(r.got, c.inb, c.sent, Len(c.out), r.tx,
                                          Append(r.wq, h), Tail(r.wdone))
      BY <1>0, <3>1, WriteContinued DEF Typed, h
    <3>. QED
      BY <1>7, <2>5, <2>6, <3>2
  <2>9. StreamInv(d, c)
    BY <1>7, <2>1, <2>8, <1>9 DEF Good, StreamInv
  <2>. QED
    BY <1>2, <2>7, <2>9 DEF Good
<1>. QED
  BY <1>8, <1>9

(* The steps of the server and of its environment.                         *)

\* Every session, with its connection, is as it should be.
AllGood == \A s \in Slots : Good(ses[s], conn[s])

\* A session that has no connection yet
LEMMA FreshGood ==
  ASSUME NEW r, SesOK(r), Quiet(r), r.sock # "open", r.got = << >>, ~r.overlap,
         NEW c \in ConnType, c.out = << >>
  PROVE  Good(r, c)
<1>1. Bytes(c.out, 0) /\ Len(c.out) = 0 /\ c.sent \in Nat
  BY BoundAssumption DEF Bytes, ConnType
<1>. QED
  BY <1>1 DEF Good, StreamInv, LengthInv, Quiet

\* A session that was just constructed, in a slot whose connection has sent nothing back
LEMMA NewGood == \A c \in ConnType : c.out = << >> => Good(NewSession, c)
<1>1. ~NewSession.overlap /\ NewSession.got = << >> /\ NewSession.sock # "open"
  BY DEF NewSession
<1>. HIDE DEF NewSession
<1>. QED
  BY <1>1, NewSessionOK, FreshGood

\* A session that waits gets its connection.
LEMMA OpenedGood ==
  ASSUME NEW r, NEW c, Good(r, c), Quiet(r), r.sock = "idle",
         NEW r2, SesOK(r2), r2.sock = "open", r2.rd = r.rd, r2.got = r.got,
         r2.wq = r.wq, r2.wdone = r.wdone, r2.overlap = r.overlap,
         NEW c2 \in ConnType, c2.sent = 0, c2.inb = << >>, c2.out = << >>
  PROVE  Good(r2, c2)
<1>1. /\ r2.got = << >> /\ r2.wq = << >> /\ r2.wdone = << >> /\ ~r2.overlap
      /\ r2.rd # "data"
  BY DEF Good, StreamInv, Quiet
<1>2. InOrder(<< >>, << >>, 0, 0, 0) /\ Balanced(<< >>, << >>, << >>, << >>, 0, 0)
  BY NothingRemains DEF InOrder, Balanced, Bytes
<1>3. AllSent(<< >>) /\ NoneOverrun(<< >>) /\ Len(<< >>) = 0 /\ Bytes(<< >>, 0)
  BY DEF AllSent, NoneOverrun, Bytes
<1>4. OneWrite(<< >>, << >>, 0, 0, r2.tx, << >>, << >>)
  BY <1>2, <1>3 DEF OneWrite
<1>. QED
  BY <1>1, <1>2, <1>3, <1>4 DEF Good, StreamInv, LengthInv

\* A step that changes one session and its connection
LEMMA GoodUpdate ==
  ASSUME IInv, IInv', AllGood, NEW s \in Slots,
         \A t \in Slots : t # s => ses'[t] = ses[t] /\ conn'[t] = conn[t],
         Good(ses'[s], conn'[s])
  PROVE  AllGood'
  BY DEF AllGood

\* The steps of a peer
LEMMA PeerGood ==
  ASSUME IInv, IInv', AllGood, NEW s \in Slots,
         PeerSend(s) \/ PeerFinish(s) \/ PeerReset(s)
  PROVE  AllGood'
<1>1. /\ Good(ses[s], conn[s]) /\ ses' = ses /\ conn'[s] \in ConnType
      /\ conn[s] \in ConnType
      /\ conn \in [Slots -> ConnType]
  BY DEF IInv, Types, AllGood, PeerSend, PeerFinish, PeerReset
<1>2. \A t \in Slots : t # s => ses'[t] = ses[t] /\ conn'[t] = conn[t]
  BY <1>1 DEF PeerSend, PeerFinish, PeerReset
<1>3. Good(ses'[s], conn'[s])
  <2>1. CASE PeerSend(s)
    <3>1. /\ conn'[s].sent = conn[s].sent + 1 /\ conn'[s].out = conn[s].out
          /\ conn'[s].inb = Append(conn[s].inb, conn[s].sent + 1)
      BY <1>1, <2>1 DEF PeerSend, ConnType
    <3>. QED
      BY <1>1, <3>1, SentGood
  <2>2. CASE PeerFinish(s) \/ PeerReset(s)
    <3>1. /\ conn'[s].sent = conn[s].sent /\ conn'[s].out = conn[s].out
          /\ conn'[s].inb = conn[s].inb
      BY <1>1, <2>2 DEF PeerFinish, PeerReset, ConnType
    <3>. QED
      BY <1>1, <3>1, LeftGood
  <2>. QED
    BY <2>1, <2>2
<1>. QED
  BY <1>2, <1>3, GoodUpdate

\* A connection is accepted into the socket of its session.
LEMMA AcceptReadyGood == IInv /\ IInv' /\ AllGood /\ AcceptReady => AllGood'
<1>. SUFFICES ASSUME IInv, IInv', AllGood, AcceptReady PROVE AllGood'
  OBVIOUS
<1>. DEFINE a == acc.slot
<1>1. a \in Slots /\ Quiet(ses[a]) /\ ses[a].sock = "idle"
  BY AccCases DEF AcceptReady, Stopped, IInv, SlotInv
<1>2. ses \in [Slots -> SessionType] /\ conn \in [Slots -> ConnType]
      /\ SesOK(ses'[a]) /\ conn'[a] \in ConnType
  BY <1>1 DEF IInv, SlotInv, Types
<1>3. /\ ses' = [ses EXCEPT ![a].sock = "open"]
      /\ conn' = [conn EXCEPT ![a] = [NoConn EXCEPT !.peer = "up"]]
  BY DEF AcceptReady
<1>4. \A t \in Slots : t # a => ses'[t] = ses[t] /\ conn'[t] = conn[t]
  BY <1>2, <1>3
<1>5. /\ ses'[a].sock = "open" /\ ses'[a].rd = ses[a].rd /\ ses'[a].got = ses[a].got
      /\ ses'[a].wq = ses[a].wq /\ ses'[a].wdone = ses[a].wdone
      /\ ses'[a].overlap = ses[a].overlap
      /\ conn'[a].sent = 0 /\ conn'[a].inb = << >> /\ conn'[a].out = << >>
  BY <1>1, <1>2, <1>3 DEF SessionType, NoConn
<1>6. Good(ses[a], conn[a])
  BY <1>1 DEF AllGood
<1>7. Good(ses'[a], conn'[a])
  BY <1>1, <1>2, <1>5, <1>6, OpenedGood
<1>. QED
  BY <1>1, <1>4, <1>7, GoodUpdate

\* do_accept constructs a session in a free slot.
LEMMA DoAcceptGood ==
  ASSUME NEW busy, NEW f \in [Slots -> SessionType], DoAccept(busy, f), conn' = conn,
         \A s \in Slots : Good(f[s], conn[s]),
         \A s \in Slots \ busy : f[s].sock = "idle"
  PROVE  AllGood'
<1>1. CASE ses' = f
  BY <1>1 DEF AllGood
<1>2. ASSUME NEW s \in Slots, s \notin busy, ses' = [f EXCEPT ![s] = NewSession]
      PROVE  AllGood'
  <2>1. conn[s] \in ConnType /\ conn[s].out = << >>
    BY <1>2 DEF Good, StreamInv
  <2>2. Good(NewSession, conn[s])
    BY <2>1, NewGood
  <2>3. ses'[s] = NewSession /\ \A t \in Slots : t # s => ses'[t] = f[t]
    BY <1>2
  <2>. QED
    BY <2>2, <2>3 DEF AllGood
<1>. QED
  BY <1>1, <1>2 DEF DoAccept, FirstFree

\* The two handlers of async_accept
LEMMA AcceptedGood == IInv /\ AllGood /\ (OnAccepted \/ OnAcceptFailed) => AllGood'
<1>. SUFFICES ASSUME IInv, AllGood, OnAccepted \/ OnAcceptFailed PROVE AllGood'
  OBVIOUS
<1>. DEFINE a == acc.slot
<1>1. a \in Slots /\ Quiet(ses[a]) /\ SesOK(ses[a]) /\ Good(ses[a], conn[a])
      /\ a \in sessions /\ acc # Stopped
  BY AccCases DEF OnAccepted, OnAcceptFailed, Stopped, IInv, SlotInv, AllGood
<1>2. ses \in [Slots -> SessionType]
  BY DEF IInv, Types
<1>3. conn' = conn
  BY DEF OnAccepted, OnAcceptFailed
<1>4. CASE OnAccepted
  <2>. DEFINE r == DoRead(ses[a])
              f == [ses EXCEPT ![a] = r]
  <2>1. /\ r.got = ses[a].got /\ r.rd # "data" /\ r.sock = ses[a].sock
        /\ r.wq = ses[a].wq /\ r.wdone = ses[a].wdone /\ r.overlap = ses[a].overlap
        /\ r.tx = ses[a].tx
    BY <1>1 DEF DoRead, SesOK, SessionType
  <2>2. SesOK(r)
    BY <1>1, DoReadOK
  <2>3. DoAccept(sessions, f)
    BY <1>4 DEF OnAccepted
  <2>. HIDE DEF r
  <2>4. Good(r, conn[a])
    BY <1>1, <2>1, <2>2, ReadGood DEF Quiet
  <2>5. r \in SessionType
    BY <2>2 DEF SesOK
  <2>6. f \in [Slots -> SessionType] /\ f[a] = r /\ \A t \in Slots : t # a => f[t] = ses[t]
    BY <1>1, <1>2, <2>5
  <2>7. \A t \in Slots \ sessions : t # a /\ ses[t].sock = "idle"
    BY <1>1 DEF IInv, SlotInv
  <2>. HIDE DEF f
  <2>8. \A t \in Slots : Good(f[t], conn[t])
    BY <2>4, <2>6 DEF AllGood
  <2>9. \A t \in Slots \ sessions : f[t].sock = "idle"
    BY <2>6, <2>7
  <2>. QED
    BY <1>3, <2>3, <2>6, <2>8, <2>9, DoAcceptGood
<1>5. CASE OnAcceptFailed
  <2>1. DoAccept(sessions \ {a}, ses) /\ acc.st = "err"
    BY <1>5 DEF OnAcceptFailed
  <2>2. \A t \in Slots \ (sessions \ {a}) : ses[t].sock = "idle"
    BY <1>1, <2>1 DEF IInv, SlotInv
  <2>3. \A t \in Slots : Good(ses[t], conn[t])
    BY DEF AllGood
  <2>. QED
    BY <1>2, <1>3, <2>1, <2>2, <2>3, DoAcceptGood
<1>. QED
  BY <1>4, <1>5

\* The reads of the reactor
LEMMA ReadStepGood ==
  ASSUME IInv, IInv', AllGood, NEW s \in Slots, ReadReady(s) \/ ReadFails(s)
  PROVE  AllGood'
<1>. DEFINE r == ses[s]
            c == conn[s]
<1>1. /\ ses \in [Slots -> SessionType] /\ conn \in [Slots -> ConnType]
      /\ r \in SessionType /\ c \in ConnType /\ SesOK(r)
      /\ SesOK(ses'[s]) /\ conn'[s] \in ConnType
  BY DEF IInv, Types, SlotInv
<1>2. Good(r, c) /\ r.rd = "armed"
  BY DEF AllGood, ReadReady, ReadFails
<1>3. \A t \in Slots : t # s => ses'[t] = ses[t] /\ conn'[t] = conn[t]
  BY <1>1 DEF ReadReady, ReadFails
<1>4. CASE ReadFails(s)
  <2>1. conn'[s] = c /\ ses'[s] = [r EXCEPT !.rd = "failed"]
    BY <1>1, <1>4 DEF ReadFails
  <2>2. /\ ses'[s].got = r.got /\ ses'[s].rd # "data" /\ ses'[s].sock = r.sock
        /\ ses'[s].wq = r.wq /\ ses'[s].wdone = r.wdone
        /\ ses'[s].overlap = r.overlap /\ ses'[s].tx = r.tx
    BY <1>1, <2>1 DEF SessionType
  <2>3. Good(ses'[s], conn'[s])
    BY <1>1, <1>2, <2>1, <2>2, ReadGood
  <2>. QED
    BY <1>3, <2>3, GoodUpdate
<1>5. CASE ReadReady(s)
  <2>. DEFINE room == RxSize - Len(r.rx)
              n    == IF room < Len(c.inb) THEN room ELSE Len(c.inb)
              got  == SubSeq(c.inb, 1, n)
              rest == SubSeq(c.inb, n + 1, Len(c.inb))
  <2>1. n \in 1..Len(c.inb)
    <3>1. PICK inb \in Seq(Byte) : inb = c.inb
      BY <1>1 DEF ConnType
    <3>2. inb # << >> /\ Len(inb) \in Nat /\ Len(inb) # 0
      BY <1>5, <3>1 DEF ReadReady
    <3>3. room = RxSize /\ RxSize \in Nat /\ RxSize # 0
      BY <1>1, SizeAssumption DEF SesOK
    <3>4. n = IF RxSize < Len(inb) THEN RxSize ELSE Len(inb)
      BY <3>1, <3>3
    <3>5. n \in 1..Len(inb)
      BY <3>2, <3>3, <3>4
    <3>. QED
      BY <3>1, <3>5
  <2>2. ses'[s] = [r EXCEPT !.rd = "data", !.got = got]
        /\ conn'[s] = [c EXCEPT !.inb = rest]
    BY <1>1, <1>5 DEF ReadReady
  <2>3. /\ ses'[s].sock = r.sock /\ ses'[s].rd = "data" /\ ses'[s].got = got
        /\ ses'[s].wq = r.wq /\ ses'[s].wdone = r.wdone
        /\ ses'[s].overlap = r.overlap /\ ses'[s].tx = r.tx
        /\ conn'[s].sent = c.sent /\ conn'[s].inb = rest /\ conn'[s].out = c.out
    BY <1>1, <2>2 DEF SessionType, ConnType
  <2>. HIDE DEF n
  <2>4. Good(ses'[s], conn'[s])
    BY <1>1, <1>2, <2>1, <2>3, ReceivedGood
  <2>. QED
    BY <1>3, <2>4, GoodUpdate
<1>. QED
  BY <1>4, <1>5

\* The sends of the reactor
LEMMA SendStepGood ==
  ASSUME IInv, IInv', AllGood, NEW s \in Slots, SendSome(s) \/ SendFails(s)
  PROVE  AllGood'
<1>. DEFINE r == ses[s]
            c == conn[s]
            w == Head(r.wq)
<1>1. /\ ses \in [Slots -> SessionType] /\ conn \in [Slots -> ConnType]
      /\ r \in SessionType /\ c \in ConnType
      /\ SesOK(ses'[s]) /\ conn'[s] \in ConnType
  BY DEF IInv, Types, SlotInv
<1>2. Good(r, c) /\ r.wq # << >>
  BY DEF AllGood, SendSome, SendFails
<1>3. \A t \in Slots : t # s => ses'[t] = ses[t] /\ conn'[t] = conn[t]
  BY <1>1 DEF SendSome, SendFails
<1>4. w \in WriteOp /\ r.wq \in Seq(WriteOp)
  BY <1>1, <1>2, HeadTailProperties DEF SessionType
<1>5. PICK off \in Nat : off = w.off
  BY <1>4, SizeAssumption DEF WriteOp
<1>6. PICK len \in Nat : len = w.len
  BY <1>4, SizeAssumption DEF WriteOp
<1>7. Remaining(w) = len - off
  BY <1>5, <1>6 DEF Remaining
<1>8. ASSUME NEW k \in Nat, k <= len - off, NEW b \in Seq(Byte \cup {Junk}), Len(b) = k,
             \A i \in 1..k : b[i] = r.tx[off + i],
             NEW v \in WriteOp, v.off = off + k, v.len = len,
             ses'[s] = [r EXCEPT !.wq = Tail(@), !.wdone = Append(@, v)],
             conn'[s] = [c EXCEPT !.out = @ \o b]
      PROVE  AllGood'
  <2>1. PICK m \in Int : m = len - off
    OBVIOUS
  <2>2. /\ ses'[s].sock = r.sock /\ ses'[s].rd = r.rd /\ ses'[s].got = r.got
        /\ ses'[s].wq = Tail(r.wq) /\ ses'[s].wdone = Append(r.wdone, v)
        /\ ses'[s].overlap = r.overlap /\ ses'[s].tx = r.tx
        /\ conn'[s].sent = c.sent /\ conn'[s].inb = c.inb /\ conn'[s].out = c.out \o b
    BY <1>1, <1>8 DEF SessionType, ConnType
  <2>3. m = Remaining(w) /\ k <= m /\ Remaining(v) = m - k
    <3>1. len - (off + k) = m - k
      BY <2>1
    <3>. QED
      BY <1>7, <1>8, <2>1, <3>1 DEF Remaining
  <2>4. Good(ses'[s], conn'[s])
    <3>1. Cut(r.tx, Head(r.wq), b, v, k)
      BY <1>5, <1>8, <2>3 DEF Cut
    <3>2. SentBack(r, c, b, v, ses'[s], conn'[s])
      BY <2>2 DEF SentBack
    <3>. QED
      BY <1>1, <1>2, <1>8, <3>1, <3>2, SentBackGood
  <2>. QED
    BY <1>3, <2>4, GoodUpdate
<1>9. CASE SendSome(s)
  <2>1. PICK k \in 1..Remaining(w) :
          /\ conn' = [conn EXCEPT ![s].out = @ \o [i \in 1..k |-> r.tx[w.off + i]]]
          /\ ses' = [ses EXCEPT ![s].wq = Tail(@),
                                ![s].wdone = Append(@, [w EXCEPT !.off = @ + k])]
    BY <1>9 DEF SendSome
  <2>. DEFINE b == [i \in 1..k |-> r.tx[off + i]]
              v == [w EXCEPT !.off = off + k]
  <2>2. k \in Nat /\ k <= len - off /\ off + k \in 0..TxSize
    <3>1. k \in 1..(len - off)
      BY <1>7, <2>1
    <3>2. len \in 0..TxSize
      BY <1>4, <1>6 DEF WriteOp
    <3>. QED
      BY <3>1, <3>2, SizeAssumption
  <2>3. b \in Seq(Byte \cup {Junk}) /\ Len(b) = k /\ \A i \in 1..k : b[i] = r.tx[off + i]
    <3>1. \A i \in 1..k : off + i \in 1..TxSize
      BY <2>2, SizeAssumption
    <3>2. \A i \in 1..k : r.tx[off + i] \in Byte \cup {Junk}
      BY <1>1, <3>1 DEF SessionType
    <3>. QED
      BY <2>2, <3>2
  <2>4. v \in WriteOp /\ v.off = off + k /\ v.len = len
    BY <1>4, <1>6, <2>2 DEF WriteOp
  <2>5. ses'[s] = [r EXCEPT !.wq = Tail(@), !.wdone = Append(@, v)]
        /\ conn'[s] = [c EXCEPT !.out = @ \o b]
    BY <1>1, <1>4, <1>5, <2>1 DEF WriteOp
  <2>. HIDE DEF b, v
  <2>. QED
    BY <1>8, <2>2, <2>3, <2>4, <2>5
<1>10. CASE SendFails(s)
  <2>. DEFINE v == Failed(w)
  <2>1. v \in WriteOp /\ v.off = w.off /\ v.len = w.len
    BY <1>4, FailedOK DEF Failed, WriteOp
  <2>2. ses'[s] = [r EXCEPT !.wq = Tail(@), !.wdone = Append(@, v)] /\ conn'[s] = c
    BY <1>1, <1>10 DEF SendFails
  <2>. HIDE DEF v
  <2>3. PICK k \in Nat : k = 0
    OBVIOUS
  <2>4. k <= len - off /\ v.off = off + k
    <3>1. 0 <= len - off
      <4>1. Remaining(w) >= 0
        <5>1. NoneOverrun(r.wq)
          BY <1>2 DEF Good, LengthInv, SesOK
        <5>. QED
          BY <1>2, <1>4, <5>1, FirstLeft
      <4>. QED
        BY <1>7, <4>1
    <3>. QED
      BY <1>5, <2>1, <2>3, <3>1
  <2>5. PICK b \in Seq(Byte \cup {Junk}) : b = << >>
    <3>1. << >> \in Seq(Byte \cup {Junk})
      OBVIOUS
    <3>. QED
      BY <3>1
  <2>6. Len(b) = k /\ \A i \in 1..k : b[i] = r.tx[off + i]
    BY <2>3, <2>5
  <2>7. conn'[s] = [c EXCEPT !.out = @ \o b]
    <3>1. c.out \o b = c.out
      BY <1>1, <2>5, ConcatEmptySeq DEF ConnType
    <3>2. [c EXCEPT !.out = c.out] = c
      BY <1>1 DEF ConnType
    <3>. QED
      BY <2>2, <3>1, <3>2
  <2>. QED
    BY <1>6, <1>8, <2>1, <2>2, <2>4, <2>6, <2>7
<1>. QED
  BY <1>9, <1>10

\* The handlers
LEMMA HandlerGood ==
  ASSUME IInv, IInv', AllGood, NEW s \in Slots, ReadHandler(s) \/ WriteHandler(s)
  PROVE  AllGood'
<1>1. ~Quiet(ses[s]) /\ conn' = conn /\ Good(ses[s], conn[s])
  BY DEF ReadHandler, WriteHandler, Quiet, AllGood
<1>2. ses[s].sock # "idle" /\ ses \in [Slots -> SessionType]
  BY <1>1, BusyIsStarted DEF IInv, Types
<1>3. ASSUME NEW d, ses' = [ses EXCEPT ![s] = d], Good(d, conn[s]) PROVE AllGood'
  <2>1. ses'[s] = d /\ \A t \in Slots : t # s => ses'[t] = ses[t]
    BY <1>2, <1>3
  <2>. QED
    BY <1>1, <1>3, <2>1, GoodUpdate
<1>4. CASE ReadHandler(s)
  <2>1. CASE ses[s].rd = "data" /\ ses' = [ses EXCEPT ![s] = OnReadData(@)]
    BY <1>1, <1>2, <1>3, <2>1, DataGood
  <2>2. CASE ses[s].rd = "failed" /\ ses' = [ses EXCEPT ![s] = OnReadError(@)]
    BY <1>1, <1>2, <1>3, <2>2, ErrorGood
  <2>. QED
    BY <1>4, <2>1, <2>2 DEF ReadHandler
<1>5. CASE WriteHandler(s)
  BY <1>1, <1>2, <1>3, <1>5, WrittenGood DEF WriteHandler
<1>. QED
  BY <1>4, <1>5

\* What happens to the bytes of every stream, always.
THEOREM Streams == Spec => []AllGood
<1>1. Init => AllGood
  <2>. SUFFICES ASSUME Init PROVE AllGood
    OBVIOUS
  <2>1. NoConn \in ConnType /\ NoConn.out = << >>
    BY BoundAssumption DEF NoConn, ConnType
  <2>2. \A s \in Slots : ses[s] = NewSession /\ conn[s] = NoConn
    BY DEF Init
  <2>. QED
    BY <2>1, <2>2, NewGood DEF AllGood
<1>2. IInv /\ IInv' /\ AllGood /\ [Next]_vars => AllGood'
  <2>. SUFFICES ASSUME IInv, IInv', AllGood, [Next]_vars PROVE AllGood'
    OBVIOUS
  <2>1. CASE UNCHANGED vars \/ Connect \/ AcceptError \/ RunReturns
    <3>1. ses' = ses /\ conn' = conn
      BY <2>1 DEF vars, Connect, AcceptError, RunReturns
    <3>. QED
      BY <3>1 DEF AllGood
  <2>2. CASE \E s \in Slots : PeerSend(s) \/ PeerFinish(s) \/ PeerReset(s)
    BY <2>2, PeerGood
  <2>3. CASE AcceptReady
    BY <2>3, AcceptReadyGood
  <2>4. CASE OnAccepted \/ OnAcceptFailed
    BY <2>4, AcceptedGood
  <2>5. CASE \E s \in Slots : ReadReady(s) \/ ReadFails(s)
    BY <2>5, ReadStepGood
  <2>6. CASE \E s \in Slots : SendSome(s) \/ SendFails(s)
    BY <2>6, SendStepGood
  <2>7. CASE \E s \in Slots : ReadHandler(s) \/ WriteHandler(s)
    BY <2>7, HandlerGood
  <2>. QED
    BY <2>1, <2>2, <2>3, <2>4, <2>5, <2>6, <2>7 DEF Next
<1>. QED
  BY <1>1, <1>2, Invariance, PTL DEF Spec

\* The echo is exact until on_data overwrites a write in progress.
THEOREM ExactUnlessOverlapped == Spec => []EchoUnlessOverlapped
<1>1. IInv /\ AllGood => EchoUnlessOverlapped
  <2>. SUFFICES ASSUME IInv, AllGood, NEW s \in Slots, ~ses[s].overlap
                PROVE  IsPrefix(conn[s].out, Stream(s))
    BY DEF EchoUnlessOverlapped
  <2>1. conn[s] \in ConnType
    BY DEF IInv, Types
  <2>2. PICK out \in Seq(Byte \cup {Junk}) : out = conn[s].out
    BY <2>1 DEF ConnType
  <2>3. PICK sent \in Nat : sent = conn[s].sent
    BY <2>1, BoundAssumption DEF ConnType
  <2>. DEFINE all == [i \in 1..sent |-> i]
  <2>4. Bytes(out, 0) /\ Len(out) <= sent /\ Len(out) \in Nat
    BY <2>2, <2>3 DEF AllGood, Good, StreamInv
  <2>5. /\ all \in Seq(Nat) /\ Len(all) = sent
        /\ \A i \in 1..sent : all[i] = i
    OBVIOUS
  <2>. HIDE DEF all
  <2>6. SubSeq(out, 1, Len(out)) = SubSeq(all, 1, Len(out))
    <3>1. ASSUME NEW i \in 1..Len(out) PROVE out[i] = i
      <4>1. 0 + i = i
        OBVIOUS
      <4>. QED
        BY <2>4, <4>1 DEF Bytes
    <3>2. /\ SubSeq(out, 1, Len(out)) \in Seq(Byte \cup {Junk})
          /\ Len(SubSeq(out, 1, Len(out))) = Len(out)
          /\ \A i \in 1..Len(out) : SubSeq(out, 1, Len(out))[i] = out[i]
      BY <2>4
    <3>3. /\ SubSeq(all, 1, Len(out)) \in Seq(Nat)
          /\ Len(SubSeq(all, 1, Len(out))) = Len(out)
          /\ \A i \in 1..Len(out) : SubSeq(all, 1, Len(out))[i] = all[i]
      BY <2>4, <2>5
    <3>4. \A i \in 1..Len(out) : SubSeq(out, 1, Len(out))[i] = SubSeq(all, 1, Len(out))[i]
      BY <2>4, <2>5, <3>1, <3>2, <3>3
    <3>. QED
      BY <3>2, <3>3, <3>4, SeqEqual
  <2>. QED
    BY <2>2, <2>3, <2>4, <2>5, <2>6 DEF IsPrefix, Stream, all
<1>. QED
  BY <1>1, Invariance, Streams, PTL

\* Whatever is overwritten, no byte is lost and none is added while the socket is open.
THEOREM LengthConserved == Spec => []EchoLengthConserved
<1>1. IInv /\ AllGood => EchoLengthConserved
  <2>. SUFFICES ASSUME IInv, AllGood, NEW s \in Slots, ses[s].sock = "open"
                PROVE  conn[s].sent = Len(conn[s].inb) + Len(ses[s].got) + Len(ses[s].rx)
                         + RemainingOf(ses[s].wq) + RemainingOf(ses[s].wdone)
                         + Len(conn[s].out)
    BY DEF EchoLengthConserved
  <2>1. SesOK(ses[s]) /\ conn[s] \in ConnType
    BY DEF IInv, SlotInv, Types
  <2>2. Balanced(ses[s].got, conn[s].inb, ses[s].wq, ses[s].wdone, conn[s].sent,
                 Len(conn[s].out))
    BY DEF AllGood, Good, LengthInv
  <2>3. Len(ses[s].rx) = 0
    BY <2>1 DEF SesOK
  <2>4. Len(conn[s].inb) + Len(ses[s].got) + 0 = Len(conn[s].inb) + Len(ses[s].got)
    <3>1. PICK inb \in Seq(Byte) : inb = conn[s].inb
      BY <2>1 DEF ConnType
    <3>2. PICK got \in Seq(Byte) : got = ses[s].got
      BY <2>1 DEF SesOK, SessionType
    <3>3. Len(inb) + Len(got) + 0 = Len(inb) + Len(got)
      OBVIOUS
    <3>. QED
      BY <3>1, <3>2, <3>3
  <2>. QED
    BY <2>2, <2>3, <2>4 DEF Balanced
<1>. QED
  BY <1>1, Invariance, Streams, PTL

====
