---- MODULE ServersProofs ----
(***************************************************************************)
(* Safety of the servers of Servers for every set of clients and every     *)
(* number of messages.  One argument serves all the tables of TCP servers: *)
(* WellFormed says what they have in common, Conn follows the data of one  *)
(* connection through the session of such a server, QueueInv says that a   *)
(* connection is accepted once, Life why a server has ended.  UdpInv is    *)
(* about the one buffer and the one endpoint of ServerAsync.               *)
(***************************************************************************)
EXTENDS Servers, SequenceTheorems, TLAPS

TcpServers == DOMAIN Server
OpNames    == {"handshake", "read", "write", "endpoint", "shutdown", "leave"}
Daytimes   == {"Daytime", "DaytimeEndpoint"}

\* What the steps of the servers have in common: there is one write at the most, a
\* read comes right before it unless the server is one of the daytime servers, and a
\* server that echoes ends its steps with it and begins again elsewhere.
WellFormed(p, t) ==
    /\ Len(t.steps) \in Nat \ {0}
    /\ \A i \in 1..Len(t.steps) :
          /\ t.steps[i].op \in OpNames
          /\ t.steps[i].op = "write" =>
                \A j \in 1..Len(t.steps) : t.steps[j].op = "write" => j = i
          /\ t.steps[i].op = "read" => i < Len(t.steps) /\ t.steps[i + 1].op = "write"
          /\ t.steps[i].op \notin {"read", "write"} /\ i < Len(t.steps)
                /\ t.steps[i + 1].op = "write" => p \in Daytimes
    /\ t.steps[1].op = "write" => p \in Daytimes
    /\ t.echo \in BOOLEAN
    /\ t.echo =>
          /\ t.again \in 1..Len(t.steps)
          /\ t.steps[t.again].op # "write"
          /\ t.steps[Len(t.steps)].op = "write"
          /\ \A i \in 1..Len(t.steps) : t.steps[i].op \in {"handshake", "read", "write"}
          /\ \A i \in 1..Len(t.steps) : t.steps[i].op = "handshake" =>
                i < Len(t.steps) /\ t.steps[i + 1].op # "write"
    /\ ~t.echo => t.again = 0

Msg == Clients \X Nat

ConnType ==
    [peer : {"none", "up", "garbled", "fin", "closed", "reset"}, hello : BOOLEAN,
     sent : 0..MaxMsgs, inb : Seq(Msg), out : Seq(Msg)]

TypeInv ==
    /\ prog \in TcpServers \cup {"UdpEcho"}
    /\ up \in {"up", "ended", "terminated"}
    /\ listening \in BOOLEAN /\ failed \in BOOLEAN /\ stopping \in BOOLEAN
    /\ late \in {0, 1}
    /\ queue \in Seq(Clients)
    /\ at \in [Clients -> Int]
    /\ buf \in [Clients -> Seq(Msg)]
    /\ conn \in [Clients -> ConnType]

(* One connection of a TCP server p: the session is at a and holds d.      *)

\* The first s messages of client c
Stream(c, s) == [n \in 1..s |-> <<c, n>>]

Writes(p, a) == a > 0 /\ Server[p].steps[a].op = "write"

\* What came is, in this order, what was echoed, what the session holds and what
\* waits; a session holds nothing but between its read and its write.
EchoConn(p, c, a, d, cn) ==
    /\ IsPrefix(cn.out, Stream(c, cn.sent))
    /\ cn.peer \in {"none", "up", "garbled"} /\ a # Gone =>
          cn.out \o d \o cn.inb = Stream(c, cn.sent)
    /\ a # Gone /\ ~Writes(p, a) => d = << >>

\* There is no answer before the write, and no write before a request.
AnswerConn(p, a, cn) ==
    /\ Len(cn.out) <= 1
    /\ a # Gone /\ (\A i \in 1..(a - 1) : ~Writes(p, i)) => cn.out = << >>
    /\ p \notin Daytimes /\ (cn.out # << >> \/ Writes(p, a)) => cn.sent > 0

Conn(p, c, a, d, cn) ==
    /\ a \in {Gone} \cup 0..Len(Server[p].steps)
    /\ cn.peer = "none" => a = 0
    /\ cn.inb # << >> => cn.sent > 0
    /\ cn.hello => p \in {"Ssl1", "Ssl2"}
    /\ cn.peer = "closed" => cn.hello
    /\ IF Server[p].echo THEN EchoConn(p, c, a, d, cn) ELSE AnswerConn(p, a, cn)

\* A connection that waits was made and has no session yet, and waits once.
QueueInv ==
    /\ \A i \in DOMAIN queue : at[queue[i]] = 0 /\ conn[queue[i]].peer # "none"
    /\ \A i, j \in DOMAIN queue : queue[i] = queue[j] => i = j

\* The connection that was accepted after stop() has a session until the end.
Life ==
    /\ stopping => prog \in {"Ssl2", "EchoServer_One", "EchoServer_Refactor"}
    /\ stopping /\ prog # "Ssl2" => ~Running
    /\ late = 1 => prog = "Ssl2" /\ stopping /\ (Running => \E c \in Clients : Open(c))
    /\ ServerLife

TcpInv ==
    Tcp => /\ \A c \in Clients : Conn(prog, c, at[c], buf[c], conn[c])
           /\ QueueInv

(* ServerAsync.                                                            *)

\* Datagram m is the k-th of client c, for a k that is not less than first.
Datagram(m, c, first, cn) == \E k \in first..cn.sent : m = <<c, k>>

\* What waits, what is echoed and what was echoed is of its client.
UdpInv ==
    prog = "UdpEcho" =>
        /\ DOMAIN udp = {"op", "sender", "dest", "data"}
        /\ udp.op = "send" =>
              udp.dest \in Clients /\ Datagram(udp.data, udp.dest, 1, conn[udp.dest])
        /\ \A c \in Clients :
              /\ \A i \in DOMAIN conn[c].inb : Datagram(conn[c].inb[i], c, 0, conn[c])
              /\ \A i \in DOMAIN conn[c].out : Datagram(conn[c].out[i], c, 1, conn[c])

IInv == TypeInv /\ TcpInv /\ UdpInv /\ Life

\* Every table is one of these.
LEMMA Tables ==
  \A p \in TcpServers : WellFormed(p, Server[p])
<1> SUFFICES ASSUME NEW p \in TcpServers PROVE WellFormed(p, Server[p])
  OBVIOUS
<1> DEFINE t == Server[p]
<1> SUFFICES WellFormed(p, t)
  OBVIOUS
<1> HIDE DEF t
<1>1. CASE p = "HttpServer" \/ p = "BeastHttpServer"
  <2>1. /\ Len(t.steps) = 3 /\ t.steps[1].op = "read" /\ t.steps[2].op = "write"
            /\ t.steps[3].op = "shutdown"
        /\ t.again = 0 /\ ~t.echo /\ t.echo \in BOOLEAN
    <3>1. CASE p = "HttpServer"
      BY <3>1 DEF t, Server, HttpServer, Sequential, Op
    <3>2. CASE p = "BeastHttpServer"
      BY <3>2 DEF t, Server, BeastHttpServer, HttpServer, Sequential, Op
    <3>. QED
      BY <1>1, <3>1, <3>2
  <2>2. \A i \in 1..Len(t.steps) : i = 1 \/ i = 2 \/ i = 3
    BY <2>1
  <2>. QED
    BY <1>1, <2>1, <2>2 DEF WellFormed, OpNames, Daytimes
<1>2. CASE p = "Daytime"
  <2>1. /\ Len(t.steps) = 1 /\ t.steps[1].op = "write"
        /\ t.again = 0 /\ ~t.echo /\ t.echo \in BOOLEAN
    BY <1>2 DEF t, Server, Daytime, Sequential, Op
  <2>2. \A i \in 1..Len(t.steps) : i = 1
    BY <2>1
  <2>. QED
    BY <1>2, <2>1, <2>2 DEF WellFormed, OpNames, Daytimes
<1>3. CASE p = "DaytimeEndpoint"
  <2>1. /\ Len(t.steps) = 2 /\ t.steps[1].op = "endpoint" /\ t.steps[2].op = "write"
        /\ t.again = 0 /\ ~t.echo /\ t.echo \in BOOLEAN
    BY <1>3 DEF t, Server, DaytimeEndpoint, Sequential, Op
  <2>2. \A i \in 1..Len(t.steps) : i = 1 \/ i = 2
    BY <2>1
  <2>. QED
    BY <1>3, <2>1, <2>2 DEF WellFormed, OpNames, Daytimes
<1>4. CASE p = "AcceptConnections"
  <2>1. /\ Len(t.steps) = 1 /\ t.steps[1].op = "leave"
        /\ t.again = 0 /\ ~t.echo /\ t.echo \in BOOLEAN
    BY <1>4 DEF t, Server, AcceptConnections, Sequential, Op
  <2>2. \A i \in 1..Len(t.steps) : i = 1
    BY <2>1
  <2>. QED
    BY <1>4, <2>1, <2>2 DEF WellFormed, OpNames, Daytimes
<1>5. CASE p = "Ssl1"
  <2>1. /\ Len(t.steps) = 3 /\ t.steps[1].op = "handshake" /\ t.steps[2].op = "read"
            /\ t.steps[3].op = "write"
        /\ t.again = 2 /\ t.echo /\ t.echo \in BOOLEAN
    BY <1>5 DEF t, Server, Ssl1, Concurrent, Op
  <2>2. \A i \in 1..Len(t.steps) : i = 1 \/ i = 2 \/ i = 3
    BY <2>1
  <2>. QED
    BY <1>5, <2>1, <2>2 DEF WellFormed, OpNames, Daytimes
<1>6. CASE p = "Ssl2"
  <2>1. /\ Len(t.steps) = 3 /\ t.steps[1].op = "handshake" /\ t.steps[2].op = "read"
            /\ t.steps[3].op = "write"
        /\ t.again = 0 /\ ~t.echo /\ t.echo \in BOOLEAN
    BY <1>6 DEF t, Server, Ssl2, Sequential, Op
  <2>2. \A i \in 1..Len(t.steps) : i = 1 \/ i = 2 \/ i = 3
    BY <2>1
  <2>. QED
    BY <1>6, <2>1, <2>2 DEF WellFormed, OpNames, Daytimes
<1>7. CASE p = "AcceptServer" \/ p = "EchoServer_One" \/ p = "EchoServer_Refactor"
  <2>1. /\ Len(t.steps) = 2 /\ t.steps[1].op = "read" /\ t.steps[2].op = "write"
        /\ t.again = 1 /\ t.echo /\ t.echo \in BOOLEAN
    <3>1. CASE p = "AcceptServer"
      BY <3>1 DEF t, Server, AcceptServer, Echoes, Concurrent, Op
    <3>2. CASE p = "EchoServer_One"
      BY <3>2 DEF t, Server, EchoServer_One, Echoes, Concurrent, Op
    <3>3. CASE p = "EchoServer_Refactor"
      BY <3>3 DEF t, Server, EchoServer_Refactor, Echoes, Concurrent, Op
    <3>. QED
      BY <1>7, <3>1, <3>2, <3>3
  <2>2. \A i \in 1..Len(t.steps) : i = 1 \/ i = 2
    BY <2>1
  <2>. QED
    BY <1>7, <2>1, <2>2 DEF WellFormed, OpNames, Daytimes
<1>. QED
  BY <1>1, <1>2, <1>3, <1>4, <1>5, <1>6, <1>7 DEF TcpServers, Server

(* The data of one connection.                                             *)

\* The messages of a client are numbered from 1, and one more comes last.
LEMMA StreamIs ==
  ASSUME NEW c \in Clients, NEW s \in Nat
  PROVE  /\ Stream(c, s) \in Seq(Msg) /\ Len(Stream(c, s)) = s
         /\ \A k \in 1..s : Stream(c, s)[k] = <<c, k>>
         /\ Stream(c, s + 1) = Append(Stream(c, s), <<c, s + 1>>)
<1>1. \A n \in Nat : /\ Stream(c, n) \in Seq(Msg) /\ Len(Stream(c, n)) = n
                     /\ \A k \in 1..n : Stream(c, n)[k] = <<c, k>>
  BY DEF Stream, Msg
<1> DEFINE t == Stream(c, s)
           u == Stream(c, s + 1)
           x == <<c, s + 1>>
<1>2. /\ t \in Seq(Msg) /\ Len(t) = s /\ \A k \in 1..s : t[k] = <<c, k>>
      /\ u \in Seq(Msg) /\ Len(u) = s + 1 /\ \A k \in 1..(s + 1) : u[k] = <<c, k>>
      /\ x \in Msg
  <2>1. s + 1 \in Nat /\ x \in Msg
    BY DEF Msg
  <2>. QED
    BY <1>1, <2>1
<1> HIDE DEF t, u, x
<1>3. /\ Append(t, x) \in Seq(Msg) /\ Len(Append(t, x)) = s + 1
      /\ \A k \in 1..s : Append(t, x)[k] = t[k]
      /\ Append(t, x)[s + 1] = x
  BY <1>2, AppendProperties
<1>4. \A k \in 1..(s + 1) : u[k] = Append(t, x)[k]
  <2> SUFFICES ASSUME NEW k \in 1..(s + 1) PROVE u[k] = Append(t, x)[k]
    OBVIOUS
  <2>1. k \in 1..s \/ k = s + 1
    OBVIOUS
  <2>. QED
    BY <2>1, <1>2, <1>3 DEF x
<1>5. u = Append(t, x)
  BY <1>2, <1>3, <1>4, SeqEqual
<1>. QED
  BY <1>1, <1>5 DEF t, u, x

\* The beginning of a sequence has its elements.
LEMMA PrefixIs ==
  ASSUME NEW out \in Seq(Msg), NEW w \in Seq(Msg)
  PROVE  IsPrefix(out, w) <=> /\ Len(out) <= Len(w)
                             /\ \A k \in 1..Len(out) : out[k] = w[k]
<1>1. /\ Len(out) \in Nat /\ Len(w) \in Nat
      /\ SubSeq(out, 1, Len(out)) = out
      /\ \A k \in 1..Len(w) : w[k] \in Msg
  BY LenProperties, SubSeqFull, ElementOfSeq
<1>2. ASSUME Len(out) <= Len(w)
      PROVE  IsPrefix(out, w) <=> \A k \in 1..Len(out) : out[k] = w[k]
  <2> DEFINE v == SubSeq(w, 1, Len(out))
  <2>1. \A k \in 1..Len(out) : w[k] \in Msg
    BY <1>1, <1>2
  <2>2. /\ v \in Seq(Msg) /\ Len(v) = Len(out)
        /\ \A k \in 1..Len(out) : v[k] = w[k]
    BY <1>1, <2>1, SubSeqProperties
  <2>3. IsPrefix(out, w) <=> out = v
    BY <1>1, <1>2 DEF IsPrefix
  <2> HIDE DEF v
  <2>4. out = v <=> \A k \in 1..Len(out) : out[k] = v[k]
    BY <2>2, SeqEqual
  <2>. QED
    BY <2>2, <2>3, <2>4
<1>. QED
  BY <1>2 DEF IsPrefix

\* The beginning of what a client sent is that of what it will have sent.
LEMMA StreamPrefix ==
  ASSUME NEW c \in Clients, NEW s \in Nat, NEW out \in Seq(Msg)
  PROVE  /\ IsPrefix(out, Stream(c, s)) => IsPrefix(out, Stream(c, s + 1))
         /\ \A rest \in Seq(Msg) :
               out \o rest = Stream(c, s) => IsPrefix(out, Stream(c, s))
<1>1. s + 1 \in Nat /\ Len(out) \in Nat
  BY LenProperties
<1>2. /\ Stream(c, s) \in Seq(Msg) /\ Len(Stream(c, s)) = s
      /\ \A k \in 1..s : Stream(c, s)[k] = <<c, k>>
      /\ Stream(c, s + 1) \in Seq(Msg) /\ Len(Stream(c, s + 1)) = s + 1
      /\ \A k \in 1..(s + 1) : Stream(c, s + 1)[k] = <<c, k>>
  BY <1>1, StreamIs
<1>3. ASSUME IsPrefix(out, Stream(c, s)) PROVE IsPrefix(out, Stream(c, s + 1))
  <2>1. Len(out) <= s /\ \A k \in 1..Len(out) : out[k] = <<c, k>>
    <3>1. Len(out) <= s /\ \A k \in 1..Len(out) : out[k] = Stream(c, s)[k]
      BY <1>2, <1>3, PrefixIs
    <3>2. \A k \in 1..Len(out) : k \in 1..s
      BY <1>1, <3>1
    <3>. QED
      BY <1>2, <3>1, <3>2
  <2>2. Len(out) <= s + 1 /\ \A k \in 1..Len(out) : k \in 1..(s + 1)
    BY <1>1, <2>1
  <2>3. \A k \in 1..Len(out) : out[k] = Stream(c, s + 1)[k]
    BY <1>2, <2>1, <2>2
  <2>. QED
    BY <1>2, <2>2, <2>3, PrefixIs
<1>4. ASSUME NEW rest \in Seq(Msg), out \o rest = Stream(c, s)
      PROVE  IsPrefix(out, Stream(c, s))
  <2>1. /\ Len(rest) \in Nat /\ Len(out \o rest) = Len(out) + Len(rest)
        /\ \A k \in 1..(Len(out) + Len(rest)) :
              (out \o rest)[k] = IF k <= Len(out) THEN out[k] ELSE rest[k - Len(out)]
    BY ConcatProperties, LenProperties
  <2>2. \A k \in 1..Len(out) : k \in 1..(Len(out) + Len(rest)) /\ k <= Len(out)
    BY <1>1, <2>1
  <2>3. Len(out) <= Len(out \o rest) /\ \A k \in 1..Len(out) : out[k] = (out \o rest)[k]
    BY <1>1, <2>1, <2>2
  <2>. QED
    BY <1>2, <1>4, <2>3, PrefixIs
<1>. QED
  BY <1>3, <1>4

\* Messages in sequences may be grouped in any way.
LEMMA Reassociate == \A u, v, w \in Seq(Msg) : (u \o v) \o w = u \o (v \o w)
  BY ConcatAssociative

\* A message that is sent comes last.
LEMMA SayFlow ==
  ASSUME NEW out \in Seq(Msg), NEW d \in Seq(Msg), NEW inb \in Seq(Msg), NEW x \in Msg
  PROVE  out \o d \o Append(inb, x) = Append(out \o d \o inb, x)
<1> DEFINE od == out \o d
           y == <<x>>
<1>1. od \in Seq(Msg) /\ y \in Seq(Msg)
  BY ConcatProperties
<1>2. od \o inb \in Seq(Msg)
  BY <1>1, ConcatProperties
<1>3. Append(inb, x) = inb \o y /\ Append(od \o inb, x) = (od \o inb) \o y
  BY <1>2, AppendIsConcat
<1> HIDE DEF od, y
<1>4. (od \o inb) \o y = od \o (inb \o y)
  BY <1>1, Reassociate
<1>. QED
  BY <1>3, <1>4 DEF od

\* What is read leaves the rest behind it.
LEMMA ReadFlow ==
  ASSUME NEW out \in Seq(Msg), NEW inb \in Seq(Msg), NEW n \in 0..Len(inb)
  PROVE  /\ SubSeq(inb, 1, n) \in Seq(Msg)
         /\ SubSeq(inb, n + 1, Len(inb)) \in Seq(Msg)
         /\ out \o SubSeq(inb, 1, n) \o SubSeq(inb, n + 1, Len(inb)) = out \o << >> \o inb
<1> DEFINE a == SubSeq(inb, 1, n)
           b == SubSeq(inb, n + 1, Len(inb))
<1>1. Len(inb) \in Nat /\ \A k \in 1..Len(inb) : inb[k] \in Msg
  BY LenProperties, ElementOfSeq
<1>2. (\A k \in 1..n : inb[k] \in Msg) /\ \A k \in n + 1..Len(inb) : inb[k] \in Msg
  BY <1>1
<1>3. a \in Seq(Msg) /\ b \in Seq(Msg)
  BY <1>1, <1>2, SubSeqProperties
<1>4. a \o b = inb
  <2>1. 1 \in 1..(Len(inb) + 1) /\ n \in (1 - 1)..Len(inb) /\ Len(inb) \in n..Len(inb)
    BY <1>1
  <2>2. a \o b = SubSeq(inb, 1, Len(inb))
    BY <2>1, ConcatAdjacentSubSeq
  <2>. QED
    BY <2>2, SubSeqFull
<1> HIDE DEF a, b
<1>6. out \o a \o b = out \o (a \o b) /\ out \o << >> = out
  BY <1>3, Reassociate, ConcatEmptySeq
<1>. QED
  BY <1>3, <1>4, <1>6 DEF a, b

\* What is written was held.
LEMMA WriteFlow ==
  ASSUME NEW out \in Seq(Msg), NEW d \in Seq(Msg), NEW inb \in Seq(Msg)
  PROVE  /\ out \o d \in Seq(Msg) /\ (out \o d) \o << >> = out \o d
         /\ d \o inb \in Seq(Msg) /\ out \o d \o inb = out \o (d \o inb)
<1>1. out \o d \in Seq(Msg) /\ d \o inb \in Seq(Msg)
  BY ConcatProperties
<1>2. (out \o d) \o << >> = out \o d /\ (out \o d) \o inb = out \o (d \o inb)
  BY <1>1, Reassociate, ConcatEmptySeq
<1>. QED
  BY <1>1, <1>2

(* What the operations of a session do to its connection.                  *)

\* Where a session may be after its operation a is done.
After(p, a) ==
    IF a < Len(Server[p].steps) THEN {a + 1}
    ELSE IF Server[p].echo THEN {Server[p].again} ELSE {Gone}

\* The parts of a connection.
LEMMA ConnParts ==
  ASSUME NEW cn \in ConnType
  PROVE  /\ cn.sent \in Nat /\ cn.sent \in 0..MaxMsgs
         /\ cn.inb \in Seq(Msg) /\ cn.out \in Seq(Msg)
         /\ Len(cn.inb) \in Nat /\ Len(cn.out) \in Nat
         /\ cn.hello \in BOOLEAN
         /\ cn.peer \in {"none", "up", "garbled", "fin", "closed", "reset"}
<1>1. cn.inb \in Seq(Msg) /\ cn.out \in Seq(Msg) /\ cn.sent \in 0..MaxMsgs
  BY DEF ConnType
<1>. QED
  BY <1>1, LenProperties, BoundAssumption DEF ConnType

\* An error, or the end of the steps
LEMMA GoneConn ==
  ASSUME NEW p \in TcpServers, NEW c \in Clients, NEW a \in 1..Len(Server[p].steps),
         NEW d \in Seq(Msg), NEW cn \in ConnType, Conn(p, c, a, d, cn)
  PROVE  Conn(p, c, Gone, d, cn)
<1>1. cn.peer # "none" /\ Server[p].echo \in BOOLEAN
  BY Tables DEF Conn, WellFormed
<1>2. ASSUME Server[p].echo PROVE EchoConn(p, c, Gone, d, cn)
  BY <1>2 DEF Conn, EchoConn
<1>3. ASSUME ~Server[p].echo PROVE AnswerConn(p, Gone, cn)
  BY <1>3 DEF Conn, AnswerConn, Writes, Gone
<1>. QED
  BY <1>1, <1>2, <1>3 DEF Conn

\* An operation that reads and writes nothing
LEMMA IdleConn ==
  ASSUME NEW p \in TcpServers, NEW c \in Clients, NEW a \in 1..Len(Server[p].steps),
         NEW d \in Seq(Msg), NEW cn \in ConnType, Conn(p, c, a, d, cn),
         Server[p].steps[a].op \notin {"read", "write"}, NEW b \in After(p, a)
  PROVE  Conn(p, c, b, d, cn)
<1> DEFINE t == Server[p]
<1>1. /\ Len(t.steps) \in Nat \ {0} /\ t.echo \in BOOLEAN
      /\ (~t.echo /\ a < Len(t.steps) /\ t.steps[a + 1].op = "write") => p \in Daytimes
      /\ t.echo => t.steps[a].op \in {"handshake", "read", "write"}
             /\ (t.steps[a].op = "handshake" =>
                    a < Len(t.steps) /\ t.steps[a + 1].op # "write")
  BY Tables DEF WellFormed
<1>2. cn.peer # "none" /\ a # Gone /\ a > 0
  BY DEF Conn, Gone
<1>3. CASE b = Gone
  BY <1>3, GoneConn
<1>4. CASE b # Gone
  <2>1. /\ a < Len(t.steps) /\ b = a + 1
        /\ b \in 0..Len(t.steps) /\ b > 0 /\ b - 1 = a
    BY <1>1, <1>4 DEF After
  <2>2. ASSUME t.echo PROVE EchoConn(p, c, b, d, cn)
    <3>1. ~Writes(p, b) /\ ~Writes(p, a)
      BY <1>1, <2>1, <2>2 DEF Writes
    <3>. QED
      BY <1>2, <2>1, <2>2, <3>1 DEF Conn, EchoConn
  <2>3. ASSUME ~t.echo PROVE AnswerConn(p, b, cn)
    <3>1. Writes(p, b) => p \in Daytimes
      BY <1>1, <2>1, <2>3 DEF Writes
    <3>2. (\A i \in 1..(b - 1) : ~Writes(p, i)) => \A i \in 1..(a - 1) : ~Writes(p, i)
      BY <2>1
    <3>. QED
      BY <1>2, <2>1, <2>3, <3>1, <3>2 DEF Conn, AnswerConn
  <2>. QED
    BY <1>1, <1>2, <2>1, <2>2, <2>3 DEF Conn
<1>. QED
  BY <1>3, <1>4

\* A read takes a part of what waits; its write comes next.
LEMMA ReadConn ==
  ASSUME NEW p \in TcpServers, NEW c \in Clients, NEW a \in 1..Len(Server[p].steps),
         NEW d \in Seq(Msg), NEW cn \in ConnType, Conn(p, c, a, d, cn),
         Server[p].steps[a].op = "read", NEW b \in After(p, a),
         NEW n \in 1..Len(cn.inb), NEW got, got = SubSeq(cn.inb, 1, n), NEW cm \in ConnType,
         cm.peer = cn.peer, cm.hello = cn.hello, cm.sent = cn.sent,
         cm.inb = SubSeq(cn.inb, n + 1, Len(cn.inb)), cm.out = cn.out
  PROVE  Conn(p, c, b, got, cm)
<1> DEFINE t == Server[p]
           left == SubSeq(cn.inb, n + 1, Len(cn.inb))
<1>1. /\ a < Len(t.steps) /\ t.steps[a + 1].op = "write"
      /\ Len(t.steps) \in Nat \ {0} /\ t.echo \in BOOLEAN
  BY Tables DEF WellFormed
<1>2. b = a + 1 /\ Writes(p, b) /\ ~Writes(p, a) /\ b \in 0..Len(t.steps) /\ b - 1 = a
  BY <1>1 DEF After, Writes
<1>3. /\ cn.sent \in Nat /\ cn.inb \in Seq(Msg) /\ cn.out \in Seq(Msg)
      /\ Len(cn.inb) \in Nat /\ n \in 0..Len(cn.inb)
  BY ConnParts
<1>4. /\ got \in Seq(Msg) /\ left \in Seq(Msg)
      /\ cn.out \o got \o left = cn.out \o << >> \o cn.inb
  BY <1>3, ReadFlow
<1>5. cn.inb # << >> /\ cn.sent > 0
  BY <1>3, EmptySeq DEF Conn
<1>6. /\ cm.peer = cn.peer /\ cm.hello = cn.hello
      /\ cm.sent = cn.sent /\ cm.inb = left /\ cm.out = cn.out
  OBVIOUS
<1> HIDE DEF left
<1>7. a # Gone /\ a > 0 /\ b # Gone /\ b > 0 /\ cn.peer # "none"
  BY <1>2 DEF Gone, Conn
<1>8. ASSUME t.echo PROVE EchoConn(p, c, b, got, cm)
  <2>1. d = << >> /\ IsPrefix(cn.out, Stream(c, cn.sent))
    BY <1>2, <1>7, <1>8 DEF Conn, EchoConn
  <2>2. cn.peer \in {"up", "garbled"} => cn.out \o got \o left = Stream(c, cn.sent)
    BY <1>4, <1>7, <1>8, <2>1 DEF Conn, EchoConn
  <2>. QED
    BY <1>2, <1>6, <1>7, <2>1, <2>2 DEF EchoConn
<1>9. ASSUME ~t.echo PROVE AnswerConn(p, b, cm)
  <2>1. (\A i \in 1..(b - 1) : ~Writes(p, i)) => \A i \in 1..(a - 1) : ~Writes(p, i)
    BY <1>2
  <2>2. AnswerConn(p, a, cn)
    BY <1>9 DEF Conn
  <2>. QED
    BY <1>5, <1>6, <1>7, <2>1, <2>2 DEF AnswerConn
<1>. QED
  BY <1>1, <1>2, <1>5, <1>6, <1>7, <1>8, <1>9 DEF Conn

\* Of no answer and of one there is one at the most.
LEMMA AtMostOne == \A n \in 0..1 : n <= 1
  OBVIOUS

\* A write sends what the session holds, or the one answer; after it the session
\* holds nothing and is not at a write.
LEMMA WriteConn ==
  ASSUME NEW p \in TcpServers, NEW c \in Clients, NEW a \in 1..Len(Server[p].steps),
         NEW d \in Seq(Msg), NEW cn \in ConnType, Conn(p, c, a, d, cn),
         Server[p].steps[a].op = "write", NEW b \in After(p, a),
         NEW cm \in ConnType, cm.peer = cn.peer, cm.hello = cn.hello,
         cm.sent = cn.sent, cm.inb = cn.inb,
         cn.peer \notin {"up", "garbled"} => cm.out = cn.out,
         cn.peer \in {"up", "garbled"} /\ Server[p].echo => cm.out = cn.out \o d,
         cn.peer \in {"up", "garbled"} /\ ~Server[p].echo =>
            cm.out = cn.out \o <<<<c, 1>>>>
  PROVE  Conn(p, c, b, << >>, cm)
<1> DEFINE t == Server[p]
           out == cm.out
<1>1. /\ Len(t.steps) \in Nat \ {0} /\ t.echo \in BOOLEAN
      /\ \A j \in 1..Len(t.steps) : t.steps[j].op = "write" => j = a
      /\ t.echo => a = Len(t.steps) /\ t.again \in 1..Len(t.steps)
                    /\ t.steps[t.again].op # "write"
  <2>1. WellFormed(p, t)
    BY Tables
  <2>2. /\ Len(t.steps) \in Nat \ {0} /\ t.echo \in BOOLEAN
        /\ \A j \in 1..Len(t.steps) : t.steps[j].op = "write" => j = a
        /\ t.echo => /\ t.again \in 1..Len(t.steps)
                     /\ t.steps[t.again].op # "write"
                     /\ t.steps[Len(t.steps)].op = "write"
    BY <2>1 DEF WellFormed
  <2>3. t.echo => Len(t.steps) \in 1..Len(t.steps) /\ a = Len(t.steps)
    BY <2>2
  <2>. QED
    BY <2>2, <2>3
<1>2. /\ Writes(p, a) /\ a # Gone /\ a > 0 /\ cn.peer # "none"
      /\ b \in {Gone} \cup 1..Len(t.steps) /\ b # a
      /\ t.echo => b = t.again
      /\ ~t.echo => b = Gone \/ b = a + 1
  BY <1>1 DEF Gone, Writes, Conn, After
<1>3. ~Writes(p, b)
  BY <1>1, <1>2 DEF Writes, Gone
<1>4. /\ cn.sent \in Nat /\ cn.inb \in Seq(Msg) /\ cn.out \in Seq(Msg)
      /\ Len(cn.out) \in Nat
  BY ConnParts
<1>5. \A i \in 1..(a - 1) : ~Writes(p, i)
  BY <1>1 DEF Writes
<1>6. ASSUME ~t.echo PROVE Len(out) <= 1
  <2> DEFINE answer == <<<<c, 1>>>>
  <2>1. cn.out = << >>
    BY <1>2, <1>5, <1>6 DEF Conn, AnswerConn
  <2>2. <<c, 1>> \in Msg
    BY DEF Msg
  <2>3. answer \in Seq(Msg) /\ Len(answer) = 1
    BY <2>2
  <2>4. cn.out \o answer = answer
    BY <2>1, <2>3, ConcatEmptySeq
  <2>5. out = answer \/ out = << >>
    BY <1>6, <2>1, <2>4
  <2>6. Len(<< >>) = 0
    BY EmptySeq
  <2> HIDE DEF answer
  <2> HIDE DEF out
  <2>7. Len(out) \in 0..1
    BY <2>3, <2>5, <2>6
  <2>. QED
    BY <2>7, AtMostOne, Zenon
<1>7. /\ cm.peer = cn.peer /\ cm.hello = cn.hello
      /\ cm.sent = cn.sent /\ cm.inb = cn.inb
  OBVIOUS
<1>8. ASSUME t.echo PROVE EchoConn(p, c, b, << >>, cm)
  <2>1. EchoConn(p, c, a, d, cn)
    BY <1>8 DEF Conn
  <2>2. CASE cn.peer \in {"up", "garbled"}
    <3>1. out = cn.out \o d
      BY <1>8, <2>2
    <3>2. /\ cn.out \o d \in Seq(Msg) /\ (cn.out \o d) \o << >> = cn.out \o d
          /\ (cn.out \o d) \o cn.inb = Stream(c, cn.sent)
      BY <1>2, <1>4, <2>1, <2>2, WriteFlow DEF EchoConn
    <3>3. IsPrefix(cn.out \o d, Stream(c, cn.sent))
      BY <1>4, <3>2, StreamPrefix
    <3>. QED
      BY <1>7, <3>1, <3>2, <3>3 DEF EchoConn
  <2>3. CASE cn.peer \notin {"up", "garbled"}
    BY <1>2, <1>7, <2>1, <2>3 DEF EchoConn
  <2>. QED
    BY <2>2, <2>3
<1>9. ASSUME ~t.echo PROVE AnswerConn(p, b, cm)
  <2>1. ~(b # Gone /\ \A i \in 1..(b - 1) : ~Writes(p, i))
    <3>1. b # Gone => b = a + 1 /\ a \in 1..(b - 1)
      BY <1>2, <1>9
    <3>. QED
      BY <1>2, <3>1
  <2>2. p \notin Daytimes => cn.sent > 0
    BY <1>2, <1>9 DEF Conn, AnswerConn
  <2>. QED
    BY <1>3, <1>6, <1>7, <1>9, <2>1, <2>2 DEF AnswerConn
<1>10. Conn(p, c, b, << >>, cm)
  <2>1. /\ cn.inb # << >> => cn.sent > 0
        /\ cn.hello => p \in {"Ssl1", "Ssl2"}
        /\ cn.peer = "closed" => cn.hello
    BY DEF Conn
  <2>2. b \in {Gone} \cup 0..Len(t.steps)
    BY <1>1, <1>2
  <2>. QED
    BY <1>1, <1>2, <1>7, <1>8, <1>9, <2>1, <2>2 DEF Conn
<1>. QED
  BY <1>10

(* The steps.                                                              *)

\* What is known of one connection.
LEMMA ConnOf ==
  ASSUME IInv, Tcp, NEW c \in Clients
  PROVE  /\ prog \in TcpServers /\ WellFormed(prog, Prog)
         /\ conn[c] \in ConnType /\ buf[c] \in Seq(Msg)
         /\ Conn(prog, c, at[c], buf[c], conn[c])
         /\ Open(c) => at[c] \in 1..Len(Prog.steps) /\ conn[c].peer # "none"
<1>1. prog \in TcpServers
  BY DEF Tcp, TcpServers
<1>2. WellFormed(prog, Prog)
  BY <1>1, Tables DEF Prog
<1>3. /\ conn[c] \in ConnType /\ buf[c] \in Seq(Msg)
      /\ Conn(prog, c, at[c], buf[c], conn[c])
  BY DEF IInv, TypeInv, TcpInv
<1>4. Open(c) => at[c] \in 1..Len(Prog.steps) /\ conn[c].peer # "none"
  <2>1. at[c] \in {Gone} \cup 0..Len(Prog.steps) /\ (conn[c].peer = "none" => at[c] = 0)
    BY <1>3 DEF Conn, Prog
  <2>2. Len(Prog.steps) \in Nat
    BY <1>2 DEF WellFormed
  <2>. QED
    BY <2>1, <2>2 DEF Open, Gone
<1>. QED
  BY <1>1, <1>2, <1>3, <1>4

\* A step changes one connection, and what it makes of it is right.
LEMMA ConnUpdate ==
  ASSUME IInv, Tcp, NEW c \in Clients, prog' = prog,
         NEW a \in Int, NEW d \in Seq(Msg), NEW cn \in ConnType, Conn(prog, c, a, d, cn),
         at' = [at EXCEPT ![c] = a], buf' = [buf EXCEPT ![c] = d],
         conn' = [conn EXCEPT ![c] = cn]
  PROVE  /\ at' \in [Clients -> Int] /\ buf' \in [Clients -> Seq(Msg)]
         /\ conn' \in [Clients -> ConnType]
         /\ \A e \in Clients : Conn(prog', e, at'[e], buf'[e], conn'[e])
         /\ at'[c] = a /\ conn'[c] = cn
         /\ \A e \in Clients \ {c} : at'[e] = at[e] /\ conn'[e] = conn[e]
<1>1. /\ at \in [Clients -> Int] /\ buf \in [Clients -> Seq(Msg)]
      /\ conn \in [Clients -> ConnType]
      /\ \A e \in Clients : Conn(prog, e, at[e], buf[e], conn[e])
  BY DEF IInv, TypeInv, TcpInv
<1>2. at'[c] = a /\ buf'[c] = d /\ conn'[c] = cn
  BY <1>1
<1>3. \A e \in Clients \ {c} : at'[e] = at[e] /\ buf'[e] = buf[e] /\ conn'[e] = conn[e]
  BY <1>1
<1>4. ASSUME NEW e \in Clients PROVE Conn(prog', e, at'[e], buf'[e], conn'[e])
  <2>1. CASE e = c
    BY <1>2, <2>1
  <2>2. CASE e # c
    BY <1>1, <1>3, <2>2
  <2>. QED
    BY <2>1, <2>2
<1>. QED
  BY <1>1, <1>2, <1>3, <1>4

\* What follows an operation.
LEMMA ContinuesTo ==
  ASSUME IInv, Tcp, NEW c \in Clients, Open(c), Continues(c)
  PROVE  \E b \in After(prog, at[c]) :
            /\ b \in Int
            /\ at' = [at EXCEPT ![c] = b]
            /\ b # Gone => b > 0 /\ up' = up
            /\ b = Gone => Leaves(c)
<1> DEFINE t == Prog
<1>1. /\ at[c] \in 1..Len(t.steps) /\ t = Server[prog] /\ at \in [Clients -> Int]
      /\ Len(t.steps) \in Nat /\ t.echo \in BOOLEAN
      /\ t.echo => t.again \in 1..Len(t.steps)
      /\ ~t.echo => t.again = 0
  BY ConnOf DEF WellFormed, Prog, IInv, TypeInv
<1>2. CASE at[c] < Len(t.steps)
  <2>1. at' = [at EXCEPT ![c] = at[c] + 1] /\ up' = up
    BY <1>1, <1>2 DEF Continues
  <2>2. /\ at[c] + 1 \in After(prog, at[c]) /\ at[c] + 1 \in Int
        /\ at[c] + 1 > 0 /\ at[c] + 1 # Gone
    BY <1>1, <1>2 DEF After, Gone
  <2>. QED
    BY <2>1, <2>2
<1>3. CASE ~(at[c] < Len(t.steps)) /\ t.echo
  <2>1. at' = [at EXCEPT ![c] = t.again] /\ up' = up
    BY <1>1, <1>3 DEF Continues
  <2>2. /\ t.again \in After(prog, at[c]) /\ t.again \in Int
        /\ t.again > 0 /\ t.again # Gone
    BY <1>1, <1>3 DEF After, Gone
  <2>. QED
    BY <2>1, <2>2
<1>4. CASE ~(at[c] < Len(t.steps)) /\ ~t.echo
  <2>1. Leaves(c) /\ at' = [at EXCEPT ![c] = Gone]
    BY <1>1, <1>4 DEF Continues, Leaves
  <2>2. Gone \in After(prog, at[c]) /\ Gone \in Int
    BY <1>1, <1>4 DEF After, Gone
  <2>. QED
    BY <2>1, <2>2
<1>. QED
  BY <1>2, <1>3, <1>4

\* An operation of a session, or its error, changes the session and its connection only.
LEMMA SessionEffect ==
  ASSUME IInv, NEW c \in Clients, Session(c)
  PROVE  /\ Tcp /\ Running /\ Open(c)
         /\ \E b \in Int, d \in Seq(Msg), cn \in ConnType :
               /\ at' = [at EXCEPT ![c] = b] /\ buf' = [buf EXCEPT ![c] = d]
               /\ conn' = [conn EXCEPT ![c] = cn]
               /\ Conn(prog, c, b, d, cn) /\ cn.peer = conn[c].peer
<1>1. Tcp /\ Running /\ Open(c)
  BY DEF Session, Handshake, Read, Write, Other, SessionFails, At
<1>2. /\ prog \in TcpServers /\ conn[c] \in ConnType /\ buf[c] \in Seq(Msg)
      /\ Conn(prog, c, at[c], buf[c], conn[c])
      /\ at[c] \in 1..Len(Server[prog].steps)
      /\ buf = [buf EXCEPT ![c] = buf[c]] /\ conn = [conn EXCEPT ![c] = conn[c]]
  <2>1. buf = [buf EXCEPT ![c] = buf[c]] /\ conn = [conn EXCEPT ![c] = conn[c]]
    BY DEF IInv, TypeInv
  <2>. QED
    BY <1>1, <2>1, ConnOf DEF Prog
<1>3. CASE Handshake(c) \/ Other(c)
  <2>1. /\ Server[prog].steps[at[c]].op \notin {"read", "write"}
        /\ Continues(c) /\ buf' = buf /\ conn' = conn
    BY <1>3 DEF Handshake, Other, At, Step, Prog
  <2>2. PICK b \in After(prog, at[c]) : b \in Int /\ at' = [at EXCEPT ![c] = b]
    BY <1>1, <2>1, ContinuesTo
  <2>3. Conn(prog, c, b, buf[c], conn[c])
    BY <1>2, <2>1, IdleConn
  <2>. QED
    BY <1>1, <1>2, <2>1, <2>2, <2>3
<1>4. CASE Read(c)
  <2>1. Server[prog].steps[at[c]].op = "read" /\ Continues(c)
    BY <1>4 DEF Read, At, Step, Prog
  <2>2. PICK n \in 1..Len(conn[c].inb) :
          /\ buf' = [buf EXCEPT ![c] = SubSeq(conn[c].inb, 1, n)]
          /\ conn' = [conn EXCEPT ![c].inb = SubSeq(@, n + 1, Len(@))]
    BY <1>4 DEF Read
  <2>3. PICK b \in After(prog, at[c]) : b \in Int /\ at' = [at EXCEPT ![c] = b]
    BY <1>1, <2>1, ContinuesTo
  <2> DEFINE got == SubSeq(conn[c].inb, 1, n)
             cm == [conn[c] EXCEPT !.inb = SubSeq(conn[c].inb, n + 1, Len(conn[c].inb))]
  <2>4. conn' = [conn EXCEPT ![c] = cm]
    BY <2>2 DEF IInv, TypeInv
  <2>5. got \in Seq(Msg) /\ SubSeq(conn[c].inb, n + 1, Len(conn[c].inb)) \in Seq(Msg)
    BY <1>2, ConnParts, ReadFlow
  <2>6. /\ cm \in ConnType /\ cm.peer = conn[c].peer /\ cm.hello = conn[c].hello
        /\ cm.sent = conn[c].sent /\ cm.out = conn[c].out
        /\ cm.inb = SubSeq(conn[c].inb, n + 1, Len(conn[c].inb))
    BY <1>2, <2>5 DEF ConnType
  <2> HIDE DEF cm
  <2>7. Conn(prog, c, b, got, cm)
    BY <1>2, <2>1, <2>3, <2>6, ReadConn
  <2> HIDE DEF got
  <2>8. buf' = [buf EXCEPT ![c] = got]
    BY <2>2 DEF got
  <2>. QED
    BY <1>1, <2>3, <2>4, <2>5, <2>6, <2>7, <2>8
<1>5. CASE Write(c)
  <2>1. Server[prog].steps[at[c]].op = "write" /\ Continues(c)
    BY <1>5 DEF Write, At, Step, Prog
  <2>2. PICK b \in After(prog, at[c]) : b \in Int /\ at' = [at EXCEPT ![c] = b]
    BY <1>1, <2>1, ContinuesTo
  <2> DEFINE answer == IF Server[prog].echo THEN buf[c] ELSE <<<<c, 1>>>>
             out == IF Connected(c) THEN conn[c].out \o answer ELSE conn[c].out
             cm == [conn[c] EXCEPT !.out = out]
  <2>3. conn' = [conn EXCEPT ![c] = cm] /\ buf' = [buf EXCEPT ![c] = << >>]
    BY <1>5 DEF Write, Prog, IInv, TypeInv
  <2>4. answer \in Seq(Msg)
    <3>1. <<c, 1>> \in Msg
      BY DEF Msg
    <3>. QED
      BY <1>2, <3>1
  <2> HIDE DEF answer
  <2>5. out \in Seq(Msg)
    BY <1>2, <2>4, ConnParts, ConcatProperties
  <2>6. /\ cm \in ConnType /\ cm.peer = conn[c].peer /\ cm.hello = conn[c].hello
        /\ cm.sent = conn[c].sent /\ cm.inb = conn[c].inb /\ cm.out = out
    <3> HIDE DEF out
    <3>. QED
      BY <1>2, <2>5 DEF ConnType
  <2>7. /\ conn[c].peer \notin {"up", "garbled"} => out = conn[c].out
        /\ conn[c].peer \in {"up", "garbled"} /\ Server[prog].echo =>
              out = conn[c].out \o buf[c]
        /\ conn[c].peer \in {"up", "garbled"} /\ ~Server[prog].echo =>
              out = conn[c].out \o <<<<c, 1>>>>
    BY DEF answer, Connected
  <2> HIDE DEF out, cm
  <2>8. Conn(prog, c, b, << >>, cm)
    <3>1. /\ conn[c].peer \notin {"up", "garbled"} => cm.out = conn[c].out
          /\ conn[c].peer \in {"up", "garbled"} /\ Server[prog].echo =>
              cm.out = conn[c].out \o buf[c]
          /\ conn[c].peer \in {"up", "garbled"} /\ ~Server[prog].echo =>
                cm.out = conn[c].out \o <<<<c, 1>>>>
      BY <2>6, <2>7
    <3>. QED
      BY <1>2, <2>1, <2>2, <2>6, <3>1, WriteConn
  <2>9. << >> \in Seq(Msg)
    BY EmptySeq
  <2>. QED
    BY <1>1, <2>2, <2>3, <2>6, <2>8, <2>9
<1>6. CASE SessionFails(c)
  <2>1. at' = [at EXCEPT ![c] = Gone] /\ buf' = buf /\ conn' = conn
    <3>1. CASE Step(c).error = "session"
      BY <1>6, <3>1 DEF SessionFails, Leaves
    <3>2. CASE Step(c).error = "delete"
      BY <1>6, <3>2 DEF SessionFails
    <3>3. CASE Step(c).error \notin {"session", "delete"}
      BY <1>6, <3>3 DEF SessionFails
    <3>. QED
      BY <3>1, <3>2, <3>3
  <2>2. Conn(prog, c, Gone, buf[c], conn[c]) /\ Gone \in Int
    BY <1>2, GoneConn DEF Gone
  <2>. QED
    BY <1>1, <1>2, <2>1, <2>2
<1>. QED
  BY <1>3, <1>4, <1>5, <1>6 DEF Session

(* Why a server ends.                                                      *)

\* What an error of a server does
LEMMA Errors ==
  ASSUME NEW p \in TcpServers
  PROVE  /\ p # "UdpEcho"
         /\ \A i \in 1..Len(Server[p].steps) :
               \/ Server[p].steps[i].error = "session"
               \/ Server[p].steps[i].error = "delete" /\ p = "Ssl1"
               \/ /\ Server[p].steps[i].error = "ended"
                  /\ \/ p \in {"HttpServer", "BeastHttpServer"}
                     \/ p = "DaytimeEndpoint" /\ Server[p].steps[i].op = "endpoint"
                     \/ p = "AcceptConnections" /\ Server[p].steps[i].op = "leave"
         /\ Server[p].once => p = "AcceptConnections"
         /\ IF p = "EchoServer_One" THEN Server[p].onAccept = "deaf"
            ELSE /\ Server[p].onAccept \in {"ended", "terminated"}
                 /\ p = "AcceptConnections" => Server[p].onAccept = "terminated"
         /\ p = "Ssl2" => ~Server[p].many
<1>1. p \in {"HttpServer", "BeastHttpServer", "Daytime", "DaytimeEndpoint",
             "AcceptConnections", "Ssl1", "Ssl2", "AcceptServer", "EchoServer_One",
             "EchoServer_Refactor"}
  BY DEF TcpServers, Server
<1> USE DEF Server, Sequential, Concurrent, Op
<1>2. CASE p = "HttpServer"
  BY <1>2 DEF HttpServer
<1>3. CASE p = "BeastHttpServer"
  BY <1>3 DEF BeastHttpServer, HttpServer
<1>4. CASE p = "Daytime" \/ p = "DaytimeEndpoint"
  <2>1. CASE p = "Daytime"
    BY <2>1 DEF Daytime
  <2>2. CASE p = "DaytimeEndpoint"
    BY <2>2 DEF DaytimeEndpoint
  <2>. QED
    BY <1>4, <2>1, <2>2
<1>5. CASE p = "AcceptConnections"
  BY <1>5 DEF AcceptConnections
<1>6. CASE p = "Ssl1" \/ p = "Ssl2"
  <2>1. CASE p = "Ssl1"
    BY <2>1 DEF Ssl1
  <2>2. CASE p = "Ssl2"
    BY <2>2 DEF Ssl2
  <2>. QED
    BY <1>6, <2>1, <2>2
<1>7. CASE p = "AcceptServer"
  BY <1>7 DEF AcceptServer, Echoes
<1>8. CASE p = "EchoServer_One"
  BY <1>8 DEF EchoServer_One, Echoes
<1>9. CASE p = "EchoServer_Refactor"
  BY <1>9 DEF EchoServer_Refactor, Echoes
<1>. QED
  BY <1>1, <1>2, <1>3, <1>4, <1>5, <1>6, <1>7, <1>8, <1>9

\* A step of a client or of the network does not end the server, and nobody who has
\* left comes back.
LEMMA LifeKept ==
  ASSUME TypeInv, Life, UNCHANGED server, at' = at,
         \A c \in Clients : /\ conn[c].peer = "reset" => conn'[c].peer = "reset"
                            /\ conn[c].peer \in {"garbled", "fin"} =>
                                  conn'[c].peer \in {"garbled", "fin", "reset"}
  PROVE  Life'
<1>1. /\ Left({"reset"}) => Left({"reset"})'
      /\ Left({"garbled", "fin", "reset"}) => Left({"garbled", "fin", "reset"})'
  <2>1. ASSUME NEW c \in Clients, conn[c].peer \in {"reset"}
        PROVE  Left({"reset"})'
    BY <2>1 DEF Left
  <2>2. ASSUME NEW c \in Clients, conn[c].peer \in {"garbled", "fin", "reset"}
        PROVE  Left({"garbled", "fin", "reset"})'
    <3>1. conn'[c].peer \in {"garbled", "fin", "reset"}
      BY <2>2
    <3>. QED
      BY <3>1 DEF Left
  <2>. QED
    BY <2>1, <2>2 DEF Left
<1>2. /\ prog' = prog /\ up' = up /\ failed' = failed /\ stopping' = stopping
      /\ late' = late /\ ServerLife
      /\ failed \in BOOLEAN /\ stopping \in BOOLEAN
  BY DEF server, Life, TypeInv
<1>3. Running' <=> Running
  BY <1>2 DEF Running
<1>4. (\E c \in Clients : at[c] = Gone) => \E c \in Clients : at'[c] = Gone
  OBVIOUS
<1>5. ASSUME Running PROVE ServerLife'
  BY <1>2, <1>3, <1>5 DEF ServerLife
<1>6. ASSUME ~Running PROVE ServerLife'
  <2>1. late' <= 1 /\ ~Running'
    BY <1>2, <1>3, <1>6 DEF ServerLife
  <2>2. CASE prog \in {"HttpServer", "BeastHttpServer", "Ssl1"}
    <3>1. failed \/ Left({"garbled", "fin", "reset"})
      BY <1>2, <1>6, <2>2 DEF ServerLife
    <3>2. failed' \/ Left({"garbled", "fin", "reset"})'
      BY <1>1, <1>2, <3>1
    <3>. QED
      BY <1>2, <2>1, <2>2, <3>2 DEF ServerLife
  <2>3. CASE prog = "DaytimeEndpoint"
    <3>1. failed \/ Left({"reset"})
      BY <1>2, <1>6, <2>3 DEF ServerLife
    <3>2. failed' \/ Left({"reset"})'
      BY <1>1, <1>2, <3>1
    <3>. QED
      BY <1>2, <2>1, <2>3, <3>2 DEF ServerLife
  <2>4. CASE prog \notin {"HttpServer", "BeastHttpServer", "Ssl1", "DaytimeEndpoint"}
    <3>1. CASE prog \in {"Ssl2", "EchoServer_One"}
      BY <1>2, <1>6, <2>1, <3>1 DEF ServerLife
    <3>2. CASE prog \in {"Daytime", "AcceptServer", "EchoServer_Refactor"}
      BY <1>2, <1>6, <2>1, <3>2 DEF ServerLife
    <3>3. CASE prog = "AcceptConnections"
      BY <1>2, <1>4, <1>6, <2>1, <3>3 DEF ServerLife
    <3>4. CASE prog = "UdpEcho"
      BY <1>2, <1>6, <3>4 DEF ServerLife
    <3>. QED
      BY <2>4, <3>1, <3>2, <3>3, <3>4 DEF TypeInv, TcpServers, Server
  <2>. QED
    BY <2>2, <2>3, <2>4
<1>7. ServerLife'
  BY <1>5, <1>6
<1>. QED
  BY <1>2, <1>7 DEF Life, Running, Open

\* The error that ends a session
LEMMA FailsBy ==
  ASSUME IInv, Tcp, NEW c \in Clients, Open(c), Prog.runs, Running, Fails(c)
  PROVE  /\ conn[c].peer \in {"garbled", "fin", "closed", "reset"}
         /\ Step(c).op # "leave"
         /\ Step(c).op = "endpoint" => conn[c].peer = "reset"
         /\ conn[c].peer = "closed" => prog \in {"Ssl1", "Ssl2"}
<1>1. conn[c] \in ConnType /\ conn[c].peer # "none" /\ Conn(prog, c, at[c], buf[c], conn[c])
  BY ConnOf
<1>2. conn[c].peer \in {"none", "up", "garbled", "fin", "closed", "reset"}
  BY <1>1, ConnParts
<1>3. conn[c].peer = "closed" => prog \in {"Ssl1", "Ssl2"}
  BY <1>1 DEF Conn
<1>. QED
  BY <1>1, <1>2, <1>3 DEF Fails, At, Connected

\* Of a session: it goes on, or is over, or what ends the server is the error, the end
\* of the one connection, or the end of the one after stop().
LEMMA SessionLife ==
  ASSUME IInv, NEW c \in Clients, Session(c),
         \A e \in Clients : conn'[e].peer = conn[e].peer
  PROVE  Life'
<1>1. /\ Tcp /\ Running /\ Open(c) /\ at \in [Clients -> Int]
      /\ prog' = prog /\ failed' = failed /\ stopping' = stopping /\ late' = late
  BY SessionEffect DEF Session, IInv, TypeInv
<1>2. /\ prog \in TcpServers /\ prog # "UdpEcho" /\ Step(c).error # "deaf"
      /\ \/ Step(c).error = "session"
         \/ Step(c).error = "delete" /\ prog = "Ssl1"
         \/ /\ Step(c).error = "ended"
            /\ \/ prog \in {"HttpServer", "BeastHttpServer"}
               \/ prog = "DaytimeEndpoint" /\ Step(c).op = "endpoint"
               \/ prog = "AcceptConnections" /\ Step(c).op = "leave"
      /\ Prog.once => prog = "AcceptConnections"
  <2>1. prog \in TcpServers /\ at[c] \in 1..Len(Prog.steps)
    BY <1>1, ConnOf
  <2>. QED
    BY <2>1, Errors DEF Step, Prog
<1>3. \/ \E b \in Int : at' = [at EXCEPT ![c] = b] /\ b > 0 /\ up' = up
      \/ Leaves(c)
      \/ SessionFails(c) /\ at' = [at EXCEPT ![c] = Gone] /\ Step(c).error # "session"
  <2>1. Continues(c) \/ SessionFails(c)
    BY DEF Session, Handshake, Read, Write, Other
  <2>2. CASE Continues(c)
    BY <1>1, <2>2, ContinuesTo
  <2>3. CASE SessionFails(c)
    <3>1. CASE Step(c).error = "session"
      BY <2>3, <3>1 DEF SessionFails
    <3>2. CASE Step(c).error = "delete"
      BY <2>3, <3>2 DEF SessionFails
    <3>3. CASE Step(c).error \notin {"session", "delete"}
      BY <2>3, <3>3 DEF SessionFails
    <3>. QED
      BY <3>1, <3>2, <3>3
  <2>. QED
    BY <2>1, <2>2, <2>3
<1>4. CASE \E b \in Int : at' = [at EXCEPT ![c] = b] /\ b > 0 /\ up' = up
  <2>1. Running' /\ \A e \in Clients : Open(e) => Open(e)'
    BY <1>1, <1>4 DEF Open, Running
  <2>2. ServerLife'
    BY <1>1, <2>1 DEF IInv, Life, ServerLife
  <2>. QED
    BY <1>1, <2>1, <2>2 DEF IInv, Life
<1>5. CASE Leaves(c)
  <2>1. /\ at' = [at EXCEPT ![c] = Gone] /\ at'[c] = Gone
        /\ up' = IF Prog.once \/ (prog = "Ssl2" /\ stopping) THEN "ended" ELSE "up"
    BY <1>1, <1>5 DEF Leaves, Running
  <2>2. ServerLife'
    BY <1>1, <1>2, <2>1 DEF IInv, Life, ServerLife, Running
  <2>3. late' = 1 => prog' = "Ssl2" /\ stopping' /\ ~Running'
    BY <1>1, <2>1 DEF IInv, Life, Running
  <2>. QED
    BY <1>1, <2>2, <2>3 DEF IInv, Life, Running
<1>6. CASE SessionFails(c) /\ at' = [at EXCEPT ![c] = Gone] /\ Step(c).error # "session"
  <2>1. /\ conn[c].peer \in {"garbled", "fin", "closed", "reset"}
        /\ Step(c).op # "leave"
        /\ Step(c).op = "endpoint" => conn[c].peer = "reset"
        /\ conn[c].peer = "closed" => prog \in {"Ssl1", "Ssl2"}
    BY <1>1, <1>6, FailsBy DEF SessionFails
  <2>2. /\ Step(c).error = "delete" =>
              up' = IF conn[c].peer = "closed" THEN "up" ELSE "terminated"
        /\ Step(c).error = "ended" => up' = "ended"
    BY <1>1, <1>6 DEF SessionFails, Running
  <2>3. Left({"garbled", "fin", "reset"})' <=> Left({"garbled", "fin", "reset"})
    BY DEF Left
  <2>4. conn[c].peer \in {"garbled", "fin", "reset"} => Left({"garbled", "fin", "reset"})
    BY DEF Left
  <2>5. conn[c].peer = "reset" => Left({"reset"})'
    BY DEF Left
  <2>6. ServerLife'
    BY <1>1, <1>2, <1>6, <2>1, <2>2, <2>3, <2>4, <2>5 DEF IInv, Life, ServerLife, Running
  <2>7. late' = 0 /\ ~stopping'
    BY <1>1, <1>2, <1>6 DEF IInv, Life, TypeInv
  <2>. QED
    BY <1>1, <2>6, <2>7 DEF IInv, Life
<1>. QED
  BY <1>3, <1>4, <1>5, <1>6

(* Every step keeps the invariant.                                         *)

\* A server of the table is not ServerAsync.
LEMMA TcpOrUdp ==
  ASSUME TypeInv
  PROVE  (Tcp => prog # "UdpEcho") /\ (~Tcp => prog = "UdpEcho")
<1>1. "UdpEcho" \notin TcpServers
  BY Errors
<1>. QED
  BY <1>1 DEF TypeInv, Tcp, TcpServers

\* The queue does not change, and who waits in it has no session still.
LEMMA QueueKept ==
  ASSUME TypeInv, QueueInv, queue' = queue,
         \A c \in Clients : at[c] = 0 => at'[c] = 0,
         \A c \in Clients : conn[c].peer # "none" => conn'[c].peer # "none"
  PROVE  QueueInv'
<1>1. \A i \in DOMAIN queue : queue[i] \in Clients
  BY LenProperties, ElementOfSeq DEF TypeInv
<1>. QED
  BY <1>1 DEF QueueInv

\* A session is made for the connection that waits longest.
LEMMA AcceptConn ==
  ASSUME NEW p \in TcpServers, NEW c \in Clients, NEW d, NEW cn,
         Conn(p, c, 0, d, cn), cn.peer # "none"
  PROVE  Conn(p, c, 1, d, cn)
<1>1. WellFormed(p, Server[p])
  BY Tables
<1>2. /\ Len(Server[p].steps) \in Nat \ {0} /\ Server[p].echo \in BOOLEAN
      /\ Writes(p, 1) => p \in Daytimes
      /\ ~Writes(p, 0)
  BY <1>1 DEF WellFormed, Writes
<1>3. ASSUME Server[p].echo PROVE EchoConn(p, c, 1, d, cn)
  <2>1. EchoConn(p, c, 0, d, cn) /\ 0 # Gone
    BY <1>3 DEF Conn, Gone
  <2>. QED
    BY <1>2, <2>1 DEF EchoConn
<1>4. ASSUME ~Server[p].echo PROVE AnswerConn(p, 1, cn)
  BY <1>2, <1>4 DEF Conn, AnswerConn, Gone
<1>. QED
  BY <1>2, <1>3, <1>4 DEF Conn

\* The connection that waited longest has a session.
LEMMA AcceptStep ==
  ASSUME IInv, AcceptOne
  PROVE  IInv'
<1> DEFINE q == Tail(queue)
<1>0. queue # << >> /\ queue \in Seq(Clients)
  BY DEF AcceptOne, IInv, TypeInv
<1> PICK h \in Clients : h = Head(queue)
  BY <1>0, HeadTailProperties
<1>1. /\ Tcp /\ Running /\ queue # << >> /\ queue \in Seq(Clients) /\ QueueInv
      /\ at' = [at EXCEPT ![h] = 1] /\ queue' = q
      /\ late' = IF stopping THEN late + 1 ELSE late
      /\ UNCHANGED <<prog, up, listening, failed, stopping, buf, conn, udp>>
  BY DEF AcceptOne, Accepting, IInv, TypeInv, TcpInv
<1>2. /\ Len(queue) \in Nat \ {0} /\ DOMAIN queue = 1..Len(queue)
      /\ \A i \in 1..Len(queue) : queue[i] \in Clients
      /\ h = queue[1]
      /\ q \in Seq(Clients) /\ DOMAIN q = 1..(Len(queue) - 1)
      /\ \A i \in 1..(Len(queue) - 1) : q[i] = queue[i + 1]
  BY <1>1, EmptySeq, LenProperties, ElementOfSeq, HeadTailProperties
<1> HIDE DEF q
<1>3. at[h] = 0 /\ conn[h].peer # "none"
  BY <1>1, <1>2 DEF QueueInv
<1>4. /\ prog \in TcpServers /\ conn[h] \in ConnType /\ buf[h] \in Seq(Msg)
      /\ Conn(prog, h, 1, buf[h], conn[h])
      /\ buf' = [buf EXCEPT ![h] = buf[h]] /\ conn' = [conn EXCEPT ![h] = conn[h]]
  <2>1. /\ prog \in TcpServers /\ conn[h] \in ConnType /\ buf[h] \in Seq(Msg)
        /\ Conn(prog, h, 0, buf[h], conn[h])
    BY <1>1, <1>2, <1>3, ConnOf
  <2>2. Conn(prog, h, 1, buf[h], conn[h])
    BY <1>2, <1>3, <2>1, AcceptConn
  <2>3. buf' = [buf EXCEPT ![h] = buf[h]] /\ conn' = [conn EXCEPT ![h] = conn[h]]
    BY <1>1 DEF IInv, TypeInv
  <2>. QED
    BY <2>1, <2>2, <2>3
<1>5. /\ at' \in [Clients -> Int] /\ buf' \in [Clients -> Seq(Msg)]
      /\ conn' \in [Clients -> ConnType]
      /\ \A e \in Clients : Conn(prog', e, at'[e], buf'[e], conn'[e])
      /\ at'[h] = 1
      /\ \A e \in Clients \ {h} : at'[e] = at[e] /\ conn'[e] = conn[e]
  <2>1. PICK a \in Int, d \in Seq(Msg), cn \in ConnType :
          a = 1 /\ d = buf[h] /\ cn = conn[h]
    BY <1>4
  <2>2. /\ at' = [at EXCEPT ![h] = a] /\ buf' = [buf EXCEPT ![h] = d]
        /\ conn' = [conn EXCEPT ![h] = cn]
        /\ Conn(prog, h, a, d, cn) /\ Tcp /\ prog' = prog
    BY <1>1, <1>4, <2>1
  <2>3. /\ at' \in [Clients -> Int] /\ buf' \in [Clients -> Seq(Msg)]
        /\ conn' \in [Clients -> ConnType]
        /\ \A e \in Clients : Conn(prog', e, at'[e], buf'[e], conn'[e])
        /\ at'[h] = a
        /\ \A e \in Clients \ {h} : at'[e] = at[e] /\ conn'[e] = conn[e]
    BY <2>2, ConnUpdate
  <2>. QED
    BY <2>1, <2>3
<1>6. QueueInv'
  <2>1. ASSUME NEW i \in DOMAIN q
        PROVE  /\ i \in Nat /\ i + 1 \in DOMAIN queue /\ q[i] = queue[i + 1]
               /\ q[i] \in Clients \ {h}
               /\ at[q[i]] = 0 /\ conn[q[i]].peer # "none"
    <3>1. /\ i \in Nat /\ i + 1 \in DOMAIN queue /\ q[i] = queue[i + 1]
          /\ 1 \in DOMAIN queue /\ i + 1 # 1
      BY <1>2
    <3>2. queue[i + 1] # queue[1]
      BY <1>1, <3>1 DEF QueueInv
    <3>. QED
      BY <1>1, <1>2, <3>1, <3>2 DEF QueueInv
  <2>2. \A i \in DOMAIN q : at'[q[i]] = 0 /\ conn'[q[i]].peer # "none"
    BY <1>5, <2>1
  <2>3. ASSUME NEW i \in DOMAIN q, NEW j \in DOMAIN q, q[i] = q[j] PROVE i = j
    <3>1. queue[i + 1] = queue[j + 1] /\ i + 1 \in DOMAIN queue /\ j + 1 \in DOMAIN queue
      BY <2>1, <2>3
    <3>2. i + 1 = j + 1
      BY <1>1, <3>1 DEF QueueInv
    <3>. QED
      BY <2>1, <3>2
  <2>. QED
    BY <1>1, <2>2, <2>3 DEF QueueInv
<1>7. Life' /\ late' \in {0, 1}
  <2>1. CASE stopping
    <3>1. prog = "Ssl2" /\ \A c \in Clients : ~Open(c)
      <4>1. prog = "Ssl2"
        BY <1>1, <2>1 DEF IInv, Life
      <4>2. ~Prog.many
        BY <1>4, <4>1, Errors DEF Prog
      <4>. QED
        BY <4>1, <4>2 DEF AcceptOne, Accepting
    <3>2. late = 0 /\ late' = 1
      <4>1. late \in {0, 1} /\ late # 1
        BY <1>1, <3>1 DEF IInv, TypeInv, Life
      <4>. QED
        BY <1>1, <2>1, <4>1
    <3>3. Open(h)'
      BY <1>5 DEF Open
    <3>4. ServerLife'
      BY <1>1, <3>2 DEF ServerLife, Running
    <3>5. \E c \in Clients : Open(c)'
      BY <1>2, <3>3
    <3>. QED
      BY <1>1, <2>1, <3>1, <3>2, <3>4, <3>5 DEF IInv, Life
  <2>2. CASE ~stopping
    <3>1. late = 0 /\ late' = 0
      BY <1>1, <2>2 DEF IInv, TypeInv, Life
    <3>2. ServerLife'
      BY <1>1, <3>1 DEF ServerLife, Running
    <3>. QED
      BY <1>1, <2>2, <3>1, <3>2 DEF Life, Running
  <2>. QED
    BY <2>1, <2>2 DEF IInv, TypeInv
<1>8. prog' # "UdpEcho"
  BY <1>1, TcpOrUdp DEF IInv
<1>. QED
  BY <1>1, <1>2, <1>5, <1>6, <1>7, <1>8 DEF IInv, TypeInv, TcpInv, UdpInv

\* A session changes its connection, and ends the server for a reason.
LEMMA SessionStep ==
  ASSUME IInv, NEW c \in Clients, Session(c)
  PROVE  IInv'
<1>1. Tcp /\ Running /\ Open(c)
  BY SessionEffect
<1>2. PICK b \in Int, d \in Seq(Msg), cn \in ConnType :
        /\ at' = [at EXCEPT ![c] = b] /\ buf' = [buf EXCEPT ![c] = d]
        /\ conn' = [conn EXCEPT ![c] = cn]
        /\ Conn(prog, c, b, d, cn) /\ cn.peer = conn[c].peer
  BY SessionEffect
<1>3. UNCHANGED <<prog, listening, failed, stopping, late, queue, udp>>
  BY DEF Session
<1>4. /\ at' \in [Clients -> Int] /\ buf' \in [Clients -> Seq(Msg)]
      /\ conn' \in [Clients -> ConnType]
      /\ \A e \in Clients : Conn(prog', e, at'[e], buf'[e], conn'[e])
      /\ conn'[c] = cn
      /\ \A e \in Clients \ {c} : at'[e] = at[e] /\ conn'[e] = conn[e]
  BY <1>1, <1>2, <1>3, ConnUpdate
<1>5. \A e \in Clients : conn'[e].peer = conn[e].peer
  BY <1>2, <1>4
<1>6. Life'
  BY <1>5, SessionLife
<1>7. QueueInv'
  <2>1. \A e \in Clients : at[e] = 0 => at'[e] = 0
    BY <1>1, <1>4 DEF Open
  <2>. QED
    BY <1>1, <1>3, <1>5, <2>1, QueueKept DEF IInv, TcpInv
<1>8. up' \in {"up", "ended", "terminated"}
  <2>1. prog \in TcpServers /\ at[c] \in 1..Len(Prog.steps)
    BY <1>1, ConnOf
  <2>2. Step(c).error \in {"session", "delete", "ended"}
    BY <2>1, Errors DEF Step, Prog
  <2>3. Leaves(c) => up' \in {"up", "ended", "terminated"}
    BY DEF Leaves, IInv, TypeInv
  <2>4. CASE Continues(c)
    BY <1>1, <2>3, <2>4, ContinuesTo DEF IInv, TypeInv
  <2>5. CASE SessionFails(c)
    <3>1. CASE Step(c).error = "session"
      BY <2>3, <2>5, <3>1 DEF SessionFails
    <3>2. CASE Step(c).error = "delete"
      BY <2>5, <3>2 DEF SessionFails, IInv, TypeInv
    <3>3. CASE Step(c).error = "ended"
      BY <2>5, <3>3 DEF SessionFails
    <3>. QED
      BY <2>2, <3>1, <3>2, <3>3
  <2>. QED
    BY <2>4, <2>5 DEF Session, Handshake, Read, Write, Other
<1>9. prog' # "UdpEcho"
  BY <1>1, <1>3, TcpOrUdp DEF IInv
<1>. QED
  BY <1>3, <1>4, <1>6, <1>7, <1>8, <1>9 DEF IInv, TypeInv, TcpInv, UdpInv

(* The clients of a TCP server.                                            *)

\* A message that is sent waits behind the others.
LEMMA SayConn ==
  ASSUME NEW p \in TcpServers, NEW c \in Clients, NEW a, NEW d \in Seq(Msg),
         NEW cn \in ConnType, Conn(p, c, a, d, cn), cn.peer = "up",
         NEW cm \in ConnType, cm.peer = cn.peer, cm.hello = cn.hello,
         cm.sent = cn.sent + 1, cm.out = cn.out,
         cm.inb = Append(cn.inb, <<c, cn.sent + 1>>)
  PROVE  Conn(p, c, a, d, cm)
<1>1. /\ cn.sent \in Nat /\ cn.inb \in Seq(Msg) /\ cn.out \in Seq(Msg)
      /\ Server[p].echo \in BOOLEAN
  BY ConnParts, Tables DEF WellFormed
<1>2. cm.sent > 0 /\ <<c, cn.sent + 1>> \in Msg
  BY <1>1 DEF Msg
<1>3. ASSUME Server[p].echo PROVE EchoConn(p, c, a, d, cm)
  <2>1. EchoConn(p, c, a, d, cn)
    BY <1>3 DEF Conn
  <2>2. IsPrefix(cm.out, Stream(c, cm.sent))
    BY <1>1, <2>1, StreamPrefix DEF EchoConn
  <2>3. ASSUME a # Gone PROVE cm.out \o d \o cm.inb = Stream(c, cm.sent)
    <3>1. cn.out \o d \o cn.inb = Stream(c, cn.sent)
      BY <2>1, <2>3 DEF EchoConn
    <3>2. cn.out \o d \o Append(cn.inb, <<c, cn.sent + 1>>)
            = Append(cn.out \o d \o cn.inb, <<c, cn.sent + 1>>)
      BY <1>1, <1>2, SayFlow
    <3>. QED
      BY <1>1, <3>1, <3>2, StreamIs
  <2>. QED
    BY <2>1, <2>2, <2>3 DEF EchoConn
<1>4. ASSUME ~Server[p].echo PROVE AnswerConn(p, a, cm)
  <2>1. AnswerConn(p, a, cn)
    BY <1>4 DEF Conn
  <2>. QED
    BY <1>2, <2>1 DEF AnswerConn
<1>. QED
  BY <1>1, <1>2, <1>3, <1>4 DEF Conn

\* A client connects, shakes hands or leaves: its data stays where it is.
LEMMA PeerConn ==
  ASSUME NEW p \in TcpServers, NEW c \in Clients, NEW a, NEW d,
         NEW cn \in ConnType, Conn(p, c, a, d, cn),
         NEW cm \in ConnType, cm.sent = cn.sent, cm.inb = cn.inb, cm.out = cn.out,
         cm.peer # "none",
         cm.peer \in {"up", "garbled"} => cn.peer \in {"none", "up", "garbled"},
         cm.hello => p \in {"Ssl1", "Ssl2"}, cm.peer = "closed" => cm.hello
  PROVE  Conn(p, c, a, d, cm)
<1>1. Server[p].echo \in BOOLEAN
  BY Tables DEF WellFormed
<1>2. ASSUME Server[p].echo PROVE EchoConn(p, c, a, d, cm)
  BY <1>2 DEF Conn, EchoConn
<1>3. ASSUME ~Server[p].echo PROVE AnswerConn(p, a, cm)
  BY <1>3 DEF Conn, AnswerConn
<1>. QED
  BY <1>1, <1>2, <1>3 DEF Conn

\* What a client of a TCP server does to its connection.
LEMMA ClientEffect ==
  ASSUME IInv, Tcp, NEW c \in Clients, Client(c)
  PROVE  /\ UNCHANGED <<server, at, buf, udp>>
         /\ \E cn \in ConnType :
               /\ conn' = [conn EXCEPT ![c] = cn]
               /\ Conn(prog, c, at[c], buf[c], cn) /\ cn.peer # "none"
               /\ conn[c].peer = "reset" => cn.peer = "reset"
               /\ conn[c].peer \in {"garbled", "fin"} =>
                     cn.peer \in {"garbled", "fin", "reset"}
         /\ queue' = queue \/ (queue' = Append(queue, c) /\ conn[c].peer = "none")
<1>1. /\ prog \in TcpServers /\ conn[c] \in ConnType /\ buf[c] \in Seq(Msg)
      /\ Conn(prog, c, at[c], buf[c], conn[c])
      /\ conn \in [Clients -> ConnType]
  BY ConnOf DEF IInv, TypeInv
<1>2. /\ conn[c].sent \in Nat /\ conn[c].sent \in 0..MaxMsgs
      /\ conn[c].inb \in Seq(Msg) /\ conn[c].out \in Seq(Msg)
      /\ conn[c].hello \in BOOLEAN
      /\ conn[c].hello => prog \in {"Ssl1", "Ssl2"}
      /\ conn[c].peer = "closed" => conn[c].hello
  BY <1>1, ConnParts DEF Conn
<1>3. CASE Connect(c)
  <2> DEFINE cm == [conn[c] EXCEPT !.peer = "up"]
  <2>1. /\ conn' = [conn EXCEPT ![c] = cm] /\ conn[c].peer = "none"
        /\ queue' = Append(queue, c) /\ UNCHANGED <<server, at, buf, udp>>
    BY <1>1, <1>3 DEF Connect
  <2>2. /\ cm \in ConnType /\ cm.peer = "up" /\ cm.hello = conn[c].hello
        /\ cm.sent = conn[c].sent /\ cm.inb = conn[c].inb /\ cm.out = conn[c].out
    BY <1>1 DEF ConnType
  <2> HIDE DEF cm
  <2>3. Conn(prog, c, at[c], buf[c], cm)
    BY <1>1, <1>2, <2>1, <2>2, PeerConn
  <2>. QED
    BY <2>1, <2>2, <2>3
<1>4. CASE Hello(c)
  <2> DEFINE cm == [conn[c] EXCEPT !.hello = TRUE]
  <2>1. /\ conn' = [conn EXCEPT ![c] = cm] /\ conn[c].peer = "up"
        /\ prog \in {"Ssl1", "Ssl2"}
        /\ queue' = queue /\ UNCHANGED <<server, at, buf, udp>>
    BY <1>1, <1>4 DEF Hello, Tls
  <2>2. /\ cm \in ConnType /\ cm.peer = "up" /\ cm.hello
        /\ cm.sent = conn[c].sent /\ cm.inb = conn[c].inb /\ cm.out = conn[c].out
    BY <1>1, <2>1 DEF ConnType
  <2> HIDE DEF cm
  <2>3. Conn(prog, c, at[c], buf[c], cm)
    BY <1>1, <2>1, <2>2, PeerConn
  <2>. QED
    BY <2>1, <2>2, <2>3
<1>5. CASE Say(c)
  <2> DEFINE w == Append(conn[c].inb, <<c, conn[c].sent + 1>>)
             cm == [conn[c] EXCEPT !.sent = conn[c].sent + 1, !.inb = w]
  <2>1. /\ conn' = [conn EXCEPT ![c] = cm] /\ conn[c].peer = "up"
        /\ conn[c].sent + 1 \in 0..MaxMsgs
        /\ queue' = queue /\ UNCHANGED <<server, at, buf, udp>>
    <3>1. /\ conn[c].sent < MaxMsgs /\ conn[c].peer = "up"
          /\ UNCHANGED <<server, queue, at, buf, udp>>
          /\ conn' = [conn EXCEPT ![c].sent = @ + 1,
                                  ![c].inb = Append(@, <<c, conn[c].sent + 1>>)]
      BY <1>5 DEF Say
    <3>2. conn' = [conn EXCEPT ![c] = cm]
      BY <1>1, <3>1
    <3>3. conn[c].sent + 1 \in 0..MaxMsgs
      BY <1>2, <3>1, BoundAssumption
    <3>. QED
      BY <3>1, <3>2, <3>3
  <2>2. w \in Seq(Msg)
    <3>1. <<c, conn[c].sent + 1>> \in Msg
      BY <1>2 DEF Msg
    <3>. QED
      BY <1>2, <3>1, AppendProperties
  <2> HIDE DEF w
  <2>3. /\ cm \in ConnType /\ cm.peer = "up" /\ cm.hello = conn[c].hello
        /\ cm.sent = conn[c].sent + 1 /\ cm.inb = w /\ cm.out = conn[c].out
    BY <1>1, <2>1, <2>2 DEF ConnType
  <2> HIDE DEF cm
  <2>4. Conn(prog, c, at[c], buf[c], cm)
    BY <1>1, <2>1, <2>3, SayConn DEF w
  <2>. QED
    BY <2>1, <2>3, <2>4
<1>6. CASE SayNothing(c)
  BY <1>1, <1>6, TcpOrUdp DEF SayNothing, IInv
<1>7. CASE Garble(c) \/ Leave(c)
  <2>1. PICK how \in {"garbled", "fin", "closed", "reset"} :
          /\ conn' = [conn EXCEPT ![c].peer = how]
          /\ how = "closed" => conn[c].peer = "up" /\ conn[c].hello
          /\ how = "garbled" => conn[c].peer = "up"
          /\ how # "reset" => conn[c].peer \in {"up", "garbled"}
    BY <1>7 DEF Garble, Leave, Connected
  <2> DEFINE cm == [conn[c] EXCEPT !.peer = how]
  <2>2. /\ conn' = [conn EXCEPT ![c] = cm]
        /\ queue' = queue /\ UNCHANGED <<server, at, buf, udp>>
    BY <1>1, <1>7, <2>1 DEF Garble, Leave
  <2>3. /\ cm \in ConnType /\ cm.peer = how /\ cm.hello = conn[c].hello
        /\ cm.sent = conn[c].sent /\ cm.inb = conn[c].inb /\ cm.out = conn[c].out
    BY <1>1 DEF ConnType
  <2> HIDE DEF cm
  <2>4. Conn(prog, c, at[c], buf[c], cm)
    BY <1>1, <1>2, <2>1, <2>3, PeerConn
  <2>. QED
    BY <2>1, <2>2, <2>3, <2>4
<1>. QED
  BY <1>3, <1>4, <1>5, <1>6, <1>7 DEF Client

\* A new connection waits behind the others, and did not wait before.
LEMMA QueueGrows ==
  ASSUME TypeInv, QueueInv, NEW c \in Clients, conn[c].peer = "none", at[c] = 0,
         queue' = Append(queue, c), at' = at, conn'[c].peer # "none",
         \A e \in Clients : conn[e].peer # "none" => conn'[e].peer # "none"
  PROVE  queue' \in Seq(Clients) /\ QueueInv'
<1> DEFINE q == Append(queue, c)
           n == Len(queue)
<1>1. /\ n \in Nat /\ DOMAIN queue = 1..n /\ \A i \in 1..n : queue[i] \in Clients
      /\ q \in Seq(Clients) /\ DOMAIN q = 1..(n + 1)
      /\ \A i \in 1..n : q[i] = queue[i]
      /\ q[n + 1] = c
  BY LenProperties, ElementOfSeq, AppendProperties DEF TypeInv
<1> HIDE DEF q, n
<1>2. queue' = q
  BY DEF q
<1>3. \A i \in 1..n : /\ queue[i] # c /\ at[queue[i]] = 0
                       /\ conn'[queue[i]].peer # "none"
  BY <1>1 DEF QueueInv
<1>4. \A i \in 1..(n + 1) : i \in 1..n \/ i = n + 1
  BY <1>1
<1>5. \A i \in 1..(n + 1) : at[q[i]] = 0 /\ conn'[q[i]].peer # "none"
  BY <1>1, <1>3, <1>4
<1>6. ASSUME NEW i \in 1..(n + 1), NEW j \in 1..(n + 1), q[i] = q[j] PROVE i = j
  <2>1. CASE i \in 1..n /\ j \in 1..n
    BY <1>1, <1>6, <2>1 DEF QueueInv
  <2>2. CASE i = n + 1 /\ j = n + 1
    BY <2>2
  <2>3. CASE i \in 1..n /\ j = n + 1
    BY <1>1, <1>3, <1>6, <2>3
  <2>4. CASE i = n + 1 /\ j \in 1..n
    BY <1>1, <1>3, <1>6, <2>4
  <2>. QED
    BY <1>4, <2>1, <2>2, <2>3, <2>4
<1>. QED
  BY <1>1, <1>2, <1>5, <1>6 DEF QueueInv

\* A client of a TCP server changes its connection only.
LEMMA ClientStep ==
  ASSUME IInv, Tcp, NEW c \in Clients, Client(c)
  PROVE  IInv'
<1>1. PICK cn \in ConnType :
        /\ conn' = [conn EXCEPT ![c] = cn]
        /\ Conn(prog, c, at[c], buf[c], cn) /\ cn.peer # "none"
        /\ conn[c].peer = "reset" => cn.peer = "reset"
        /\ conn[c].peer \in {"garbled", "fin"} =>
              cn.peer \in {"garbled", "fin", "reset"}
  BY ClientEffect
<1>2. /\ UNCHANGED server /\ at' = at /\ buf' = buf
      /\ queue' = queue \/ (queue' = Append(queue, c) /\ conn[c].peer = "none")
  BY ClientEffect
<1>3. /\ UNCHANGED <<prog, up, listening, failed, stopping, late>>
      /\ TypeInv /\ QueueInv /\ Life
  BY <1>2 DEF server, IInv, TcpInv
<1>4. /\ conn' \in [Clients -> ConnType]
      /\ \A e \in Clients : Conn(prog', e, at'[e], buf'[e], conn'[e])
      /\ conn'[c] = cn
      /\ \A e \in Clients \ {c} : conn'[e] = conn[e]
  <2>1. PICK a \in Int, d \in Seq(Msg) : a = at[c] /\ d = buf[c]
    BY <1>3 DEF TypeInv
  <2>2. /\ at' = [at EXCEPT ![c] = a] /\ buf' = [buf EXCEPT ![c] = d]
        /\ conn' = [conn EXCEPT ![c] = cn]
        /\ Conn(prog, c, a, d, cn) /\ prog' = prog
    BY <1>1, <1>2, <1>3, <2>1 DEF TypeInv
  <2>. QED
    BY <2>2, ConnUpdate
<1>5. \A e \in Clients : /\ conn[e].peer = "reset" => conn'[e].peer = "reset"
                         /\ conn[e].peer \in {"garbled", "fin"} =>
                               conn'[e].peer \in {"garbled", "fin", "reset"}
                         /\ conn[e].peer # "none" => conn'[e].peer # "none"
  BY <1>1, <1>4
<1>6. Life'
  BY <1>2, <1>3, <1>5, LifeKept
<1>7. queue' \in Seq(Clients) /\ QueueInv'
  <2>1. CASE queue' = queue
    <3>1. \A e \in Clients : at[e] = 0 => at'[e] = 0
      BY <1>2
    <3>2. QueueInv'
      BY <1>3, <1>5, <2>1, <3>1, QueueKept
    <3>. QED
      BY <1>3, <2>1, <3>2 DEF TypeInv
  <2>2. CASE queue' = Append(queue, c) /\ conn[c].peer = "none"
    <3>1. at[c] = 0 /\ conn'[c].peer # "none"
      BY <1>1, <1>4, <2>2, ConnOf DEF Conn
    <3>. QED
      BY <1>2, <1>3, <1>5, <2>2, <3>1, QueueGrows
  <2>. QED
    BY <1>2, <2>1, <2>2
<1>8. prog' # "UdpEcho"
  BY <1>3, TcpOrUdp
<1>. QED
  BY <1>2, <1>3, <1>4, <1>6, <1>7, <1>8 DEF IInv, TypeInv, TcpInv, UdpInv

(* The ends of a server.                                                   *)

\* A failed accept ends the server, the process, or the listener of EchoServer_One.
LEMMA AcceptFailsStep ==
  ASSUME IInv, AcceptFails
  PROVE  IInv'
<1>1. /\ Tcp /\ Running /\ TypeInv /\ Life /\ failed' = TRUE
      /\ UNCHANGED <<prog, stopping, late, queue, at, buf, conn, udp>>
  BY DEF AcceptFails, Accepting, IInv
<1>2. prog \in TcpServers /\ prog # "UdpEcho"
  BY <1>1, TcpOrUdp DEF Tcp, TcpServers
<1>3. IF prog = "EchoServer_One" THEN Prog.onAccept = "deaf"
      ELSE /\ Prog.onAccept \in {"ended", "terminated"}
           /\ prog = "AcceptConnections" => Prog.onAccept = "terminated"
  BY <1>2, Errors DEF Prog
<1>4. /\ listening' \in BOOLEAN
      /\ up' \in {"up", "ended", "terminated"}
      /\ prog = "EchoServer_One" => up' = "up"
      /\ prog = "AcceptConnections" => up' = "terminated"
  <2>1. CASE prog = "EchoServer_One"
    BY <1>1, <1>3, <2>1 DEF AcceptFails, TypeInv, Running
  <2>2. CASE prog # "EchoServer_One"
    BY <1>1, <1>3, <2>2 DEF AcceptFails, TypeInv
  <2>. QED
    BY <2>1, <2>2
<1>5. ServerLife'
  <2>1. late' <= 1
    BY <1>1 DEF Life, ServerLife
  <2>2. CASE prog = "EchoServer_One"
    BY <1>1, <1>4, <2>1, <2>2 DEF ServerLife, Running
  <2>3. CASE prog = "AcceptConnections"
    BY <1>1, <1>4, <2>1, <2>3 DEF ServerLife
  <2>4. CASE prog \notin {"EchoServer_One", "AcceptConnections"}
    <3>1. prog \in {"HttpServer", "BeastHttpServer", "Daytime", "DaytimeEndpoint",
                    "Ssl1", "Ssl2", "AcceptServer", "EchoServer_Refactor"}
      BY <1>2, <2>4 DEF TcpServers, Server
    <3>. QED
      BY <1>1, <2>1, <3>1 DEF ServerLife
  <2>. QED
    BY <2>2, <2>3, <2>4
<1>6. Life'
  BY <1>1, <1>5 DEF Life, Running, Open
<1>7. TcpInv'
  BY <1>1, <1>2 DEF IInv, TcpInv, QueueInv, Tcp
<1>. QED
  BY <1>1, <1>2, <1>4, <1>6, <1>7 DEF IInv, TypeInv, UdpInv

\* After stop() the TLS server goes on, the coroutine servers do not.
LEMMA StopStep ==
  ASSUME IInv, Stop
  PROVE  IInv'
<1>1. /\ Running /\ ~stopping /\ stopping' = TRUE /\ TypeInv /\ Life
      /\ prog \in {"Ssl2", "EchoServer_One", "EchoServer_Refactor"}
      /\ up' = IF prog = "Ssl2" THEN up ELSE "ended"
      /\ UNCHANGED <<prog, listening, failed, late, queue, at, buf, conn, udp>>
  BY DEF Stop, IInv
<1>2. late' # 1
  BY <1>1 DEF Life
<1>3. ServerLife'
  <2>1. late' <= 1
    BY <1>1 DEF Life, ServerLife
  <2>. QED
    BY <1>1, <2>1 DEF ServerLife
<1>4. Life'
  BY <1>1, <1>2, <1>3 DEF Life, Running
<1>5. TcpInv'
  BY <1>1 DEF IInv, TcpInv, QueueInv, Tcp
<1>. QED
  BY <1>1, <1>4, <1>5 DEF IInv, TypeInv, UdpInv

(* ServerAsync.                                                            *)

\* What is left of a sequence were its elements.
LEMMA Removed ==
  ASSUME NEW s \in Seq(Msg), NEW k \in DOMAIN s
  PROVE  /\ RemoveAt(s, k) \in Seq(Msg)
         /\ \A i \in DOMAIN RemoveAt(s, k) : \E j \in DOMAIN s : RemoveAt(s, k)[i] = s[j]
<1> DEFINE u == SubSeq(s, 1, k - 1)
           v == SubSeq(s, k + 1, Len(s))
<1>1. /\ Len(s) \in Nat /\ DOMAIN s = 1..Len(s) /\ \A i \in 1..Len(s) : s[i] \in Msg
  BY LenProperties, ElementOfSeq
<1>2. k \in 1..Len(s) /\ k - 1 \in Nat /\ k + 1 \in Nat
  BY <1>1
<1>3. /\ \A i \in 1..(k - 1) : s[i] \in Msg
      /\ \A i \in (k + 1)..Len(s) : s[i] \in Msg
  BY <1>1, <1>2
<1>4. /\ u \in Seq(Msg) /\ Len(u) = k - 1
      /\ \A i \in 1..(k - 1) : u[i] = s[i]
  BY <1>2, <1>3, SubSeqProperties
<1>5. /\ v \in Seq(Msg) /\ Len(v) = Len(s) - k
      /\ \A i \in 1..(Len(s) - k) : v[i] = s[k + i]
  <2>1. v \in Seq(Msg) /\ Len(v) = IF k + 1 <= Len(s) THEN Len(s) - (k + 1) + 1 ELSE 0
    BY <1>1, <1>2, <1>3, SubSeqProperties
  <2>2. \A i \in 1..Len(v) : v[i] = s[(k + 1) + i - 1]
    BY <1>1, <1>2, <1>3, SubSeqProperties
  <2> HIDE DEF v
  <2>3. Len(v) = Len(s) - k
    BY <1>1, <1>2, <2>1
  <2>4. ASSUME NEW i \in 1..(Len(s) - k) PROVE v[i] = s[k + i]
    <3>1. i \in 1..Len(v) /\ (k + 1) + i - 1 = k + i
      BY <1>2, <2>3
    <3>. QED
      BY <2>2, <3>1
  <2>. QED
    BY <2>1, <2>3, <2>4
<1> HIDE DEF u, v
<1>6. /\ u \o v \in Seq(Msg) /\ DOMAIN (u \o v) = 1..(Len(s) - 1)
      /\ \A i \in 1..(Len(s) - 1) :
            (u \o v)[i] = IF i <= k - 1 THEN u[i] ELSE v[i - (k - 1)]
  <2>1. Len(u) + Len(v) = Len(s) - 1
    BY <1>1, <1>2, <1>4, <1>5
  <2>2. /\ u \o v \in Seq(Msg) /\ Len(u \o v) = Len(u) + Len(v)
        /\ \A i \in 1..(Len(u) + Len(v)) :
              (u \o v)[i] = IF i <= Len(u) THEN u[i] ELSE v[i - Len(u)]
    BY <1>4, <1>5, ConcatProperties
  <2>3. DOMAIN (u \o v) = 1..Len(u \o v)
    BY <2>2, LenProperties
  <2>. QED
    BY <1>4, <2>1, <2>2, <2>3
<1>7. ASSUME NEW i \in 1..(Len(s) - 1) PROVE \E j \in 1..Len(s) : (u \o v)[i] = s[j]
  <2>1. CASE i <= k - 1
    <3>1. i \in 1..(k - 1) /\ i \in 1..Len(s)
      BY <1>1, <1>2, <2>1
    <3>. QED
      BY <1>4, <1>6, <2>1, <3>1
  <2>2. CASE ~(i <= k - 1)
    <3>1. /\ i - (k - 1) \in 1..(Len(s) - k) /\ k + (i - (k - 1)) = i + 1
          /\ i + 1 \in 1..Len(s)
      BY <1>1, <1>2, <2>2
    <3>2. v[i - (k - 1)] = s[i + 1]
      BY <1>5, <3>1
    <3>. QED
      BY <1>6, <2>2, <3>1, <3>2
  <2>. QED
    BY <2>1, <2>2
<1>8. RemoveAt(s, k) = u \o v
  BY DEF RemoveAt, u, v
<1>. QED
  BY <1>1, <1>6, <1>7, <1>8

\* Every datagram is still one of its client when the client has sent more.
LEMMA UdpUpdate ==
  ASSUME IInv, prog = "UdpEcho", NEW c \in Clients, NEW cn \in ConnType,
         conn' = [conn EXCEPT ![c] = cn], cn.sent >= conn[c].sent,
         \A i \in DOMAIN cn.inb : Datagram(cn.inb[i], c, 0, cn),
         \A i \in DOMAIN cn.out : Datagram(cn.out[i], c, 1, cn)
  PROVE  /\ conn' \in [Clients -> ConnType] /\ conn'[c] = cn
         /\ \A e \in Clients \ {c} : conn'[e] = conn[e]
         /\ \A e \in Clients :
               /\ \A i \in DOMAIN conn'[e].inb :
                     Datagram(conn'[e].inb[i], e, 0, conn'[e])
               /\ \A i \in DOMAIN conn'[e].out :
                     Datagram(conn'[e].out[i], e, 1, conn'[e])
         /\ udp.op = "send" => Datagram(udp.data, udp.dest, 1, conn'[udp.dest])
<1>1. conn \in [Clients -> ConnType]
  BY DEF IInv, TypeInv
<1>2. /\ conn' \in [Clients -> ConnType] /\ conn'[c] = cn
      /\ \A e \in Clients \ {c} : conn'[e] = conn[e]
  BY <1>1
<1>3. ASSUME NEW e \in Clients
      PROVE  /\ \A i \in DOMAIN conn'[e].inb :
                   Datagram(conn'[e].inb[i], e, 0, conn'[e])
             /\ \A i \in DOMAIN conn'[e].out :
                   Datagram(conn'[e].out[i], e, 1, conn'[e])
  <2>1. CASE e = c
    BY <1>2, <2>1
  <2>2. CASE e # c
    BY <1>2, <2>2 DEF IInv, UdpInv
  <2>. QED
    BY <2>1, <2>2
<1>4. ASSUME udp.op = "send" PROVE Datagram(udp.data, udp.dest, 1, conn'[udp.dest])
  <2>1. udp.dest \in Clients /\ Datagram(udp.data, udp.dest, 1, conn[udp.dest])
    BY <1>4 DEF IInv, UdpInv
  <2>2. CASE udp.dest = c
    <3>1. conn[c].sent \in Nat /\ cn.sent \in Nat
      BY <1>1, ConnParts
    <3>2. \A k \in 1..conn[c].sent : k \in 1..cn.sent
      BY <3>1
    <3>. QED
      BY <1>2, <2>1, <2>2, <3>2 DEF Datagram
  <2>3. CASE udp.dest # c
    BY <1>2, <2>1, <2>3
  <2>. QED
    BY <2>2, <2>3
<1>. QED
  BY <1>2, <1>3, <1>4

\* The datagrams of a client before the step
LEMMA UdpOf ==
  ASSUME IInv, prog = "UdpEcho", NEW c \in Clients
  PROVE  /\ conn \in [Clients -> ConnType] /\ conn[c] \in ConnType
         /\ conn[c].sent \in Nat /\ conn[c].inb \in Seq(Msg) /\ conn[c].out \in Seq(Msg)
         /\ \A i \in DOMAIN conn[c].inb : Datagram(conn[c].inb[i], c, 0, conn[c])
         /\ \A i \in DOMAIN conn[c].out : Datagram(conn[c].out[i], c, 1, conn[c])
<1>1. conn \in [Clients -> ConnType] /\ conn[c] \in ConnType
  BY DEF IInv, TypeInv
<1>. QED
  BY <1>1, ConnParts DEF IInv, UdpInv

\* A datagram is gone, whether it is received or lost.
LEMMA UdpTaken ==
  ASSUME IInv, prog = "UdpEcho", NEW c \in Clients, NEW k \in Datagrams(c),
         conn' = [conn EXCEPT ![c].inb = RemoveAt(@, k)]
  PROVE  \E cn \in ConnType :
            /\ conn' = [conn EXCEPT ![c] = cn] /\ cn.sent = conn[c].sent
            /\ cn.peer = conn[c].peer
            /\ \A i \in DOMAIN cn.inb : Datagram(cn.inb[i], c, 0, cn)
            /\ \A i \in DOMAIN cn.out : Datagram(cn.out[i], c, 1, cn)
<1> DEFINE w == RemoveAt(conn[c].inb, k)
           cn == [conn[c] EXCEPT !.inb = w]
<1>1. /\ conn \in [Clients -> ConnType] /\ conn[c] \in ConnType
      /\ conn[c].inb \in Seq(Msg) /\ k \in DOMAIN conn[c].inb
      /\ \A i \in DOMAIN conn[c].inb : Datagram(conn[c].inb[i], c, 0, conn[c])
      /\ \A i \in DOMAIN conn[c].out : Datagram(conn[c].out[i], c, 1, conn[c])
  BY UdpOf DEF Datagrams
<1>2. /\ w \in Seq(Msg)
      /\ \A i \in DOMAIN w : \E j \in DOMAIN conn[c].inb : w[i] = conn[c].inb[j]
  BY <1>1, Removed
<1>3. conn' = [conn EXCEPT ![c] = cn]
  BY <1>1
<1> HIDE DEF w
<1>4. /\ cn \in ConnType /\ cn.sent = conn[c].sent /\ cn.inb = w
      /\ cn.out = conn[c].out /\ cn.peer = conn[c].peer
  BY <1>1, <1>2 DEF ConnType
<1> HIDE DEF cn
<1>5. ASSUME NEW i \in DOMAIN cn.inb PROVE Datagram(cn.inb[i], c, 0, cn)
  <2>1. PICK j \in DOMAIN conn[c].inb : cn.inb[i] = conn[c].inb[j]
    BY <1>2, <1>4
  <2>2. Datagram(conn[c].inb[j], c, 0, conn[c])
    BY <1>1
  <2>. QED
    BY <1>4, <2>1, <2>2 DEF Datagram
<1>6. \A i \in DOMAIN cn.out : Datagram(cn.out[i], c, 1, cn)
  BY <1>1, <1>4 DEF Datagram
<1>. QED
  BY <1>3, <1>4, <1>5, <1>6

\* A datagram that arrives is echoed if it is not empty.
LEMMA UdpReceiveStep ==
  ASSUME IInv, UdpReceive
  PROVE  IInv'
<1> PICK c \in Clients : \E k \in Datagrams(c) :
        LET m == conn[c].inb[k]
        IN  /\ conn' = [conn EXCEPT ![c].inb = RemoveAt(@, k)]
            /\ udp' = [udp EXCEPT !.sender = c, !.data = m,
                                  !.dest = IF m[2] > 0 THEN c ELSE @,
                                  !.op = IF m[2] > 0 THEN "send" ELSE @]
  BY DEF UdpReceive
<1>1. PICK k \in Datagrams(c) :
        /\ conn' = [conn EXCEPT ![c].inb = RemoveAt(@, k)]
        /\ udp' = [udp EXCEPT !.sender = c, !.data = conn[c].inb[k],
                              !.dest = IF conn[c].inb[k][2] > 0 THEN c ELSE @,
                              !.op = IF conn[c].inb[k][2] > 0 THEN "send" ELSE @]
  OBVIOUS
<1>2. /\ prog = "UdpEcho" /\ udp.op = "receive" /\ UNCHANGED <<server, queue, at, buf>>
      /\ TypeInv /\ Life /\ UdpInv /\ UNCHANGED server
  BY DEF UdpReceive, IInv
<1>3. UNCHANGED <<prog, up, listening, failed, stopping, late>>
  BY <1>2 DEF server
<1>4. PICK cn \in ConnType :
        /\ conn' = [conn EXCEPT ![c] = cn] /\ cn.sent = conn[c].sent
        /\ cn.peer = conn[c].peer
        /\ \A i \in DOMAIN cn.inb : Datagram(cn.inb[i], c, 0, cn)
        /\ \A i \in DOMAIN cn.out : Datagram(cn.out[i], c, 1, cn)
  BY <1>1, <1>2, UdpTaken
<1>5. conn[c].sent \in Nat /\ cn.sent >= conn[c].sent
  BY <1>2, <1>4, UdpOf
<1>6. /\ conn' \in [Clients -> ConnType] /\ conn'[c] = cn
      /\ \A e \in Clients \ {c} : conn'[e] = conn[e]
      /\ \A e \in Clients :
            /\ \A i \in DOMAIN conn'[e].inb :
                  Datagram(conn'[e].inb[i], e, 0, conn'[e])
            /\ \A i \in DOMAIN conn'[e].out :
                  Datagram(conn'[e].out[i], e, 1, conn'[e])
  BY <1>2, <1>4, <1>5, UdpUpdate
<1>7. Life'
  <2>1. \A e \in Clients : conn'[e].peer = conn[e].peer
    BY <1>4, <1>6
  <2>. QED
    BY <1>2, <2>1, LifeKept
<1>8. /\ DOMAIN udp' = {"op", "sender", "dest", "data"}
      /\ udp'.op = "send" =>
            udp'.dest \in Clients /\ Datagram(udp'.data, udp'.dest, 1, conn'[udp'.dest])
  <2>1. /\ DOMAIN udp = {"op", "sender", "dest", "data"}
        /\ Datagram(conn[c].inb[k], c, 0, conn[c])
    BY <1>2, UdpOf DEF UdpInv, Datagrams
  <2>2. PICK n \in 0..conn[c].sent : conn[c].inb[k] = <<c, n>>
    BY <2>1 DEF Datagram
  <2> DEFINE m == <<c, n>>
             more == m[2] > 0
  <2>3. /\ udp' = [udp EXCEPT !.sender = c, !.data = m,
                              !.dest = IF more THEN c ELSE @,
                              !.op = IF more THEN "send" ELSE @]
        /\ more <=> n > 0
    BY <1>1, <2>2
  <2> HIDE DEF m, more
  <2>4. DOMAIN udp' = {"op", "sender", "dest", "data"}
    BY <2>1, <2>3
  <2>5. CASE n > 0
    <3>1. udp'.op = "send" /\ udp'.dest = c /\ udp'.data = <<c, n>>
      BY <2>1, <2>5, <2>3 DEF m
    <3>2. n \in 1..conn'[c].sent
      BY <1>4, <1>5, <1>6, <2>5
    <3>. QED
      BY <2>4, <3>1, <3>2 DEF Datagram
  <2>6. CASE ~(n > 0)
    BY <1>2, <2>1, <2>4, <2>6, <2>3
  <2>. QED
    BY <2>5, <2>6
<1>9. ~Tcp'
  BY <1>2, <1>3, TcpOrUdp DEF Tcp
<1>. QED
  BY <1>2, <1>3, <1>6, <1>7, <1>8, <1>9 DEF IInv, TypeInv, TcpInv, UdpInv

\* A datagram is sent back to the one that it came from.
LEMMA UdpSendStep ==
  ASSUME IInv, UdpSend
  PROVE  IInv'
<1>1. /\ prog = "UdpEcho" /\ udp.op = "send" /\ UNCHANGED <<server, queue, at, buf>>
      /\ udp' = [udp EXCEPT !.op = "receive"]
      /\ TypeInv /\ Life /\ UdpInv /\ UNCHANGED server
      /\ DOMAIN udp = {"op", "sender", "dest", "data"}
      /\ udp.dest \in Clients /\ Datagram(udp.data, udp.dest, 1, conn[udp.dest])
  BY DEF UdpSend, IInv, UdpInv
<1>2. UNCHANGED <<prog, up, listening, failed, stopping, late>>
  BY <1>1 DEF server
<1>3. DOMAIN udp' = {"op", "sender", "dest", "data"} /\ udp'.op # "send"
  BY <1>1
<1> DEFINE fine == \A e \in Clients :
                     /\ \A i \in DOMAIN conn'[e].inb :
                           Datagram(conn'[e].inb[i], e, 0, conn'[e])
                     /\ \A i \in DOMAIN conn'[e].out :
                           Datagram(conn'[e].out[i], e, 1, conn'[e])
<1>4. /\ conn' \in [Clients -> ConnType] /\ fine
      /\ \A e \in Clients : conn'[e].peer = conn[e].peer
  <2>1. CASE conn' = conn
    BY <1>1, <2>1 DEF TypeInv, UdpInv
  <2>2. CASE conn' = [conn EXCEPT ![udp.dest].out = Append(@, udp.data)]
    <3>1. PICK c \in Clients : c = udp.dest
      BY <1>1
    <3> DEFINE w == Append(conn[c].out, udp.data)
    <3>2. /\ conn \in [Clients -> ConnType] /\ conn[c] \in ConnType
          /\ conn[c].sent \in Nat /\ conn[c].out \in Seq(Msg)
          /\ \A i \in DOMAIN conn[c].inb : Datagram(conn[c].inb[i], c, 0, conn[c])
          /\ \A i \in DOMAIN conn[c].out : Datagram(conn[c].out[i], c, 1, conn[c])
      BY <1>1, UdpOf
    <3>3. Datagram(udp.data, c, 1, conn[c]) /\ udp.data \in Msg
      BY <1>1, <3>1, <3>2 DEF Datagram, Msg
    <3>4. /\ w \in Seq(Msg) /\ DOMAIN w = 1..(Len(conn[c].out) + 1)
          /\ \A i \in 1..Len(conn[c].out) : w[i] = conn[c].out[i]
          /\ w[Len(conn[c].out) + 1] = udp.data
          /\ Len(conn[c].out) \in Nat /\ DOMAIN conn[c].out = 1..Len(conn[c].out)
      BY <3>2, <3>3, AppendProperties, LenProperties
    <3>5. conn' = [conn EXCEPT ![c] = [conn[c] EXCEPT !.out = w]]
      BY <2>2, <3>1, <3>2
    <3> HIDE DEF w
    <3>6. PICK cn \in ConnType :
            /\ conn' = [conn EXCEPT ![c] = cn]
            /\ cn.sent = conn[c].sent /\ cn.inb = conn[c].inb
            /\ cn.out = w /\ cn.peer = conn[c].peer
      <4> DEFINE cm == [conn[c] EXCEPT !.out = w]
      <4>1. /\ cm \in ConnType /\ cm.sent = conn[c].sent /\ cm.inb = conn[c].inb
            /\ cm.out = w /\ cm.peer = conn[c].peer
        BY <3>2, <3>4 DEF ConnType
      <4> HIDE DEF cm
      <4>2. conn' = [conn EXCEPT ![c] = cm]
        BY <3>5 DEF cm
      <4>. QED
        BY <4>1, <4>2
    <3>7. \A i \in DOMAIN cn.inb : Datagram(cn.inb[i], c, 0, cn)
      BY <3>2, <3>6 DEF Datagram
    <3>8. ASSUME NEW i \in DOMAIN cn.out PROVE Datagram(cn.out[i], c, 1, cn)
      <4>1. i \in 1..Len(conn[c].out) \/ i = Len(conn[c].out) + 1
        BY <3>4, <3>6
      <4>2. Datagram(cn.out[i], c, 1, conn[c])
        BY <3>2, <3>3, <3>4, <3>6, <4>1
      <4>. QED
        BY <3>6, <4>2 DEF Datagram
    <3>9. cn.sent >= conn[c].sent
      BY <3>2, <3>6
    <3>10. /\ conn' \in [Clients -> ConnType] /\ conn'[c] = cn
           /\ \A e \in Clients \ {c} : conn'[e] = conn[e]
           /\ fine
      <4>1. prog = "UdpEcho"
        BY <1>1
      <4>. QED
        BY <3>6, <3>7, <3>8, <3>9, <4>1, UdpUpdate
    <3>. QED
      BY <3>6, <3>10
  <2>. QED
    BY <2>1, <2>2 DEF UdpSend
<1>5. Life'
  BY <1>1, <1>4, LifeKept
<1>6. ~Tcp'
  BY <1>1, <1>2, TcpOrUdp DEF Tcp
<1>. QED
  BY <1>1, <1>2, <1>3, <1>4, <1>5, <1>6 DEF IInv, TypeInv, TcpInv, UdpInv

\* The network loses a datagram or delivers it twice, or a client sends one, empty or
\* not: udp is as it was.
LEMMA DatagramStep ==
  ASSUME IInv, prog = "UdpEcho", UNCHANGED <<server, queue, at, buf, udp>>,
         NEW c \in Clients, NEW cn \in ConnType,
         conn' = [conn EXCEPT ![c] = cn], cn.sent >= conn[c].sent,
         conn[c].peer = "reset" => cn.peer = "reset",
         conn[c].peer \in {"garbled", "fin"} =>
            cn.peer \in {"garbled", "fin", "reset"},
         \A i \in DOMAIN cn.inb : Datagram(cn.inb[i], c, 0, cn),
         \A i \in DOMAIN cn.out : Datagram(cn.out[i], c, 1, cn)
  PROVE  IInv'
<1>1. /\ UNCHANGED <<prog, up, listening, failed, stopping, late, queue, at, buf, udp>>
      /\ UNCHANGED server /\ TypeInv /\ Life /\ UdpInv
  BY DEF server, IInv
<1>2. /\ conn' \in [Clients -> ConnType] /\ conn'[c] = cn
      /\ \A e \in Clients \ {c} : conn'[e] = conn[e]
      /\ \A e \in Clients :
            /\ \A i \in DOMAIN conn'[e].inb :
                  Datagram(conn'[e].inb[i], e, 0, conn'[e])
            /\ \A i \in DOMAIN conn'[e].out :
                  Datagram(conn'[e].out[i], e, 1, conn'[e])
      /\ udp.op = "send" => Datagram(udp.data, udp.dest, 1, conn'[udp.dest])
  BY UdpUpdate
<1>3. Life'
  <2>1. \A e \in Clients :
           /\ conn[e].peer = "reset" => conn'[e].peer = "reset"
           /\ conn[e].peer \in {"garbled", "fin"} =>
                 conn'[e].peer \in {"garbled", "fin", "reset"}
    BY <1>2
  <2>. QED
    BY <1>1, <2>1, LifeKept
<1>4. ~Tcp'
  BY <1>1, TcpOrUdp DEF Tcp
<1>. QED
  BY <1>1, <1>2, <1>3, <1>4 DEF IInv, TypeInv, TcpInv, UdpInv

\* The network and the clients of ServerAsync
LEMMA UdpNetworkStep ==
  ASSUME IInv, \/ UdpLose \/ UdpDuplicate
               \/ prog = "UdpEcho" /\ \E c \in Clients : Client(c)
  PROVE  IInv'
<1>1. prog = "UdpEcho" /\ UNCHANGED <<server, at, buf, udp>>
  BY DEF UdpLose, UdpDuplicate, Client, Connect, Hello, Say, SayNothing, Garble, Leave
<1>2. CASE UdpLose
  <2>1. PICK c \in Clients : \E k \in Datagrams(c) :
          conn' = [conn EXCEPT ![c].inb = RemoveAt(@, k)]
    BY <1>2 DEF UdpLose
  <2>2. PICK cn \in ConnType :
          /\ conn' = [conn EXCEPT ![c] = cn] /\ cn.sent = conn[c].sent
          /\ cn.peer = conn[c].peer
          /\ \A i \in DOMAIN cn.inb : Datagram(cn.inb[i], c, 0, cn)
          /\ \A i \in DOMAIN cn.out : Datagram(cn.out[i], c, 1, cn)
    BY <1>1, <2>1, UdpTaken
  <2>3. /\ cn.sent >= conn[c].sent /\ UNCHANGED <<server, queue, at, buf, udp>>
        /\ conn[c].peer = "reset" => cn.peer = "reset"
        /\ conn[c].peer \in {"garbled", "fin"} =>
              cn.peer \in {"garbled", "fin", "reset"}
    BY <1>1, <1>2, <2>2, UdpOf DEF UdpLose
  <2>. QED
    BY <1>1, <2>2, <2>3, DatagramStep
<1>3. CASE ~UdpLose
  <2>1. PICK c \in Clients :
          \/ UdpDuplicate /\ \E k \in Datagrams(c) :
                                conn' = [conn EXCEPT ![c].inb = Append(@, @[k])]
          \/ Client(c)
    BY <1>3 DEF UdpDuplicate
  <2>2. /\ conn \in [Clients -> ConnType] /\ conn[c] \in ConnType
        /\ conn[c].sent \in Nat /\ conn[c].inb \in Seq(Msg) /\ conn[c].out \in Seq(Msg)
        /\ \A i \in DOMAIN conn[c].inb : Datagram(conn[c].inb[i], c, 0, conn[c])
        /\ \A i \in DOMAIN conn[c].out : Datagram(conn[c].out[i], c, 1, conn[c])
    BY <1>1, UdpOf
  <2>3. \A k \in 0..conn[c].sent : <<c, k>> \in Msg
    BY <2>2 DEF Msg
  \* The client has sent more or as much, and what waits are its datagrams.
  <2> DEFINE Fine(cm) ==
        /\ cm \in ConnType /\ cm.sent >= conn[c].sent
        /\ conn[c].peer = "reset" => cm.peer = "reset"
        /\ conn[c].peer \in {"garbled", "fin"} =>
              cm.peer \in {"garbled", "fin", "reset"}
        /\ \A i \in DOMAIN cm.inb : Datagram(cm.inb[i], c, 0, cm)
        /\ \A i \in DOMAIN cm.out : Datagram(cm.out[i], c, 1, cm)
  <2>4. CASE UdpDuplicate /\ \E k \in Datagrams(c) :
                                conn' = [conn EXCEPT ![c].inb = Append(@, @[k])]
    <3>1. PICK k \in DOMAIN conn[c].inb :
            conn' = [conn EXCEPT ![c].inb = Append(@, @[k])]
      BY <2>4 DEF Datagrams
    <3>2. PICK m \in Msg : m = conn[c].inb[k] /\ Datagram(m, c, 0, conn[c])
      BY <2>2, ElementOfSeq, LenProperties
    <3> DEFINE w == Append(conn[c].inb, m)
               cm == [conn[c] EXCEPT !.inb = w]
    <3>3. conn' = [conn EXCEPT ![c] = cm]
      BY <2>2, <3>1, <3>2
    <3>4. /\ w \in Seq(Msg) /\ DOMAIN w = 1..(Len(conn[c].inb) + 1)
          /\ \A i \in 1..Len(conn[c].inb) : w[i] = conn[c].inb[i]
          /\ w[Len(conn[c].inb) + 1] = m
          /\ Len(conn[c].inb) \in Nat /\ DOMAIN conn[c].inb = 1..Len(conn[c].inb)
      BY <2>2, AppendProperties, LenProperties
    <3> HIDE DEF w
    <3>5. /\ cm \in ConnType /\ cm.sent = conn[c].sent /\ cm.inb = w
          /\ cm.out = conn[c].out /\ cm.peer = conn[c].peer
      BY <2>2, <3>4 DEF ConnType
    <3> HIDE DEF cm
    <3>6. ASSUME NEW i \in DOMAIN cm.inb PROVE Datagram(cm.inb[i], c, 0, cm)
      <4>1. i \in 1..Len(conn[c].inb) \/ i = Len(conn[c].inb) + 1
        BY <3>4, <3>5
      <4>2. Datagram(cm.inb[i], c, 0, conn[c])
        BY <2>2, <3>2, <3>4, <3>5, <4>1
      <4>. QED
        BY <3>5, <4>2 DEF Datagram
    <3>7. \A i \in DOMAIN cm.out : Datagram(cm.out[i], c, 1, cm)
      BY <2>2, <3>5 DEF Datagram
    <3>8. Fine(cm)
      BY <2>2, <3>5, <3>6, <3>7
    <3> HIDE DEF Fine
    <3>9. PICK cn : conn' = [conn EXCEPT ![c] = cn] /\ Fine(cn)
      BY <3>3, <3>8
    <3> USE DEF Fine
    <3>10. UNCHANGED <<server, queue, at, buf, udp>>
      BY <2>4 DEF UdpDuplicate
    <3>. QED
      BY <1>1, <3>9, <3>10, DatagramStep
  <2>5. CASE Say(c)
    <3> DEFINE m == <<c, conn[c].sent + 1>>
               w == Append(conn[c].inb, m)
               cm == [conn[c] EXCEPT !.sent = conn[c].sent + 1, !.inb = w]
    <3>1. /\ conn[c].sent < MaxMsgs /\ UNCHANGED <<server, queue, at, buf, udp>>
          /\ conn' = [conn EXCEPT ![c].sent = @ + 1, ![c].inb = Append(@, m)]
      BY <2>5 DEF Say
    <3>2. conn' = [conn EXCEPT ![c] = cm]
      BY <2>2, <3>1
    <3>3. conn[c].sent + 1 \in 0..MaxMsgs /\ m \in Msg
      BY <2>2, <3>1, BoundAssumption DEF Msg
    <3> HIDE DEF m
    <3>4. /\ w \in Seq(Msg) /\ DOMAIN w = 1..(Len(conn[c].inb) + 1)
          /\ \A i \in 1..Len(conn[c].inb) : w[i] = conn[c].inb[i]
          /\ w[Len(conn[c].inb) + 1] = m
          /\ Len(conn[c].inb) \in Nat /\ DOMAIN conn[c].inb = 1..Len(conn[c].inb)
      BY <2>2, <3>3, AppendProperties, LenProperties
    <3> HIDE DEF w
    <3>5. /\ cm \in ConnType /\ cm.sent = conn[c].sent + 1 /\ cm.inb = w
          /\ cm.out = conn[c].out /\ cm.peer = conn[c].peer
      BY <2>2, <3>3, <3>4 DEF ConnType
    <3> HIDE DEF cm
    <3>6. /\ \A k \in 0..conn[c].sent : k \in 0..cm.sent
          /\ \A k \in 1..conn[c].sent : k \in 1..cm.sent
          /\ conn[c].sent + 1 \in 0..cm.sent /\ cm.sent >= conn[c].sent
      BY <2>2, <3>5
    <3>7. ASSUME NEW i \in DOMAIN cm.inb PROVE Datagram(cm.inb[i], c, 0, cm)
      <4>1. i \in 1..Len(conn[c].inb) \/ i = Len(conn[c].inb) + 1
        BY <3>4, <3>5
      <4>2. CASE i \in 1..Len(conn[c].inb)
        <5>1. Datagram(cm.inb[i], c, 0, conn[c])
          BY <2>2, <3>4, <3>5, <4>2
        <5>. QED
          BY <3>6, <5>1 DEF Datagram
      <4>3. CASE i = Len(conn[c].inb) + 1
        BY <3>4, <3>5, <3>6, <4>3 DEF Datagram, m
      <4>. QED
        BY <4>1, <4>2, <4>3
    <3>8. \A i \in DOMAIN cm.out : Datagram(cm.out[i], c, 1, cm)
      BY <2>2, <3>5, <3>6 DEF Datagram
    <3>9. Fine(cm)
      BY <3>5, <3>6, <3>7, <3>8
    <3> HIDE DEF Fine
    <3>10. PICK cn : conn' = [conn EXCEPT ![c] = cn] /\ Fine(cn)
      BY <3>2, <3>9
    <3> USE DEF Fine
    <3>. QED
      BY <1>1, <3>1, <3>10, DatagramStep
  <2>6. CASE SayNothing(c)
    <3> DEFINE m == <<c, 0>>
               w == <<m>>
               cm == [conn[c] EXCEPT !.inb = w]
    <3>1. /\ UNCHANGED <<server, queue, at, buf, udp>>
          /\ conn' = [conn EXCEPT ![c] = cm]
      BY <2>2, <2>6 DEF SayNothing
    <3>2. m \in Msg
      BY DEF Msg
    <3> HIDE DEF m
    <3>3. w \in Seq(Msg) /\ \A i \in DOMAIN w : w[i] = m
      BY <3>2
    <3> HIDE DEF w
    <3>4. /\ cm \in ConnType /\ cm.sent = conn[c].sent /\ cm.inb = w
          /\ cm.out = conn[c].out /\ cm.peer = conn[c].peer
      BY <2>2, <3>3 DEF ConnType
    <3> HIDE DEF cm
    <3>5. Fine(cm)
      <4>1. 0 \in 0..cm.sent /\ cm.sent >= conn[c].sent
        BY <2>2, <3>4
      <4>2. \A i \in DOMAIN cm.inb : Datagram(cm.inb[i], c, 0, cm)
        BY <3>3, <3>4, <4>1 DEF Datagram, m
      <4>3. \A i \in DOMAIN cm.out : Datagram(cm.out[i], c, 1, cm)
        BY <2>2, <3>4 DEF Datagram
      <4>. QED
        BY <3>4, <4>1, <4>2, <4>3
    <3> HIDE DEF Fine
    <3>6. PICK cn : conn' = [conn EXCEPT ![c] = cn] /\ Fine(cn)
      BY <3>1, <3>5
    <3> USE DEF Fine
    <3>. QED
      BY <1>1, <3>1, <3>6, DatagramStep
  <2>7. CASE Leave(c)
    <3>1. PICK how \in {"garbled", "fin", "closed", "reset"} :
            /\ conn' = [conn EXCEPT ![c].peer = how]
            /\ how # "reset" => conn[c].peer \in {"up", "garbled"}
            /\ how = "closed" => conn[c].peer = "up"
      BY <2>7 DEF Leave, Connected
    <3> DEFINE cm == [conn[c] EXCEPT !.peer = how]
    <3>2. /\ conn' = [conn EXCEPT ![c] = cm] /\ UNCHANGED <<server, queue, at, buf, udp>>
      BY <2>2, <2>7, <3>1 DEF Leave
    <3>3. /\ cm \in ConnType /\ cm.sent = conn[c].sent /\ cm.inb = conn[c].inb
          /\ cm.out = conn[c].out /\ cm.peer = how
      BY <2>2 DEF ConnType
    <3> HIDE DEF cm
    <3>4. Fine(cm)
      BY <2>2, <3>1, <3>3 DEF Datagram
    <3> HIDE DEF Fine
    <3>5. PICK cn : conn' = [conn EXCEPT ![c] = cn] /\ Fine(cn)
      BY <3>2, <3>4
    <3> USE DEF Fine
    <3>. QED
      BY <1>1, <3>2, <3>5, DatagramStep
  <2>8. ~Connect(c) /\ ~Hello(c) /\ ~Garble(c)
    BY <1>1, TcpOrUdp DEF Connect, Hello, Garble, IInv
  <2>. QED
    BY <2>1, <2>4, <2>5, <2>6, <2>7, <2>8 DEF Client
<1>. QED
  BY <1>2, <1>3

(* The theorems.                                                           *)

\* At the start no client has connected and no session holds anything.
LEMMA InitInv ==
  ASSUME Init
  PROVE  IInv
<1> DEFINE fresh == [peer |-> "none", hello |-> FALSE, sent |-> 0,
                     inb |-> << >>, out |-> << >>]
<1>1. fresh \in ConnType
  <2>1. 0 \in 0..MaxMsgs /\ << >> \in Seq(Msg)
    BY BoundAssumption, EmptySeq
  <2>. QED
    BY <2>1 DEF ConnType
<1>2. \A c \in Clients : conn[c] = fresh /\ at[c] = 0 /\ buf[c] = << >>
  BY DEF Init
<1>3. TypeInv
  <2>1. conn \in [Clients -> ConnType]
    <3> HIDE DEF fresh
    <3>1. conn = [c \in Clients |-> fresh]
      BY DEF Init, fresh
    <3>. QED
      BY <1>1, <3>1
  <2>2. /\ queue \in Seq(Clients) /\ buf \in [Clients -> Seq(Msg)]
        /\ at \in [Clients -> Int]
    BY EmptySeq DEF Init
  <2>. QED
    BY <2>1, <2>2 DEF Init, TypeInv, TcpServers
<1>4. Life
  BY DEF Init, Life, ServerLife, Running
<1>5. /\ fresh.peer = "none" /\ fresh.hello = FALSE /\ fresh.sent = 0
      /\ fresh.inb = << >> /\ fresh.out = << >>
  OBVIOUS
<1> HIDE DEF fresh
<1>6. ASSUME NEW p \in TcpServers, NEW c \in Clients PROVE Conn(p, c, 0, << >>, fresh)
  <2>1. Len(Server[p].steps) \in Nat \ {0} /\ ~Writes(p, 0)
    BY Tables DEF WellFormed, Writes
  <2>2. EchoConn(p, c, 0, << >>, fresh)
    <3>1. 0 \in Nat /\ << >> \in Seq(Msg) /\ << >> \o << >> = << >>
      BY EmptySeq, ConcatEmptySeq
    <3>2. Stream(c, 0) = << >>
      BY <3>1, StreamIs, EmptySeq
    <3>3. << >> \o << >> \o << >> = Stream(c, 0)
      BY <3>1, <3>2
    <3>4. IsPrefix(<< >>, Stream(c, 0))
      BY <3>1, <3>2, StreamPrefix
    <3>. QED
      BY <1>5, <3>3, <3>4 DEF EchoConn
  <2>3. AnswerConn(p, 0, fresh)
    <3>1. Len(<< >>) = 0
      BY EmptySeq
    <3>. QED
      BY <1>5, <2>1, <3>1 DEF AnswerConn
  <2>. QED
    BY <1>5, <2>1, <2>2, <2>3 DEF Conn
<1>7. TcpInv
  <2>1. DOMAIN queue = {}
    BY DEF Init
  <2>. QED
    BY <1>2, <1>6, <2>1 DEF TcpInv, Tcp, TcpServers, QueueInv
<1>8. UdpInv
  <2>1. udp.op = "receive" /\ DOMAIN udp = {"op", "sender", "dest", "data"}
    BY DEF Init
  <2>2. DOMAIN << >> = {}
    OBVIOUS
  <2>. QED
    BY <1>2, <1>5, <2>1, <2>2 DEF UdpInv
<1>. QED
  BY <1>3, <1>4, <1>7, <1>8 DEF IInv

\* Every step keeps the invariant.
LEMMA Inductive ==
  ASSUME IInv, [Next]_vars
  PROVE  IInv'
<1>1. CASE AcceptOne
  BY <1>1, AcceptStep
<1>2. CASE AcceptFails
  BY <1>2, AcceptFailsStep
<1>3. CASE Stop
  BY <1>3, StopStep
<1>4. CASE UdpReceive
  BY <1>4, UdpReceiveStep
<1>5. CASE UdpSend
  BY <1>5, UdpSendStep
<1>6. CASE UdpLose \/ UdpDuplicate
  BY <1>6, UdpNetworkStep
<1>7. CASE \E c \in Clients : Session(c)
  BY <1>7, SessionStep
<1>8. CASE \E c \in Clients : Client(c)
  <2>1. CASE Tcp
    BY <1>8, <2>1, ClientStep
  <2>2. CASE ~Tcp
    BY <1>8, <2>2, TcpOrUdp, UdpNetworkStep DEF IInv
  <2>. QED
    BY <2>1, <2>2
<1>9. CASE UNCHANGED vars
  BY <1>9 DEF vars, IInv, TypeInv, TcpInv, QueueInv, UdpInv, Life, ServerLife, Left,
              Tcp, Running, Open
<1>. QED
  BY <1>1, <1>2, <1>3, <1>4, <1>5, <1>6, <1>7, <1>8, <1>9 DEF Next

\* Of every connection and of the server: what the code never leaves.
THEOREM Invariant == Spec => []IInv
<1>1. Init => IInv
  BY InitInv
<1>2. IInv /\ [Next]_vars => IInv'
  BY Inductive
<1>. QED
  BY <1>1, <1>2, PTL DEF Spec

\* A client of any of the servers reads its own data only, an echo in order and whole;
\* a server that answers once does so at the most once, and not before a request.
THEOREM AnswersOwnAlways == Spec => []AnswersOwn
<1>1. ASSUME IInv PROVE AnswersOwn
  <2>1. ASSUME Tcp, NEW c \in Clients, Prog.echo
        PROVE  /\ IsPrefix(conn[c].out, Sent(c))
               /\ Connected(c) /\ at[c] # Gone =>
                     conn[c].out \o buf[c] \o conn[c].inb = Sent(c)
    <3>1. EchoConn(prog, c, at[c], buf[c], conn[c])
      BY <1>1, <2>1, ConnOf DEF Conn, Prog
    <3>. QED
      BY <3>1 DEF EchoConn, Stream, Sent, Connected
  <2>2. ASSUME Tcp, NEW c \in Clients, ~Prog.echo
        PROVE  /\ Len(conn[c].out) <= 1
               /\ prog \notin {"Daytime", "DaytimeEndpoint"} =>
                     Len(conn[c].out) <= conn[c].sent
    <3>1. AnswerConn(prog, at[c], conn[c]) /\ conn[c] \in ConnType
      BY <1>1, <2>2, ConnOf DEF Conn, Prog
    <3>2. /\ Len(conn[c].out) <= 1 /\ Len(conn[c].out) \in Nat
          /\ conn[c].out \in Seq(Msg) /\ conn[c].sent \in Nat
          /\ prog \notin Daytimes /\ conn[c].out # << >> => conn[c].sent > 0
      BY <3>1, ConnParts DEF AnswerConn
    <3>3. conn[c].out = << >> => Len(conn[c].out) = 0
      BY EmptySeq
    <3>. QED
      BY <3>2, <3>3 DEF Daytimes
  <2>3. ASSUME ~Tcp, NEW c \in Clients
        PROVE  ToSet(conn[c].out) \subseteq ToSet(Sent(c))
    <3>1. /\ conn[c].sent \in Nat
          /\ \A i \in DOMAIN conn[c].out : Datagram(conn[c].out[i], c, 1, conn[c])
      BY <1>1, <2>3, UdpOf, TcpOrUdp DEF IInv
    <3>2. \A k \in 1..conn[c].sent : k \in DOMAIN Sent(c) /\ Sent(c)[k] = <<c, k>>
      BY <3>1 DEF Sent
    <3>3. \A i \in DOMAIN conn[c].out :
            \E k \in DOMAIN Sent(c) : conn[c].out[i] = Sent(c)[k]
      BY <3>1, <3>2 DEF Datagram
    <3>. QED
      BY <3>3 DEF ToSet
  <2>4. ASSUME Tcp PROVE Prog.echo \in BOOLEAN
    BY <2>4, Tables DEF WellFormed, Prog, Tcp, TcpServers
  <2>. QED
    BY <1>1, <2>1, <2>2, <2>3, <2>4, TcpOrUdp DEF AnswersOwn, IInv
<1>. QED
  BY <1>1, Invariant, PTL

\* A server that has ended was ended by a failed accept, by stop() or a signal, or by a
\* client in the way its error handling allows; after stop() the TLS server accepts one
\* more connection at the most.
THEOREM ServerLifeAlways == Spec => []ServerLife
<1>1. IInv => ServerLife
  BY DEF IInv, Life
<1>. QED
  BY <1>1, Invariant, PTL
====
