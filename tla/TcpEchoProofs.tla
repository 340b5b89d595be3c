---- MODULE TcpEchoProofs ----
(***************************************************************************)
(* Safety of the server of TcpEcho for every set of connections, every     *)
(* size of Session::data and every number of bytes, and that each of its   *)
(* steps is a step of EchoStream or none.  The argument has two parts:     *)
(* ConnInv follows the bytes of one connection from the peer through       *)
(* Session::data and back, OwnInv the connections from the listening       *)
(* socket through the one member socket into their sessions.               *)
(* ReplyInv adds what the blocking clients of TcpEchoClient have collected *)
(* of what comes back.                                                     *)
(***************************************************************************)
EXTENDS TcpEchoClient, SequenceTheorems, TLAPS

Ops == {"none", "reading", "read", "writing", "written", "failed", "destroyed"}

\* The bytes 1, 2, ..., s of a connection are, in this order, those sent back, those
\* in data and those that wait to be read.
Flow(d, s, inb, out) ==
    /\ d \in Seq(Byte) /\ inb \in Seq(Byte) /\ out \in Seq(Byte)
    /\ s \in 0..MaxBytes
    /\ Len(out) + Len(d) + Len(inb) = s
    /\ \A k \in 1..Len(out) : out[k] = k
    /\ \A k \in 1..Len(d) : d[k] = Len(out) + k
    /\ \A k \in 1..Len(inb) : inb[k] = Len(out) + Len(d) + k

\* data is empty while nothing is to be sent; a session fails only for its own peer.
ConnInv(o, d, cn) ==
    /\ Flow(d, cn.sent, cn.inb, cn.out)
    /\ o \in {"none", "reading", "written"} => d = << >>
    /\ cn.peer = "none" => o = "none"
    /\ o \in {"failed", "destroyed"} =>
          \/ cn.peer = "reset"
          \/ cn.peer = "fin" /\ cn.inb = << >> /\ Len(cn.out) = cn.sent

BytesInv ==
    /\ op \in [Clients -> Ops]
    /\ data \in [Clients -> Seq(Byte)]
    /\ conn \in [Clients -> ConnType]
    /\ \A c \in Clients : ConnInv(op[c], data[c], conn[c])

\* To ConnectionHasOneOwner it adds that a connection that was not made has none.
OwnInv ==
    /\ queue \in Seq(Clients)
    /\ acc \in {"pending", "ok", "err"}
    /\ socket \in Clients \cup {None}
    /\ ConnectionHasOneOwner
    /\ \A i \in DOMAIN queue : conn[queue[i]].peer # "none"
    /\ socket # None => conn[socket].peer # "none"

IInv == BytesInv /\ OwnInv

(* The bytes of one connection.                                            *)

\* A sequence without elements is the empty one.
LEMMA Empty == \A S : \A s \in Seq(S) : Len(s) = 0 => s = << >>
  BY EmptySeq

\* What the two parts of a divided sequence are.
LEMMA Divide ==
  ASSUME NEW S, NEW s \in Seq(S), NEW n \in 0..Len(s)
  PROVE  /\ SubSeq(s, 1, n) \in Seq(S)
         /\ Len(SubSeq(s, 1, n)) = n
         /\ \A k \in 1..n : SubSeq(s, 1, n)[k] = s[k]
         /\ SubSeq(s, n + 1, Len(s)) \in Seq(S)
         /\ Len(SubSeq(s, n + 1, Len(s))) = Len(s) - n
         /\ \A k \in 1..(Len(s) - n) : SubSeq(s, n + 1, Len(s))[k] = s[n + k]
<1>1. Len(s) \in Nat /\ \A k \in 1..Len(s) : s[k] \in S
  BY LenProperties, ElementOfSeq
<1>2. \A k \in 1..n : s[k] \in S
  BY <1>1
<1>3. \A k \in n + 1..Len(s) : s[k] \in S
  BY <1>1
<1>4. /\ SubSeq(s, 1, n) \in Seq(S)
      /\ Len(SubSeq(s, 1, n)) = IF 1 <= n THEN n - 1 + 1 ELSE 0
      /\ \A k \in 1..n - 1 + 1 : SubSeq(s, 1, n)[k] = s[1 + k - 1]
  BY <1>1, <1>2, SubSeqProperties
<1>5. /\ SubSeq(s, n + 1, Len(s)) \in Seq(S)
      /\ Len(SubSeq(s, n + 1, Len(s))) =
            IF n + 1 <= Len(s) THEN Len(s) - (n + 1) + 1 ELSE 0
      /\ \A k \in 1..Len(s) - (n + 1) + 1 :
            SubSeq(s, n + 1, Len(s))[k] = s[n + 1 + k - 1]
  BY <1>1, <1>3, SubSeqProperties
<1>6. \A k \in 1..n : SubSeq(s, 1, n)[k] = s[k]
  BY <1>4
<1>7. \A k \in 1..(Len(s) - n) : SubSeq(s, n + 1, Len(s))[k] = s[n + k]
  BY <1>1, <1>5
<1>. QED
  BY <1>1, <1>4, <1>5, <1>6, <1>7

\* The peer sends the next byte of its stream.
LEMMA SendFlow ==
  ASSUME NEW d, NEW s, NEW inb, NEW out, Flow(d, s, inb, out), s < MaxBytes
  PROVE  Flow(d, s + 1, Append(inb, s + 1), out)
<1> DEFINE i == Append(inb, s + 1)
<1>1. /\ inb \in Seq(Byte) /\ Len(inb) \in Nat
      /\ Len(out) \in Nat /\ Len(d) \in Nat
      /\ s \in Nat /\ MaxBytes \in Nat
      /\ s = Len(out) + Len(d) + Len(inb)
  BY LengthAssumption, LenProperties DEF Flow
<1>2. s + 1 \in Byte
  BY <1>1 DEF Byte
<1>3. /\ i \in Seq(Byte)
      /\ Len(i) = Len(inb) + 1
      /\ \A k \in 1..Len(inb) : i[k] = inb[k]
      /\ i[Len(inb) + 1] = s + 1
  BY <1>1, <1>2, AppendProperties
<1> HIDE DEF i
<1>4. \A k \in 1..Len(i) : i[k] = Len(out) + Len(d) + k
  <2> SUFFICES ASSUME NEW k \in 1..Len(i) PROVE i[k] = Len(out) + Len(d) + k
    OBVIOUS
  <2>1. CASE k <= Len(inb)
    BY <2>1, <1>1, <1>3 DEF Flow
  <2>2. CASE k = Len(inb) + 1
    BY <2>2, <1>1, <1>3
  <2>. QED
    BY <2>1, <2>2, <1>1, <1>3
<1>5. s + 1 \in 0..MaxBytes /\ Len(out) + Len(d) + Len(i) = s + 1
  BY <1>1, <1>3
<1>6. Flow(d, s + 1, i, out)
  BY <1>3, <1>4, <1>5 DEF Flow
<1>. QED
  BY <1>6 DEF i

\* recv() moves the first n bytes that wait into data, which was empty.
LEMMA ReceiveFlow ==
  ASSUME NEW s, NEW inb, NEW out, Flow(<< >>, s, inb, out), NEW n \in 0..Len(inb)
  PROVE  Flow(SubSeq(inb, 1, n), s, SubSeq(inb, n + 1, Len(inb)), out)
<1> DEFINE got == SubSeq(inb, 1, n)
           left == SubSeq(inb, n + 1, Len(inb))
<1>1. /\ inb \in Seq(Byte) /\ Len(inb) \in Nat
      /\ out \in Seq(Byte) /\ Len(out) \in Nat
      /\ s \in 0..MaxBytes /\ s = Len(out) + Len(inb)
      /\ \A k \in 1..Len(out) : out[k] = k
      /\ \A k \in 1..Len(inb) : inb[k] = Len(out) + k
  BY LengthAssumption, LenProperties DEF Flow
<1>2. /\ got \in Seq(Byte) /\ Len(got) = n
      /\ \A k \in 1..n : got[k] = inb[k]
      /\ left \in Seq(Byte) /\ Len(left) = Len(inb) - n
      /\ \A k \in 1..(Len(inb) - n) : left[k] = inb[n + k]
  BY <1>1, Divide
<1> HIDE DEF got, left
<1>3. \A k \in 1..Len(got) : got[k] = Len(out) + k
  BY <1>1, <1>2
<1>4. \A k \in 1..Len(left) : left[k] = Len(out) + Len(got) + k
  BY <1>1, <1>2
<1>5. Len(out) + Len(got) + Len(left) = s
  BY <1>1, <1>2
<1>6. Flow(got, s, left, out)
  BY <1>1, <1>2, <1>3, <1>4, <1>5 DEF Flow
<1>. QED
  BY <1>6 DEF got, left

\* One send() moves the first n bytes of data to the peer; what was sent back is
\* again the beginning of what was sent.
LEMMA SendBackFlow ==
  ASSUME NEW d, NEW s, NEW inb, NEW out, Flow(d, s, inb, out), NEW n \in 1..Len(d)
  PROVE  /\ Flow(SubSeq(d, n + 1, Len(d)), s, inb, out \o SubSeq(d, 1, n))
         /\ Len(out \o SubSeq(d, 1, n)) = Len(out) + n
         /\ n = Len(d) => SubSeq(d, n + 1, Len(d)) = << >>
<1> DEFINE part == SubSeq(d, 1, n)
           left == SubSeq(d, n + 1, Len(d))
           all == out \o part
<1>1. /\ inb \in Seq(Byte) /\ Len(inb) \in Nat
      /\ out \in Seq(Byte) /\ Len(out) \in Nat
      /\ d \in Seq(Byte) /\ Len(d) \in Nat
      /\ s \in 0..MaxBytes /\ s = Len(out) + Len(d) + Len(inb)
      /\ \A k \in 1..Len(out) : out[k] = k
      /\ \A k \in 1..Len(d) : d[k] = Len(out) + k
      /\ \A k \in 1..Len(inb) : inb[k] = Len(out) + Len(d) + k
  BY LengthAssumption, LenProperties DEF Flow
<1>2. /\ part \in Seq(Byte) /\ Len(part) = n
      /\ \A k \in 1..n : part[k] = d[k]
      /\ left \in Seq(Byte) /\ Len(left) = Len(d) - n
      /\ \A k \in 1..(Len(d) - n) : left[k] = d[n + k]
  <2>1. n \in 0..Len(d)
    BY <1>1
  <2>. QED
    BY <1>1, <2>1, Divide
<1> HIDE DEF part, left
<1>3. /\ all \in Seq(Byte)
      /\ Len(all) = Len(out) + n
      /\ \A k \in 1..Len(out) + n :
            all[k] = IF k <= Len(out) THEN out[k] ELSE part[k - Len(out)]
  BY <1>1, <1>2, ConcatProperties
<1> HIDE DEF all
<1>4. \A k \in 1..Len(all) : all[k] = k
  <2> SUFFICES ASSUME NEW k \in 1..Len(all) PROVE all[k] = k
    OBVIOUS
  <2>1. CASE k <= Len(out)
    <3>1. k \in 1..Len(out) /\ k \in 1..Len(out) + n
      BY <2>1, <1>1
    <3>2. all[k] = out[k] /\ out[k] = k
      BY <2>1, <3>1, <1>1, <1>3
    <3>. QED
      BY <3>2
  <2>2. CASE k > Len(out)
    <3>1. k - Len(out) \in 1..n /\ k - Len(out) \in 1..Len(d)
      BY <2>2, <1>1, <1>3
    <3>2. all[k] = d[k - Len(out)]
      BY <2>2, <3>1, <1>1, <1>2, <1>3
    <3>3. d[k - Len(out)] = Len(out) + (k - Len(out))
      BY <3>1, <1>1
    <3>. QED
      BY <3>2, <3>3, <1>1, <1>3
  <2>. QED
    BY <2>1, <2>2, <1>1
<1>5. \A k \in 1..Len(left) : left[k] = Len(all) + k
  <2> SUFFICES ASSUME NEW k \in 1..Len(left) PROVE left[k] = Len(all) + k
    OBVIOUS
  <2>1. k \in 1..(Len(d) - n) /\ n + k \in 1..Len(d)
    BY <1>1, <1>2
  <2>2. left[k] = Len(out) + (n + k)
    BY <2>1, <1>1, <1>2
  <2>. QED
    BY <2>1, <2>2, <1>1, <1>3
<1>6. \A k \in 1..Len(inb) : inb[k] = Len(all) + Len(left) + k
  BY <1>1, <1>2, <1>3
<1>7. Len(all) + Len(left) + Len(inb) = s
  BY <1>1, <1>2, <1>3
<1>8. n = Len(d) => left = << >>
  BY <1>1, <1>2, Empty
<1>9. Flow(left, s, inb, all)
  BY <1>1, <1>2, <1>3, <1>4, <1>5, <1>6, <1>7 DEF Flow
<1>. QED
  BY <1>3, <1>8, <1>9 DEF part, left, all

(* The steps.                                                              *)

\* A step of one connection keeps BytesInv if it keeps ConnInv of that connection.
LEMMA BytesUpdate ==
  ASSUME BytesInv, NEW c \in Clients, NEW o \in Ops, NEW d \in Seq(Byte),
         NEW cn \in ConnType, ConnInv(o, d, cn),
         op' = [op EXCEPT ![c] = o],
         data' = [data EXCEPT ![c] = d],
         conn' = [conn EXCEPT ![c] = cn]
  PROVE  BytesInv'
<1>1. /\ op' \in [Clients -> Ops]
      /\ data' \in [Clients -> Seq(Byte)]
      /\ conn' \in [Clients -> ConnType]
  BY DEF BytesInv
<1>2. /\ op'[c] = o /\ data'[c] = d /\ conn'[c] = cn
      /\ \A b \in Clients \ {c} :
           op'[b] = op[b] /\ data'[b] = data[b] /\ conn'[b] = conn[b]
  BY DEF BytesInv
<1>3. \A b \in Clients : ConnInv(op'[b], data'[b], conn'[b])
  <2> SUFFICES ASSUME NEW b \in Clients PROVE ConnInv(op'[b], data'[b], conn'[b])
    OBVIOUS
  <2>1. CASE b = c
    BY <2>1, <1>2
  <2>2. CASE b # c
    BY <2>2, <1>2 DEF BytesInv
  <2>. QED
    BY <2>1, <2>2
<1>. QED
  BY <1>1, <1>3 DEF BytesInv

\* What is known of one connection.
LEMMA BytesOf ==
  ASSUME BytesInv, NEW c \in Clients
  PROVE  /\ op[c] \in Ops /\ data[c] \in Seq(Byte) /\ conn[c] \in ConnType
         /\ ConnInv(op[c], data[c], conn[c])
         /\ op = [op EXCEPT ![c] = op[c]]
         /\ data = [data EXCEPT ![c] = data[c]]
         /\ conn = [conn EXCEPT ![c] = conn[c]]
  BY DEF BytesInv

\* A step that starts or ends no session and makes no connection keeps OwnInv.
LEMMA OwnUpdate ==
  ASSUME BytesInv, OwnInv, BytesInv', UNCHANGED <<queue, acc, socket>>,
         \A c \in Clients : op'[c] = "none" <=> op[c] = "none",
         \A c \in Clients : conn'[c].peer = "none" <=> conn[c].peer = "none"
  PROVE  OwnInv'
<1>1. \A i \in DOMAIN queue : queue[i] \in Clients
  BY ElementOfSeq, LenProperties DEF OwnInv
<1>2. socket # None => socket \in Clients
  BY DEF OwnInv
<1>3. ConnectionHasOneOwner'
  BY <1>1, <1>2 DEF OwnInv, ConnectionHasOneOwner
<1>. QED
  BY <1>1, <1>2, <1>3 DEF OwnInv

\* The peer of a connection that exists sends, closes or resets it.
LEMMA PeerStep ==
  ASSUME IInv, NEW c \in Clients, PeerSend(c) \/ PeerFinish(c) \/ PeerReset(c)
  PROVE  IInv'
<1>1. /\ op[c] \in Ops /\ data[c] \in Seq(Byte) /\ conn[c] \in ConnType
      /\ ConnInv(op[c], data[c], conn[c])
      /\ op = [op EXCEPT ![c] = op[c]]
      /\ data = [data EXCEPT ![c] = data[c]]
  BY BytesOf DEF IInv
<1>2. CASE PeerSend(c)
  <2> DEFINE n == conn[c].sent + 1
             i == Append(conn[c].inb, n)
             cn == [conn[c] EXCEPT !.sent = n, !.inb = i]
  <2>1. conn[c].peer = "up" /\ conn[c].sent < MaxBytes
    BY <1>2 DEF PeerSend
  <2>2. Flow(data[c], n, i, conn[c].out)
    BY <1>1, <2>1, SendFlow DEF ConnInv
  <2>3. conn' = [conn EXCEPT ![c] = cn] /\ UNCHANGED <<queue, acc, socket, op, data>>
    BY <1>2 DEF PeerSend, IInv, BytesInv
  <2>4. i \in Seq(Byte) /\ n \in 0..MaxBytes
    BY <2>2 DEF Flow
  <2> HIDE DEF n, i
  <2>5. /\ cn \in ConnType /\ cn.peer = "up" /\ cn.sent = n /\ cn.inb = i
        /\ cn.out = conn[c].out
    BY <1>1, <2>1, <2>4 DEF ConnType
  <2> HIDE DEF cn
  <2>6. ConnInv(op[c], data[c], cn)
    BY <1>1, <2>1, <2>2, <2>5 DEF ConnInv
  <2>7. BytesInv'
    BY <1>1, <2>3, <2>5, <2>6, BytesUpdate DEF IInv
  <2>8. \A b \in Clients : conn'[b].peer = "none" <=> conn[b].peer = "none"
    BY <2>1, <2>3, <2>5 DEF IInv, BytesInv
  <2>. QED
    BY <2>3, <2>7, <2>8, OwnUpdate DEF IInv
<1>3. ASSUME PeerFinish(c) \/ PeerReset(c)
      PROVE  IInv'
  <2>1. PICK q \in {"fin", "reset"} :
          /\ conn' = [conn EXCEPT ![c].peer = q]
          /\ conn[c].peer \in {"up", "fin"}
          /\ q = "fin" => conn[c].peer = "up"
          /\ UNCHANGED <<queue, acc, socket, op, data>>
    BY <1>3 DEF PeerFinish, PeerReset
  <2> DEFINE cn == [conn[c] EXCEPT !.peer = q]
  <2>2. conn' = [conn EXCEPT ![c] = cn]
    BY <2>1 DEF IInv, BytesInv
  <2>3. /\ cn \in ConnType /\ cn.peer = q /\ cn.sent = conn[c].sent
        /\ cn.inb = conn[c].inb /\ cn.out = conn[c].out
    BY <1>1 DEF ConnType
  <2> HIDE DEF cn
  <2>4. ConnInv(op[c], data[c], cn)
    BY <1>1, <2>1, <2>3 DEF ConnInv
  <2>5. BytesInv'
    <3>1. op' = [op EXCEPT ![c] = op[c]] /\ data' = [data EXCEPT ![c] = data[c]]
      BY <1>1, <2>1
    <3>. QED
      BY <1>1, <2>2, <2>3, <2>4, <3>1, BytesUpdate DEF IInv
  <2>6. \A b \in Clients : conn'[b].peer = "none" <=> conn[b].peer = "none"
    BY <2>1, <2>2, <2>3 DEF IInv, BytesInv
  <2>. QED
    BY <2>1, <2>5, <2>6, OwnUpdate DEF IInv
<1>. QED
  BY <1>2, <1>3

\* recv() and send() of a session.
LEMMA TransferStep ==
  ASSUME IInv, NEW c \in Clients, ReadReady(c) \/ SendSome(c)
  PROVE  IInv'
<1>1. /\ op[c] \in Ops /\ data[c] \in Seq(Byte) /\ conn[c] \in ConnType
      /\ ConnInv(op[c], data[c], conn[c])
      /\ Flow(data[c], conn[c].sent, conn[c].inb, conn[c].out)
      /\ Len(conn[c].inb) \in Nat /\ Len(data[c]) \in Nat
  BY BytesOf, LenProperties DEF IInv, ConnInv, Flow
<1>2. CASE ReadReady(c)
  <2> DEFINE n == IF maxLength < Len(conn[c].inb) THEN maxLength ELSE Len(conn[c].inb)
             got == SubSeq(conn[c].inb, 1, n)
             left == SubSeq(conn[c].inb, n + 1, Len(conn[c].inb))
             cn == [conn[c] EXCEPT !.inb = left]
  <2>1. op[c] = "reading" /\ data[c] = << >> /\ conn[c].peer # "none"
    BY <1>1, <1>2 DEF ReadReady, ConnInv
  <2>2. n \in 0..Len(conn[c].inb)
    BY <1>1, LengthAssumption
  <2>3. Flow(got, conn[c].sent, left, conn[c].out)
    BY <1>1, <2>1, <2>2, ReceiveFlow
  <2>4. /\ conn' = [conn EXCEPT ![c] = cn]
        /\ data' = [data EXCEPT ![c] = got]
        /\ op' = [op EXCEPT ![c] = "read"]
        /\ UNCHANGED <<queue, acc, socket>>
    BY <1>2 DEF ReadReady, IInv, BytesInv
  <2> HIDE DEF n, got, left
  <2>5. left \in Seq(Byte) /\ got \in Seq(Byte)
    BY <2>3 DEF Flow
  <2>6. /\ cn \in ConnType /\ cn.peer = conn[c].peer /\ cn.sent = conn[c].sent
        /\ cn.inb = left /\ cn.out = conn[c].out
    BY <1>1, <2>5 DEF ConnType
  <2> HIDE DEF cn
  <2>7. ConnInv("read", got, cn)
    BY <2>1, <2>3, <2>6 DEF ConnInv
  <2>8. BytesInv'
    BY <2>4, <2>5, <2>6, <2>7, BytesUpdate DEF IInv, Ops
  <2>9. /\ \A b \in Clients : conn'[b].peer = "none" <=> conn[b].peer = "none"
        /\ \A b \in Clients : op'[b] = "none" <=> op[b] = "none"
    BY <2>1, <2>4, <2>6 DEF IInv, BytesInv
  <2>. QED
    BY <2>4, <2>8, <2>9, OwnUpdate DEF IInv
<1>3. CASE SendSome(c)
  <2>1. PICK k \in 1..Len(data[c]) :
          /\ conn' = [conn EXCEPT ![c].out = @ \o SubSeq(data[c], 1, k)]
          /\ data' = [data EXCEPT ![c] = SubSeq(@, k + 1, Len(@))]
          /\ op' = [op EXCEPT ![c] = IF k = Len(data[c]) THEN "written" ELSE @]
    BY <1>3 DEF SendSome
  <2> DEFINE all == conn[c].out \o SubSeq(data[c], 1, k)
             left == SubSeq(data[c], k + 1, Len(data[c]))
             o == IF k = Len(data[c]) THEN "written" ELSE "writing"
             cn == [conn[c] EXCEPT !.out = all]
  <2>2. op[c] = "writing" /\ conn[c].peer \in {"up", "fin"}
    BY <1>3 DEF SendSome
  <2>3. /\ Flow(left, conn[c].sent, conn[c].inb, all)
        /\ k = Len(data[c]) => left = << >>
    BY <1>1, SendBackFlow
  <2>4. /\ conn' = [conn EXCEPT ![c] = cn]
        /\ data' = [data EXCEPT ![c] = left]
        /\ op' = [op EXCEPT ![c] = o]
        /\ UNCHANGED <<queue, acc, socket>>
    BY <1>3, <2>1, <2>2 DEF SendSome, IInv, BytesInv
  <2> HIDE DEF all, left
  <2>5. left \in Seq(Byte) /\ all \in Seq(Byte) /\ o \in Ops
    BY <2>3 DEF Flow, Ops
  <2>6. /\ cn \in ConnType /\ cn.peer = conn[c].peer /\ cn.sent = conn[c].sent
        /\ cn.inb = conn[c].inb /\ cn.out = all
    BY <1>1, <2>5 DEF ConnType
  <2> HIDE DEF cn
  <2>7. ConnInv(o, left, cn)
    BY <2>2, <2>3, <2>6 DEF ConnInv
  <2>8. BytesInv'
    BY <2>4, <2>5, <2>6, <2>7, BytesUpdate DEF IInv
  <2>9. /\ \A b \in Clients : conn'[b].peer = "none" <=> conn[b].peer = "none"
        /\ \A b \in Clients : op'[b] = "none" <=> op[b] = "none"
    BY <2>2, <2>4, <2>6 DEF IInv, BytesInv
  <2>. QED
    BY <2>4, <2>8, <2>9, OwnUpdate DEF IInv
<1>. QED
  BY <1>2, <1>3

\* A failing system call, or a handler that starts the next operation or destroys
\* the session.
LEMMA SessionStep ==
  ASSUME IInv, NEW c \in Clients,
         ReadFails(c) \/ SendFails(c) \/ OnRead(c) \/ OnWritten(c) \/ OnError(c)
  PROVE  IInv'
<1>1. /\ op[c] \in Ops /\ data[c] \in Seq(Byte) /\ conn[c] \in ConnType
      /\ ConnInv(op[c], data[c], conn[c])
      /\ data = [data EXCEPT ![c] = data[c]]
      /\ conn = [conn EXCEPT ![c] = conn[c]]
  BY BytesOf DEF IInv
<1>2. PICK o \in Ops \ {"none"} :
        /\ op' = [op EXCEPT ![c] = o]
        /\ ConnInv(o, data[c], conn[c])
  <2>1. CASE ReadFails(c)
    <3>1. ConnInv("failed", data[c], conn[c])
      <4>1. op[c] = "reading" /\ data[c] = << >>
        BY <1>1, <2>1 DEF ReadFails, ConnInv
      <4>2. conn[c].inb = << >> => Len(conn[c].out) = conn[c].sent
        BY <1>1, <4>1, EmptySeq, LenProperties DEF ConnInv, Flow
      <4>. QED
        BY <1>1, <2>1, <4>1, <4>2 DEF ReadFails, ConnInv
    <3>. QED
      BY <2>1, <3>1 DEF ReadFails, Ops
  <2>2. CASE SendFails(c) \/ OnError(c)
    <3>1. CASE SendFails(c)
      BY <1>1, <3>1 DEF SendFails, ConnInv, Ops
    <3>2. CASE OnError(c)
      BY <1>1, <3>2 DEF OnError, ConnInv, Ops
    <3>. QED
      BY <2>2, <3>1, <3>2
  <2>3. CASE OnRead(c)
    <3>1. ConnInv("writing", data[c], conn[c])
      BY <1>1, <2>3 DEF OnRead, ConnInv
    <3>. QED
      BY <2>3, <3>1 DEF OnRead, Ops
  <2>4. CASE OnWritten(c)
    <3>1. ConnInv("reading", data[c], conn[c])
      BY <1>1, <2>4 DEF OnWritten, ConnInv
    <3>. QED
      BY <2>4, <3>1 DEF OnWritten, Ops
  <2>. QED
    BY <2>1, <2>2, <2>3, <2>4
<1>3. op[c] # "none" /\ UNCHANGED <<queue, acc, socket, data, conn>>
  BY DEF ReadFails, SendFails, OnRead, OnWritten, OnError
<1>4. BytesInv'
  <2>1. data' = [data EXCEPT ![c] = data[c]] /\ conn' = [conn EXCEPT ![c] = conn[c]]
    BY <1>1, <1>3
  <2>. QED
    BY <1>1, <1>2, <2>1, BytesUpdate DEF IInv
<1>5. \A b \in Clients : op'[b] = "none" <=> op[b] = "none"
  BY <1>2, <1>3 DEF IInv, BytesInv
<1>. QED
  BY <1>3, <1>4, <1>5, OwnUpdate DEF IInv

\* A new connection has no owner yet: it enters the queue once.
LEMMA ConnectStep ==
  ASSUME IInv, NEW c \in Clients, Connect(c)
  PROVE  IInv'
<1> DEFINE q == Append(queue, c)
           cn == [conn[c] EXCEPT !.peer = "up"]
<1>1. /\ op[c] \in Ops /\ data[c] \in Seq(Byte) /\ conn[c] \in ConnType
      /\ ConnInv(op[c], data[c], conn[c])
      /\ op = [op EXCEPT ![c] = op[c]]
      /\ data = [data EXCEPT ![c] = data[c]]
  BY BytesOf DEF IInv
<1>2. /\ conn[c].peer = "none" /\ op[c] = "none"
      /\ conn' = [conn EXCEPT ![c] = cn] /\ queue' = q
      /\ acc' = acc /\ socket' = socket /\ op' = op /\ data' = data
  BY <1>1 DEF Connect, ConnInv, IInv, BytesInv
<1>3. /\ queue \in Seq(Clients) /\ Len(queue) \in Nat
      /\ DOMAIN queue = 1..Len(queue)
      /\ \A i \in DOMAIN queue : queue[i] \in Clients
  BY ElementOfSeq, LenProperties DEF IInv, OwnInv
<1>4. /\ q \in Seq(Clients)
      /\ DOMAIN q = 1..(Len(queue) + 1)
      /\ \A i \in DOMAIN queue : q[i] = queue[i]
      /\ q[Len(queue) + 1] = c
  BY <1>3, AppendProperties, LenProperties
<1> HIDE DEF q
<1>5. /\ cn \in ConnType /\ cn.peer = "up" /\ cn.sent = conn[c].sent
      /\ cn.inb = conn[c].inb /\ cn.out = conn[c].out
  BY <1>1 DEF ConnType
<1> HIDE DEF cn
<1>6. BytesInv'
  <2>1. op' = [op EXCEPT ![c] = op[c]] /\ data' = [data EXCEPT ![c] = data[c]]
    BY <1>1, <1>2
  <2>2. ConnInv(op[c], data[c], cn)
    BY <1>1, <1>2, <1>5 DEF ConnInv
  <2>. QED
    BY <1>1, <1>2, <1>5, <2>1, <2>2, BytesUpdate DEF IInv
<1>7. /\ conn'[c].peer = "up"
      /\ \A b \in Clients \ {c} : conn'[b] = conn[b]
  BY <1>2, <1>5 DEF IInv, BytesInv
<1>8. c # socket /\ \A i \in DOMAIN queue : queue[i] # c
  BY <1>2, NoneAssumption DEF IInv, OwnInv
<1>9. \A i \in DOMAIN q : i \in DOMAIN queue \/ i = Len(queue) + 1
  BY <1>3, <1>4
<1>10. DOMAIN queue \subseteq DOMAIN q /\ Len(queue) + 1 \in DOMAIN q
  BY <1>3, <1>4
<1>11. ConnectionHasOneOwner'
  <2>1. acc' = "ok" <=> socket' # None
    BY <1>2 DEF IInv, OwnInv, ConnectionHasOneOwner
  <2>2. ASSUME NEW i \in DOMAIN q, NEW j \in DOMAIN q, q[i] = q[j]
        PROVE  i = j
    <3>1. /\ i \in DOMAIN queue => q[i] = queue[i] /\ q[i] # c
          /\ j \in DOMAIN queue => q[j] = queue[j] /\ q[j] # c
          /\ i \notin DOMAIN queue => i = Len(queue) + 1 /\ q[i] = c
          /\ j \notin DOMAIN queue => j = Len(queue) + 1 /\ q[j] = c
      BY <1>4, <1>8, <1>9
    <3>2. CASE i \in DOMAIN queue /\ j \in DOMAIN queue
      BY <2>2, <3>1, <3>2 DEF IInv, OwnInv, ConnectionHasOneOwner
    <3>3. CASE i \notin DOMAIN queue \/ j \notin DOMAIN queue
      BY <2>2, <3>1, <3>3
    <3>. QED
      BY <3>2, <3>3
  <2>3. ASSUME NEW i \in DOMAIN q
        PROVE  q[i] # socket' /\ op'[q[i]] = "none"
    <3>1. CASE i \in DOMAIN queue
      BY <3>1, <1>2, <1>4 DEF IInv, OwnInv, ConnectionHasOneOwner
    <3>2. CASE i = Len(queue) + 1
      BY <3>2, <1>2, <1>4, <1>8
    <3>. QED
      BY <3>1, <3>2, <1>9
  <2>4. socket' # None => op'[socket'] = "none"
    BY <1>2 DEF IInv, OwnInv, ConnectionHasOneOwner
  <2>5. ASSUME NEW b \in Clients, conn'[b].peer # "none", op'[b] = "none"
        PROVE  b = socket' \/ \E i \in DOMAIN q : q[i] = b
    <3>1. CASE b = c
      BY <3>1, <1>4, <1>10
    <3>2. CASE b # c
      BY <3>2, <2>5, <1>2, <1>4, <1>7, <1>10
        DEF IInv, OwnInv, ConnectionHasOneOwner
    <3>. QED
      BY <3>1, <3>2
  <2>. QED
    BY <2>1, <2>2, <2>3, <1>2, <2>4, <2>5 DEF ConnectionHasOneOwner
<1>12. \A i \in DOMAIN q : conn'[q[i]].peer # "none"
  BY <1>3, <1>4, <1>7, <1>8, <1>9 DEF IInv, OwnInv
<1>13. socket' # None => conn'[socket'].peer # "none"
  BY <1>2, <1>7, <1>8 DEF IInv, OwnInv
<1>14. OwnInv'
  BY <1>2, <1>4, <1>11, <1>12, <1>13 DEF IInv, OwnInv
<1>. QED
  BY <1>6, <1>14 DEF IInv

\* accept() moves the head of the queue into the empty member socket.
LEMMA AcceptReadyStep ==
  ASSUME IInv, AcceptReady
  PROVE  IInv'
<1>1. /\ queue \in Seq(Clients) /\ queue # << >> /\ Len(queue) \in Nat
      /\ DOMAIN queue = 1..Len(queue)
      /\ \A i \in DOMAIN queue : queue[i] \in Clients
  BY ElementOfSeq, LenProperties DEF AcceptReady, IInv, OwnInv
<1> DEFINE q == Tail(queue)
<1>2. /\ Len(queue) >= 1
      /\ Head(queue) = queue[1]
      /\ q \in Seq(Clients)
      /\ DOMAIN q = 1..(Len(queue) - 1)
      /\ \A i \in 1..(Len(queue) - 1) : q[i] = queue[i + 1]
  BY <1>1, HeadTailProperties, EmptySeq, LenProperties
<1>3. /\ queue' = q /\ socket' = queue[1] /\ acc = "pending" /\ acc' = "ok"
      /\ op' = op /\ data' = data /\ conn' = conn
  BY <1>2 DEF AcceptReady
<1> HIDE DEF q
<1>4. 1 \in DOMAIN queue /\ queue[1] \in Clients /\ queue[1] # None
  BY <1>1, <1>2, NoneAssumption
<1>5. BytesInv'
  BY <1>3 DEF IInv, BytesInv
<1>6. \A i \in DOMAIN q : i + 1 \in DOMAIN queue /\ i + 1 # 1 /\ q[i] = queue[i + 1]
  BY <1>1, <1>2
<1>7. socket = None
  BY <1>3 DEF IInv, OwnInv, ConnectionHasOneOwner
<1>8. ConnectionHasOneOwner'
  <2>1. acc' = "ok" <=> socket' # None
    BY <1>3, <1>4
  <2>2. ASSUME NEW i \in DOMAIN q, NEW j \in DOMAIN q, q[i] = q[j]
        PROVE  i = j
    <3>1. i + 1 = j + 1
      BY <2>2, <1>6 DEF IInv, OwnInv, ConnectionHasOneOwner
    <3>. QED
      BY <3>1, <1>2
  <2>3. \A i \in DOMAIN q : q[i] # queue[1] /\ op[q[i]] = "none"
    BY <1>4, <1>6 DEF IInv, OwnInv, ConnectionHasOneOwner
  <2>4. op[queue[1]] = "none"
    BY <1>4 DEF IInv, OwnInv, ConnectionHasOneOwner
  <2>5. ASSUME NEW b \in Clients, conn[b].peer # "none", op[b] = "none"
        PROVE  b = queue[1] \/ \E i \in DOMAIN q : q[i] = b
    <3>1. PICK i \in DOMAIN queue : queue[i] = b
      BY <2>5, <1>7, NoneAssumption DEF IInv, OwnInv, ConnectionHasOneOwner
    <3>2. CASE i = 1
      BY <3>1, <3>2
    <3>3. CASE i # 1
      <4>1. i - 1 \in DOMAIN q /\ q[i - 1] = queue[i]
        BY <3>3, <1>1, <1>2
      <4>. QED
        BY <3>1, <4>1
    <3>. QED
      BY <3>2, <3>3
  <2>. QED
    BY <2>1, <2>2, <2>3, <1>3, <2>4, <2>5 DEF ConnectionHasOneOwner
<1>9. OwnInv'
  <2>1. \A i \in DOMAIN q : conn[q[i]].peer # "none"
    BY <1>6 DEF IInv, OwnInv
  <2>2. conn[queue[1]].peer # "none"
    BY <1>4 DEF IInv, OwnInv
  <2>. QED
    BY <1>2, <1>3, <1>4, <1>8, <2>1, <2>2 DEF OwnInv
<1>. QED
  BY <1>5, <1>9 DEF IInv

\* A failed accept leaves the member socket empty.
LEMMA AcceptErrorStep ==
  ASSUME IInv, AcceptError
  PROVE  IInv'
  BY DEF AcceptError, IInv, BytesInv, OwnInv, ConnectionHasOneOwner

\* The handler of accept starts the session and empties the member socket.
LEMMA OnAcceptStep ==
  ASSUME IInv, OnAccept
  PROVE  IInv'
<1>1. /\ \A i \in DOMAIN queue : queue[i] \in Clients
      /\ UNCHANGED <<queue, data, conn>> /\ acc' = "pending"
  BY ElementOfSeq, LenProperties DEF OnAccept, IInv, OwnInv
<1>2. CASE acc = "ok"
  <2>1. /\ socket \in Clients /\ socket # None
        /\ op[socket] = "none" /\ conn[socket].peer # "none"
        /\ op' = [op EXCEPT ![socket] = "reading"] /\ socket' = None
    BY <1>2, NoneAssumption DEF OnAccept, IInv, OwnInv, ConnectionHasOneOwner
  <2>2. BytesInv'
    <3>1. /\ data[socket] \in Seq(Byte) /\ conn[socket] \in ConnType
          /\ ConnInv("none", data[socket], conn[socket])
          /\ data' = [data EXCEPT ![socket] = data[socket]]
          /\ conn' = [conn EXCEPT ![socket] = conn[socket]]
      BY <1>1, <2>1, BytesOf DEF IInv
    <3>2. ConnInv("reading", data[socket], conn[socket])
      BY <2>1, <3>1 DEF ConnInv
    <3>. QED
      BY <2>1, <3>1, <3>2, BytesUpdate DEF IInv, Ops
  <2>3. /\ op'[socket] = "reading"
        /\ \A b \in Clients \ {socket} : op'[b] = op[b]
    BY <2>1 DEF IInv, BytesInv
  <2>4. \A i \in DOMAIN queue : queue[i] # None /\ op'[queue[i]] = "none"
    BY <1>1, <2>3, NoneAssumption DEF IInv, OwnInv, ConnectionHasOneOwner
  <2>5. \A b \in Clients :
          conn[b].peer # "none" /\ op'[b] = "none"
             => b = None \/ \E i \in DOMAIN queue : queue[i] = b
    BY <2>3 DEF IInv, OwnInv, ConnectionHasOneOwner
  <2>6. ConnectionHasOneOwner'
    BY <1>1, <2>1, <2>4, <2>5 DEF IInv, OwnInv, ConnectionHasOneOwner
  <2>7. OwnInv'
    BY <1>1, <2>1, <2>6 DEF IInv, OwnInv
  <2>. QED
    BY <2>2, <2>7 DEF IInv
<1>3. CASE acc = "err"
  <2>1. socket = None /\ op' = op /\ socket' = socket
    BY <1>3 DEF OnAccept, IInv, OwnInv, ConnectionHasOneOwner
  <2>. QED
    BY <1>1, <1>3, <2>1 DEF IInv, BytesInv, OwnInv, ConnectionHasOneOwner
<1>. QED
  BY <1>2, <1>3 DEF OnAccept

\* At the start no connection exists.
LEMMA InitOK == Init => IInv
<1> SUFFICES ASSUME Init PROVE IInv
  OBVIOUS
<1>1. /\ << >> \in Seq(Byte) /\ << >> \in Seq(Clients)
      /\ Len(<< >>) = 0 /\ DOMAIN << >> = {}
  BY EmptySeq, LenProperties
<1>2. /\ NewConn \in ConnType /\ NewConn.peer = "none" /\ NewConn.sent = 0
      /\ NewConn.inb = << >> /\ NewConn.out = << >>
  BY <1>1, LengthAssumption DEF NewConn, ConnType
<1>3. Flow(<< >>, 0, << >>, << >>)
  BY <1>1, LengthAssumption DEF Flow
<1>4. ConnInv("none", << >>, NewConn)
  BY <1>2, <1>3 DEF ConnInv
<1>5. BytesInv
  BY <1>1, <1>2, <1>4 DEF Init, BytesInv, Ops
<1>6. OwnInv
  BY <1>1, <1>2 DEF Init, OwnInv, ConnectionHasOneOwner
<1>. QED
  BY <1>5, <1>6 DEF IInv

\* Every step of the server and of the peers keeps the invariant.
THEOREM Inductive == IInv /\ [Next]_vars => IInv'
<1> SUFFICES ASSUME IInv, [Next]_vars PROVE IInv'
  OBVIOUS
<1>1. CASE UNCHANGED vars
  BY <1>1 DEF vars, IInv, BytesInv, OwnInv, ConnectionHasOneOwner
<1>2. CASE AcceptReady
  BY <1>2, AcceptReadyStep
<1>3. CASE AcceptError
  BY <1>3, AcceptErrorStep
<1>4. CASE OnAccept
  BY <1>4, OnAcceptStep
<1>5. CASE \E c \in Clients : ReadReady(c) \/ SendSome(c)
  BY <1>5, TransferStep
<1>6. CASE \E c \in Clients : \/ ReadFails(c) \/ SendFails(c)
                             \/ OnRead(c) \/ OnWritten(c) \/ OnError(c)
  BY <1>6, SessionStep
<1>7. CASE \E c \in Clients : Connect(c)
  BY <1>7, ConnectStep
<1>8. CASE \E c \in Clients : PeerSend(c) \/ PeerFinish(c) \/ PeerReset(c)
  BY <1>8, PeerStep
<1>. QED
  BY <1>1, <1>2, <1>3, <1>4, <1>5, <1>6, <1>7, <1>8 DEF Next, ServerNext, PeerNext

\* IInv holds in every reachable state.
THEOREM Invariance == Spec => []IInv
  BY InitOK, Inductive, PTL DEF Spec

(* What the invariant gives.                                               *)

\* No connection is in two places or in none, and no accept overwrites the member
\* socket while it still holds a connection.
THEOREM Owner == Spec => []ConnectionHasOneOwner
<1>1. IInv => ConnectionHasOneOwner
  BY DEF IInv, OwnInv
<1>. QED
  BY <1>1, Invariance, PTL

\* A session ends only when its own peer reset the connection, or finished it and
\* got everything back.
THEOREM Dropped == Spec => []DroppedOnlyOnError
<1>1. IInv => DroppedOnlyOnError
  BY DEF IInv, BytesInv, ConnInv, DroppedOnlyOnError
<1>. QED
  BY <1>1, Invariance, PTL

(* Every step is a step of EchoStream or leaves its variables unchanged.   *)

In == [c \in Clients |-> Stream(c)]
Out == [c \in Clients |-> conn[c].out]
Up == [c \in Clients |-> conn[c].peer # "reset" /\ op[c] # "destroyed"]

\* The bytes a peer sent, as a sequence.
LEMMA StreamIs ==
  ASSUME BytesInv, NEW c \in Clients
  PROVE  /\ Stream(c) \in Seq(Byte) /\ Len(Stream(c)) = conn[c].sent
         /\ conn[c].sent \in 0..MaxBytes
         /\ \A k \in 1..conn[c].sent : Stream(c)[k] = k
<1>1. conn[c].sent \in 0..MaxBytes /\ conn[c].sent \in Nat
  BY LengthAssumption DEF BytesInv, ConnType
<1>2. \A k \in 1..conn[c].sent : k \in Byte
  BY <1>1, LengthAssumption DEF Byte
<1>3. Stream(c) \in Seq(Byte) /\ Len(Stream(c)) = conn[c].sent
  BY <1>1, <1>2 DEF Stream
<1>. QED
  BY <1>1, <1>3 DEF Stream

\* Out, In and Up are the variables of EchoStream; a step that changes none of them
\* is a stutter of it.
LEMMA Still ==
  ASSUME \A c \in Clients : /\ conn'[c].sent = conn[c].sent
                            /\ conn'[c].out = conn[c].out
                            /\ (conn'[c].peer # "reset" /\ op'[c] # "destroyed")
                                  = (conn[c].peer # "reset" /\ op[c] # "destroyed")
  PROVE  UNCHANGED Abstract!echoVars
  BY DEF Abstract!echoVars, Stream

\* A byte that a peer sends is a byte of its input.
LEMMA PeerSendSimulates ==
  ASSUME IInv, IInv', NEW c \in Clients, PeerSend(c)
  PROVE  Abstract!Send(c)
<1>1. /\ conn[c].sent < MaxBytes /\ op' = op
      /\ conn'[c].sent = conn[c].sent + 1
      /\ \A b \in Clients : conn'[b].out = conn[b].out /\ conn'[b].peer = conn[b].peer
      /\ \A b \in Clients \ {c} : conn'[b].sent = conn[b].sent
  BY DEF PeerSend, IInv, BytesInv, ConnType
<1>2. /\ Stream(c) \in Seq(Byte) /\ Len(Stream(c)) = conn[c].sent
      /\ conn[c].sent \in Nat
      /\ conn[c].sent + 1 \in Byte
      /\ \A k \in 1..conn[c].sent : Stream(c)[k] = k
  BY <1>1, StreamIs, LengthAssumption DEF IInv, Byte
<1> DEFINE next == [i \in 1..(conn[c].sent + 1) |-> i]
           app == Append(Stream(c), conn[c].sent + 1)
<1>3. /\ next \in Seq(Byte) /\ Len(next) = conn[c].sent + 1
      /\ \A k \in 1..(conn[c].sent + 1) : next[k] = k
  <2>1. \A k \in 1..(conn[c].sent + 1) : k \in Byte
    BY <1>1, <1>2, LengthAssumption DEF Byte
  <2>. QED
    BY <1>2, <2>1
<1>4. /\ app \in Seq(Byte) /\ Len(app) = conn[c].sent + 1
      /\ \A k \in 1..conn[c].sent : app[k] = Stream(c)[k]
      /\ app[conn[c].sent + 1] = conn[c].sent + 1
  BY <1>2, AppendProperties
<1> HIDE DEF next, app
<1>5. \A k \in 1..(conn[c].sent + 1) : next[k] = app[k]
  <2> SUFFICES ASSUME NEW k \in 1..(conn[c].sent + 1) PROVE next[k] = app[k]
    OBVIOUS
  <2>1. k \in 1..conn[c].sent \/ k = conn[c].sent + 1
    BY <1>2
  <2>. QED
    BY <2>1, <1>2, <1>3, <1>4
<1>6. next = app
  BY <1>3, <1>4, <1>5, SeqEqual
<1>7. Stream(c)' = app
  BY <1>1, <1>6 DEF Stream, next
<1>8. \A b \in Clients \ {c} : Stream(b)' = Stream(b)
  BY <1>1 DEF Stream
<1>9. In' = [In EXCEPT ![c] = Append(@, conn[c].sent + 1)]
  BY <1>7, <1>8 DEF In, app
<1>10. Out' = Out /\ Up' = Up
  BY <1>1 DEF Out, Up
<1>11. Len(In[c]) < MaxBytes /\ conn[c].sent + 1 \in 1..MaxBytes
  BY <1>1, <1>2 DEF In, Byte
<1>. QED
  BY <1>9, <1>10, <1>11 DEF Abstract!Send, In, Out, Up

\* The next of the bytes in data lies between those sent back and those sent.
LEMMA Between ==
  ASSUME NEW o \in Nat, NEW d \in Nat, NEW i \in Nat, NEW k \in 1..d
  PROVE  o + k \in (o + 1)..(o + d + i)
  OBVIOUS

\* One send() of the server returns the next bytes of the input.
LEMMA SendSomeSimulates ==
  ASSUME IInv, IInv', NEW c \in Clients, SendSome(c)
  PROVE  Abstract!Echo(c)
<1>1. PICK k \in 1..Len(data[c]) :
        /\ conn' = [conn EXCEPT ![c].out = @ \o SubSeq(data[c], 1, k)]
        /\ op' = [op EXCEPT ![c] = IF k = Len(data[c]) THEN "written" ELSE @]
        /\ op[c] = "writing" /\ conn[c].peer \in {"up", "fin"}
  BY DEF SendSome
<1> DEFINE out == conn[c].out \o SubSeq(data[c], 1, k)
           n == Len(conn[c].out) + k
<1>2. /\ Flow(data[c], conn[c].sent, conn[c].inb, conn[c].out)
      /\ conn[c].out \in Seq(Byte) /\ Len(conn[c].out) \in Nat
      /\ Len(data[c]) \in Nat /\ Len(conn[c].inb) \in Nat
      /\ conn[c] \in ConnType
  BY LenProperties DEF IInv, BytesInv, ConnInv, Flow
<1>3. Flow(SubSeq(data[c], k + 1, Len(data[c])), conn[c].sent, conn[c].inb, out)
      /\ Len(out) = n
  BY <1>2, SendBackFlow
<1>4. out \in Seq(Byte) /\ \A i \in 1..n : out[i] = i
  BY <1>3 DEF Flow
<1> HIDE DEF out
<1>5. n \in (Len(conn[c].out) + 1)..conn[c].sent
  <2>1. conn[c].sent = Len(conn[c].out) + Len(data[c]) + Len(conn[c].inb)
    BY <1>2 DEF Flow
  <2>2. n \in (Len(conn[c].out) + 1)..(Len(conn[c].out) + Len(data[c]) + Len(conn[c].inb))
    BY <1>2, Between
  <2>. QED
    BY <2>1, <2>2
<1>6. /\ Stream(c) \in Seq(Byte) /\ Len(Stream(c)) = conn[c].sent
      /\ n \in 0..conn[c].sent
      /\ \A i \in 1..n : Stream(c)[i] = i
  BY <1>2, <1>5, StreamIs DEF IInv
<1> DEFINE prefix == SubSeq(Stream(c), 1, n)
<1>7. prefix \in Seq(Byte) /\ Len(prefix) = n /\ \A i \in 1..n : prefix[i] = i
  BY <1>6, Divide
<1> HIDE DEF prefix, n
<1>8. out = prefix
  BY <1>3, <1>4, <1>7, SeqEqual
<1>9. /\ conn'[c].out = out
      /\ \A b \in Clients \ {c} : conn'[b].out = conn[b].out
      /\ \A b \in Clients : conn'[b].sent = conn[b].sent /\ conn'[b].peer = conn[b].peer
      /\ \A b \in Clients : op'[b] # "destroyed" <=> op[b] # "destroyed"
  BY <1>1 DEF out, IInv, BytesInv, ConnType
<1>10. Out' = [Out EXCEPT ![c] = SubSeq(In[c], 1, n)]
  BY <1>8, <1>9 DEF Out, In, prefix
<1>11. In' = In /\ Up' = Up
  BY <1>9 DEF In, Up, Stream
<1>12. Up[c] /\ n \in (Len(Out[c]) + 1)..Len(In[c])
  BY <1>1, <1>5, <1>6 DEF Up, Out, In
<1>. QED
  BY <1>10, <1>11, <1>12 DEF Abstract!Echo, In, Out, Up

\* Only a reset and the end of a session take a connection down.
LEMMA DownSimulates ==
  ASSUME IInv, IInv', NEW c \in Clients, PeerReset(c) \/ OnError(c)
  PROVE  Abstract!GoDown(c) \/ UNCHANGED Abstract!echoVars
<1>1. /\ \A b \in Clients : conn'[b].sent = conn[b].sent /\ conn'[b].out = conn[b].out
      /\ conn'[c].peer = "reset" \/ op'[c] = "destroyed"
      /\ \A b \in Clients \ {c} : conn'[b].peer = conn[b].peer /\ op'[b] = op[b]
  <2>1. CASE PeerReset(c)
    BY <2>1 DEF PeerReset, IInv, BytesInv, ConnType
  <2>2. CASE OnError(c)
    BY <2>2 DEF OnError, IInv, BytesInv
  <2>. QED
    BY <2>1, <2>2
<1>2. CASE conn[c].peer # "reset" /\ op[c] # "destroyed"
  <2>1. In' = In /\ Out' = Out
    BY <1>1 DEF In, Out, Stream
  <2>2. Up' = [Up EXCEPT ![c] = FALSE] /\ Up[c]
    BY <1>1, <1>2, Zenon DEF Up
  <2>. QED
    BY <2>1, <2>2 DEF Abstract!GoDown, In, Out, Up
<1>3. CASE ~(conn[c].peer # "reset" /\ op[c] # "destroyed")
  <2>1. conn[c].peer = "reset" => conn'[c].peer = "reset"
    BY DEF PeerReset, OnError, IInv, BytesInv, ConnType
  <2>2. op[c] = "destroyed" => op'[c] = "destroyed"
    BY DEF PeerReset, OnError, IInv, BytesInv
  <2>. QED
    BY <1>1, <1>3, <2>1, <2>2, Still
<1>. QED
  BY <1>2, <1>3

\* Whatever happens between those steps, the peers do not see.
LEMMA HiddenSteps ==
  ASSUME IInv, IInv',
         \/ UNCHANGED vars
         \/ AcceptReady \/ AcceptError \/ OnAccept
         \/ \E c \in Clients : \/ ReadReady(c) \/ ReadFails(c) \/ SendFails(c)
                               \/ OnRead(c) \/ OnWritten(c)
                               \/ Connect(c) \/ PeerFinish(c)
  PROVE  UNCHANGED Abstract!echoVars
<1>1. CASE UNCHANGED vars \/ AcceptReady \/ AcceptError
  <2>1. conn' = conn /\ op' = op
    BY <1>1 DEF vars, AcceptReady, AcceptError
  <2>. QED
    BY <2>1, Still
<1>2. CASE OnAccept
  <2>1. CASE acc = "ok"
    <3>1. socket \in Clients /\ op[socket] = "none" /\ conn' = conn
      BY <1>2, <2>1, NoneAssumption
        DEF OnAccept, IInv, OwnInv, ConnectionHasOneOwner
    <3>2. \A b \in Clients : op'[b] # "destroyed" <=> op[b] # "destroyed"
      BY <1>2, <2>1, <3>1 DEF OnAccept, IInv, BytesInv
    <3>. QED
      BY <3>1, <3>2, Still
  <2>2. CASE acc # "ok"
    <3>1. conn' = conn /\ op' = op
      BY <1>2, <2>2 DEF OnAccept
    <3>. QED
      BY <3>1, Still
  <2>. QED
    BY <2>1, <2>2
<1>3. ASSUME NEW c \in Clients,
             \/ ReadReady(c) \/ ReadFails(c) \/ SendFails(c)
             \/ OnRead(c) \/ OnWritten(c)
             \/ Connect(c) \/ PeerFinish(c)
      PROVE  UNCHANGED Abstract!echoVars
  <2>1. /\ \A b \in Clients : conn'[b].sent = conn[b].sent /\ conn'[b].out = conn[b].out
        /\ \A b \in Clients : conn'[b].peer # "reset" <=> conn[b].peer # "reset"
        /\ \A b \in Clients : op'[b] # "destroyed" <=> op[b] # "destroyed"
    <3>1. CASE ReadFails(c) \/ SendFails(c) \/ OnRead(c) \/ OnWritten(c)
      BY <3>1 DEF ReadFails, SendFails, OnRead, OnWritten, IInv, BytesInv
    <3>2. CASE ReadReady(c)
      BY <3>2 DEF ReadReady, IInv, BytesInv, ConnType
    <3>3. CASE Connect(c)
      BY <3>3 DEF Connect, IInv, BytesInv, ConnType
    <3>4. CASE PeerFinish(c)
      BY <3>4 DEF PeerFinish, IInv, BytesInv, ConnType
    <3>. QED
      BY <1>3, <3>1, <3>2, <3>3, <3>4
  <2>. QED
    BY <2>1, Still
<1>. QED
  BY <1>1, <1>2, <1>3

\* A step of the server or of a peer is a step of EchoStream or a stutter.
LEMMA StepSimulates ==
  ASSUME IInv, IInv', [Next]_vars
  PROVE  [Abstract!EchoNext]_(Abstract!echoVars)
<1>1. CASE \E c \in Clients : PeerSend(c)
  BY <1>1, PeerSendSimulates DEF Abstract!EchoNext
<1>2. CASE \E c \in Clients : SendSome(c)
  BY <1>2, SendSomeSimulates DEF Abstract!EchoNext
<1>3. CASE \E c \in Clients : PeerReset(c) \/ OnError(c)
  BY <1>3, DownSimulates DEF Abstract!EchoNext
<1>4. CASE \/ UNCHANGED vars
           \/ AcceptReady \/ AcceptError \/ OnAccept
           \/ \E c \in Clients : \/ ReadReady(c) \/ ReadFails(c) \/ SendFails(c)
                                 \/ OnRead(c) \/ OnWritten(c)
                                 \/ Connect(c) \/ PeerFinish(c)
  BY <1>4, HiddenSteps
<1>. QED
  BY <1>1, <1>2, <1>3, <1>4 DEF Next, ServerNext, PeerNext

\* The safety part of ImplementsEcho: what a peer reads is at all times a beginning
\* of what it sent, in order, unchanged and once, and nothing after its connection
\* went down.
THEOREM EchoesInOrder ==
  Spec => Abstract!EchoInit /\ [][Abstract!EchoNext]_(Abstract!echoVars)
<1>1. Init => Abstract!EchoInit
  <2> SUFFICES ASSUME Init PROVE Abstract!EchoInit
    OBVIOUS
  <2>1. \A c \in Clients : /\ conn[c].sent = 0 /\ conn[c].out = << >>
                           /\ conn[c].peer = "none" /\ op[c] = "none"
    BY DEF Init, NewConn
  <2>2. \A c \in Clients : Stream(c) = << >>
    <3> SUFFICES ASSUME NEW c \in Clients PROVE Stream(c) = << >>
      OBVIOUS
    <3>1. Stream(c) \in Seq(Byte) /\ Len(Stream(c)) = 0
      BY <2>1, InitOK, StreamIs DEF IInv
    <3>. QED
      BY <3>1, Empty
  <2>. QED
    BY <2>1, <2>2 DEF Abstract!EchoInit
<1>2. IInv /\ IInv' /\ [Next]_vars => [Abstract!EchoNext]_(Abstract!echoVars)
  BY StepSimulates
<1>. QED
  BY <1>1, <1>2, Invariance, PTL DEF Spec

(* The blocking clients of TcpEchoClient.                                  *)

PCs == {"connect", "write", "read", "close", "done", "failed"}

\* What asio::read has collected is a beginning of the request, and the whole of it when
\* client() goes on.
ReplyInv ==
    /\ pc \in [Clients -> PCs]
    /\ reply \in [Clients -> Seq(Byte)]
    /\ \A c \in Clients :
          /\ \A k \in 1..Len(reply[c]) : reply[c][k] = k
          /\ pc[c] \in {"close", "done"} => Len(reply[c]) = requestSize

ClientInv == IInv /\ ReplyInv

\* A step of the system with blocking clients is one of the server and its peers.
LEMMA ClientIsPeer == [ClientNext]_clientVars => [Next]_vars
<1> SUFFICES ASSUME [ClientNext]_clientVars PROVE [Next]_vars
  OBVIOUS
<1>1. CASE UNCHANGED clientVars
  BY <1>1 DEF clientVars
<1>2. CASE ServerNext
  BY <1>2 DEF Next
<1>3. ASSUME NEW c \in Blocking,
             ClientConnect(c) \/ ClientWrite(c) \/ ClientClose(c) \/ ClientThrows(c)
      PROVE  [Next]_vars
  <2>1. PeerNext(c) /\ c \in Clients
    BY <1>3, BlockingAssumption
       DEF ClientConnect, ClientWrite, ClientClose, ClientThrows, PeerNext
  <2>. QED
    BY <2>1 DEF Next
<1>4. ASSUME NEW c \in Blocking, ClientRead(c) PROVE [Next]_vars
  BY <1>4 DEF ClientRead
<1>5. ASSUME NEW c \in Clients \ Blocking, PeerNext(c) PROVE [Next]_vars
  BY <1>5 DEF Next
<1>. QED
  BY <1>1, <1>2, <1>3, <1>4, <1>5 DEF ClientNext

\* asio::read takes the reply out of what the server sent back, which is the request.
LEMMA ReadKeeps ==
  ASSUME IInv, ReplyInv, NEW c \in Blocking, ClientRead(c)
  PROVE  ReplyInv'
<1>1. c \in Clients
  BY BlockingAssumption
<1>2. PICK n \in (Len(reply[c]) + 1)..Len(conn[c].out) :
        /\ n <= requestSize
        /\ reply' = [reply EXCEPT ![c] = SubSeq(conn[c].out, 1, n)]
        /\ pc' = [pc EXCEPT ![c] = IF n = requestSize THEN "close" ELSE @]
  BY DEF ClientRead
<1>3. pc[c] = "read" /\ pc[c] \notin {"close", "done"}
  BY DEF ClientRead
<1> DEFINE s == conn[c].out
           r == SubSeq(s, 1, n)
<1>4. s \in Seq(Byte) /\ \A k \in 1..Len(s) : s[k] = k
  BY <1>1 DEF IInv, BytesInv, ConnInv, Flow
<1>5. n \in 0..Len(s)
  BY <1>1, <1>4, LenProperties DEF ReplyInv
<1>6. r \in Seq(Byte) /\ Len(r) = n /\ \A k \in 1..n : r[k] = k
  <2>1. r \in Seq(Byte) /\ Len(r) = n /\ \A k \in 1..n : r[k] = s[k]
    BY <1>4, <1>5, Divide
  <2>2. \A k \in 1..n : k \in 1..Len(s)
    BY <1>4, <1>5, LenProperties
  <2> HIDE DEF r, s
  <2>. QED
    BY <1>4, <2>1, <2>2
<1>7. reply' = [reply EXCEPT ![c] = r]
  BY <1>2
<1> HIDE DEF r, s
<1>8. \A e \in Clients \ {c} : reply'[e] = reply[e] /\ pc'[e] = pc[e]
  BY <1>2, <1>7 DEF ReplyInv
<1>9. reply'[c] = r /\ (pc'[c] \in {"close", "done"} => n = requestSize)
  BY <1>1, <1>2, <1>3, <1>7 DEF ReplyInv
<1>10. pc' \in [Clients -> PCs] /\ reply' \in [Clients -> Seq(Byte)]
  BY <1>2, <1>6, <1>7 DEF ReplyInv, PCs
<1>11. ASSUME NEW e \in Clients
       PROVE  /\ \A k \in 1..Len(reply'[e]) : reply'[e][k] = k
              /\ pc'[e] \in {"close", "done"} => Len(reply'[e]) = requestSize
  <2>1. CASE e = c
    BY <1>6, <1>9, <2>1
  <2>2. CASE e # c
    BY <1>8, <2>2 DEF ReplyInv
  <2>. QED
    BY <2>1, <2>2
<1>. QED
  BY <1>10, <1>11 DEF ReplyInv

\* The other steps of a client leave the reply; only a whole one is followed by the close.
LEMMA ReplyStep ==
  ASSUME IInv, ReplyInv, [ClientNext]_clientVars
  PROVE  ReplyInv'
<1>1. CASE UNCHANGED <<pc, reply>>
  BY <1>1 DEF ReplyInv
<1>2. ASSUME NEW c \in Blocking, ClientRead(c) PROVE ReplyInv'
  BY <1>2, ReadKeeps
<1>3. ASSUME NEW c \in Blocking,
             ClientConnect(c) \/ ClientWrite(c) \/ ClientClose(c) \/ ClientThrows(c)
      PROVE  ReplyInv'
  <2>1. reply' = reply
    BY <1>3 DEF ClientConnect, ClientWrite, ClientClose, ClientThrows
  <2>2. PICK p \in PCs : /\ pc' = [pc EXCEPT ![c] = p]
                         /\ p \in {"close", "done"} => pc[c] = "close"
    <3>1. pc[c] = "write" \/ pc[c] # "write"
      OBVIOUS
    <3>. QED
      BY <1>3, <3>1 DEF ClientConnect, ClientWrite, ClientClose, ClientThrows, PCs
  <2>. QED
    BY <2>1, <2>2 DEF ReplyInv
<1>. QED
  BY <1>1, <1>2, <1>3 DEF ClientNext, clientVars

\* What client() prints as the reply is its request, for every number of clients and
\* every way in which server and client split it.
THEOREM RepliesMatch == ClientSpec => []ReplyIsRequest
<1>1. ClientInit => ClientInv
  <2>1. ClientInit => ReplyInv
    <3>1. Len(<< >>) = 0 /\ << >> \in Seq(Byte)
      BY EmptySeq
    <3>. QED
      BY <3>1 DEF ClientInit, ReplyInv, PCs
  <2>. QED
    BY <2>1, InitOK DEF ClientInit, ClientInv
<1>2. ClientInv /\ [ClientNext]_clientVars => ClientInv'
  <2> SUFFICES ASSUME ClientInv, [ClientNext]_clientVars PROVE ClientInv'
    OBVIOUS
  <2>1. [Next]_vars
    BY ClientIsPeer
  <2>2. IInv'
    BY <2>1, Inductive DEF ClientInv
  <2>3. ReplyInv'
    BY ReplyStep DEF ClientInv
  <2>. QED
    BY <2>2, <2>3 DEF ClientInv
<1>3. ClientInv => ReplyIsRequest
  <2> SUFFICES ASSUME ClientInv, NEW c \in Blocking, pc[c] = "done"
               PROVE  reply[c] = [i \in 1..requestSize |-> i]
    BY DEF ReplyIsRequest
  <2>1. /\ reply[c] \in Seq(Byte) /\ Len(reply[c]) = requestSize
        /\ \A k \in 1..requestSize : reply[c][k] = k
    BY BlockingAssumption DEF ClientInv, ReplyInv
  <2>2. PICK s \in Seq(Byte) : s = reply[c]
    BY <2>1
  <2>3. s \in [1..requestSize -> Byte] /\ \A k \in 1..requestSize : s[k] = k
    BY <2>1, <2>2, LenProperties
  <2>4. s = [i \in 1..requestSize |-> i]
    BY <2>3
  <2>. QED
    BY <2>2, <2>4
<1>. QED
  BY <1>1, <1>2, <1>3, PTL DEF ClientSpec
====
