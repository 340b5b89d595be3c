---- MODULE WebSocketServerProofs ----
(***************************************************************************)
(* Safety of the sessions of WebSocketServer for every set of clients,     *)
(* every size of the messages and every size of what the TLS layer copies. *)
(* What a session has read and what is on its wire are followed piece by   *)
(* piece: the first on the wire is the one that is due, and each is        *)
(* followed by the next one of the client (Wire).  Buffered says what the  *)
(* buffer holds at each operation, and that the pieces that were copied    *)
(* in time are those that a late write cannot spoil.                       *)
(***************************************************************************)
EXTENDS WebSocketServer, SequenceTheorems, TLAPS

Piece == Int \X Int

ConnType ==
    [peer : {"none", "up", "closed", "reset"}, hello : 0..2,
     lens : Seq(Nat \ {0}), wire : Seq(Piece), got : Seq(Seq(Piece))]

Phases  == {"none", "run", "handshake", "accept", "read", "write", "gone"}
Results == {"none", "waiting", "ok", "closed", "error"}

TypeInv ==
    /\ acc \in {"pending", "ok", "err"}
    /\ queue \in Seq(Clients)
    /\ socket \in Clients \cup {None}
    /\ at \in [Clients -> Phases]
    /\ op \in [Clients -> Results]
    /\ broken \in [Clients -> BOOLEAN]
    /\ buffer \in [Clients -> Seq(Piece)]
    /\ copied \in [Clients -> Nat]
    /\ pinging \in [Clients -> BOOLEAN]
    /\ held \in [Clients -> BOOLEAN]
    /\ conn \in [Clients -> ConnType]

(* The listener.                                                           *)

\* A connection that waits, or is delivered, has no session and waits once.
Waiting(c) == conn[c].peer # "none" /\ at[c] = "none"

ListenerInv ==
    /\ \A i \in DOMAIN queue : Waiting(queue[i]) /\ queue[i] # socket
    /\ \A i, j \in DOMAIN queue : queue[i] = queue[j] => i = j
    /\ acc = "ok" <=> socket # None
    /\ socket # None => Waiting(socket)

(* The pieces of one client: lens are the lengths of its messages.         *)

Sent(p, lens) == p[1] \in 1..Len(lens) /\ p[2] \in 1..lens[p[1]]

\* The piece after p
After(p, lens) ==
    IF p[2] < lens[p[1]] THEN <<p[1], p[2] + 1>> ELSE <<p[1] + 1, 1>>

\* The pieces on the wire, of which due is the first: nothing follows the frame that
\* closes, and a peer that is up has put all of its last message there.
Wire(due, wire, lens, peer) ==
    /\ \A i \in 1..Len(wire) : wire[i] = Closed \/ Sent(wire[i], lens)
    /\ wire # << >> => wire[1] \in {due, Closed}
    /\ \A i \in 1..(Len(wire) - 1) :
          wire[i] # Closed /\ wire[i + 1] \in {After(wire[i], lens), Closed}
    /\ peer = "up" =>
          /\ \A i \in 1..Len(wire) : wire[i] # Closed
          /\ IF wire = << >> THEN due = <<Len(lens) + 1, 1>>
             ELSE wire[Len(wire)] = <<Len(lens), lens[Len(lens)]>>

(* One session: at a, whose operation is o, and b has been read.           *)

\* The message has been read and not answered
Full(a, o) == (a = "read" /\ o = "ok") \/ (a = "write" /\ o = "waiting")

Answered(a, o) == a = "write" /\ o = "ok"

\* The piece that is read next
Due(a, o, b, n) ==
    IF Full(a, o) THEN <<n + 2, 1>>
    ELSE IF Answered(a, o) THEN <<n + 1, 1>> ELSE <<n + 1, Len(b) + 1>>

\* b is the message after the n that are answered, or its beginning.
Buffered(a, o, b, n, lens) ==
    /\ ~Answered(a, o) => \A k \in 1..Len(b) : b[k] = <<n + 1, k>>
    /\ IF Full(a, o) THEN n + 1 <= Len(lens) /\ Len(b) = lens[n + 1]
       ELSE ~Answered(a, o) /\ b # << >> => n + 1 <= Len(lens) /\ Len(b) < lens[n + 1]

Answers(got, lens) ==
    \A n \in 1..Len(got) :
        /\ n <= Len(lens) /\ Len(got[n]) = lens[n]
        /\ \A k \in 1..Len(got[n]) : got[n][k] \in {<<n, k>>, Junk}

\* What was copied when on_read returned, or the answer waited for a ping
InTime(m, b, k, h) == k >= Len(b) \/ (m = "async" /\ (k >= Copied \/ h))

\* m is the mode, br whether the stream is broken, k what was copied, h whether a
\* ping held up the answer, cn the connection.
Holds(m, a, o, br, b, k, h, cn) ==
    /\ Answers(cn.got, cn.lens)
    /\ o = "error" => br
    /\ a \in {"none", "run", "handshake", "accept"} => b = << >>
    /\ a = "none" => o = "none"
    /\ ~br /\ a # "gone" =>
          /\ Buffered(a, o, b, Len(cn.got), cn.lens)
          /\ Wire(Due(a, o, b, Len(cn.got)), cn.wire, cn.lens, cn.peer)
          /\ a = "write" /\ o = "waiting" => InTime(m, b, k, h)
    /\ cn.peer = "none" => a = "none" /\ cn.lens = << >> /\ cn.wire = << >>

Session(c) ==
    Holds(mode, at[c], op[c], broken[c], buffer[c], copied[c], held[c], conn[c])

\* A step that changes the session of c only
Update(c, a, o, br, b, k, h, cn) ==
    /\ mode' = mode
    /\ at' = [at EXCEPT ![c] = a]
    /\ op' = [op EXCEPT ![c] = o]
    /\ broken' = [broken EXCEPT ![c] = br]
    /\ buffer' = [buffer EXCEPT ![c] = b]
    /\ copied' = [copied EXCEPT ![c] = k]
    /\ held' = [held EXCEPT ![c] = h]
    /\ conn' = [conn EXCEPT ![c] = cn]

\* What such a step leaves: every session is as it has to be, the others as they were.
Settled(c) ==
    /\ at' \in [Clients -> Phases] /\ op' \in [Clients -> Results]
    /\ broken' \in [Clients -> BOOLEAN] /\ buffer' \in [Clients -> Seq(Piece)]
    /\ copied' \in [Clients -> Nat] /\ held' \in [Clients -> BOOLEAN]
    /\ conn' \in [Clients -> ConnType]
    /\ \A e \in Clients : Session(e)'
    /\ \A e \in Clients \ {c} : at'[e] = at[e] /\ conn'[e] = conn[e]

IInv ==
    /\ TypeInv
    /\ ListenerInv
    /\ \A c \in Clients : Session(c)

(* The wire.                                                               *)

\* The parts of a connection.
LEMMA ConnParts ==
  ASSUME NEW cn \in ConnType
  PROVE  /\ cn.lens \in Seq(Nat \ {0}) /\ Len(cn.lens) \in Nat
         /\ \A n \in 1..Len(cn.lens) : cn.lens[n] \in Nat \ {0}
         /\ cn.wire \in Seq(Piece) /\ Len(cn.wire) \in Nat
         /\ cn.got \in Seq(Seq(Piece)) /\ Len(cn.got) \in Nat
         /\ cn.peer \in {"none", "up", "closed", "reset"} /\ cn.hello \in 0..2
<1>1. /\ cn.lens \in Seq(Nat \ {0}) /\ cn.wire \in Seq(Piece)
      /\ cn.got \in Seq(Seq(Piece))
      /\ cn.peer \in {"none", "up", "closed", "reset"} /\ cn.hello \in 0..2
  BY DEF ConnType
<1>. QED
  BY <1>1, LenProperties, ElementOfSeq

\* A piece of a message is neither the frame that closes nor junk.
LEMMA SentIs ==
  ASSUME NEW p \in Piece, NEW lens \in Seq(Nat \ {0}), Sent(p, lens)
  PROVE  p # Closed /\ p[1] \in Nat \ {0} /\ p[2] \in Nat \ {0}
<1>1. Len(lens) \in Nat /\ lens[p[1]] \in Nat
  BY LenProperties, ElementOfSeq DEF Sent
<1>. QED
  BY <1>1 DEF Sent, Closed

\* The first piece on the wire is the one that is due, and then the next one is.
LEMMA WireRead ==
  ASSUME NEW due, NEW wire \in Seq(Piece), NEW lens \in Seq(Nat \ {0}), NEW peer,
         Wire(due, wire, lens, peer), wire # << >>, wire[1] # Closed
  PROVE  /\ wire[1] = due /\ Sent(due, lens)
         /\ Wire(After(due, lens), Tail(wire), lens, peer)
<1> DEFINE u == Tail(wire)
<1>1. /\ Len(wire) \in Nat \ {0} /\ \A i \in 1..Len(wire) : wire[i] \in Piece
      /\ u \in Seq(Piece) /\ Len(u) = Len(wire) - 1
      /\ \A i \in 1..(Len(wire) - 1) : u[i] = wire[i + 1]
  BY EmptySeq, LenProperties, ElementOfSeq, HeadTailProperties
<1>2. 1 \in 1..Len(wire) /\ wire[1] = due /\ Sent(due, lens)
  BY <1>1 DEF Wire
<1> HIDE DEF u
<1>3. \A i \in 1..Len(u) : i + 1 \in 1..Len(wire) /\ u[i] = wire[i + 1]
  BY <1>1
<1>4. \A i \in 1..Len(u) : u[i] = Closed \/ Sent(u[i], lens)
  BY <1>3 DEF Wire
<1>5. u # << >> => u[1] \in {After(due, lens), Closed}
  <2>1. ASSUME u # << >> PROVE 1 \in 1..(Len(wire) - 1) /\ u[1] = wire[1 + 1]
    BY <1>1, <2>1, EmptySeq
  <2>. QED
    BY <1>2, <2>1 DEF Wire
<1>6. ASSUME NEW i \in 1..(Len(u) - 1)
      PROVE  u[i] # Closed /\ u[i + 1] \in {After(u[i], lens), Closed}
  <2>1. /\ i + 1 \in 1..(Len(wire) - 1) /\ i \in 1..(Len(wire) - 1)
        /\ i + 1 \in 1..Len(u)
    BY <1>1
  <2>2. u[i] = wire[i + 1] /\ u[i + 1] = wire[(i + 1) + 1]
    BY <1>1, <2>1
  <2>. QED
    BY <2>1, <2>2 DEF Wire
<1>7. ASSUME peer = "up"
      PROVE  /\ \A i \in 1..Len(u) : u[i] # Closed
             /\ IF u = << >> THEN After(due, lens) = <<Len(lens) + 1, 1>>
                ELSE u[Len(u)] = <<Len(lens), lens[Len(lens)]>>
  <2>1. wire[Len(wire)] = <<Len(lens), lens[Len(lens)]>>
    BY <1>7 DEF Wire
  <2>2. \A i \in 1..Len(u) : u[i] # Closed
    BY <1>3, <1>7 DEF Wire
  <2>3. CASE u = << >>
    <3>1. Len(wire) = 1
      BY <1>1, <2>3, EmptySeq
    <3>2. due = <<Len(lens), lens[Len(lens)]>>
      BY <1>2, <2>1, <3>1
    <3>3. Len(lens) \in 1..Len(lens) /\ Len(lens) \in Nat /\ lens[Len(lens)] \in Nat
      <4>1. Len(lens) \in 1..Len(lens)
        BY <1>2, <3>2 DEF Sent
      <4>. QED
        BY <4>1, LenProperties, ElementOfSeq
    <3>4. ~(lens[Len(lens)] < lens[Len(lens)])
      BY <3>3
    <3>5. After(due, lens) = <<Len(lens) + 1, 1>>
      BY <3>2, <3>4 DEF After
    <3>. QED
      BY <2>2, <2>3, <3>5
  <2>4. CASE u # << >>
    <3>1. Len(u) \in 1..(Len(wire) - 1) /\ Len(u) + 1 = Len(wire)
      BY <1>1, <2>4, EmptySeq
    <3>2. u[Len(u)] = wire[Len(wire)]
      BY <1>1, <3>1
    <3>. QED
      BY <2>1, <2>2, <2>4, <3>2
  <2>. QED
    BY <2>3, <2>4
<1>. QED
  BY <1>2, <1>4, <1>5, <1>6, <1>7 DEF Wire, u

\* A message that is sent comes after the last one.
LEMMA WireSend ==
  ASSUME NEW due, NEW wire \in Seq(Piece), NEW lens \in Seq(Nat \ {0}),
         Wire(due, wire, lens, "up"), NEW len \in Nat \ {0}
  PROVE  /\ wire \o Message(Len(lens) + 1, len) \in Seq(Piece)
         /\ Append(lens, len) \in Seq(Nat \ {0})
         /\ Wire(due, wire \o Message(Len(lens) + 1, len), Append(lens, len), "up")
<1> DEFINE N == Len(lens)
           W == Len(wire)
           m == Message(N + 1, len)
           u == wire \o m
           more == Append(lens, len)
<1>1. /\ N \in Nat /\ W \in Nat /\ \A i \in 1..W : wire[i] \in Piece
      /\ \A n \in 1..N : lens[n] \in Nat \ {0}
      /\ more \in Seq(Nat \ {0}) /\ Len(more) = N + 1
      /\ \A n \in 1..N : more[n] = lens[n]
      /\ more[N + 1] = len
  BY LenProperties, ElementOfSeq, AppendProperties
<1>2. m \in Seq(Piece) /\ Len(m) = len /\ \A k \in 1..len : m[k] = <<N + 1, k>>
  BY <1>1 DEF Message, Piece
<1> HIDE DEF N, W, m, more
<1>3. /\ u \in Seq(Piece) /\ Len(u) = W + len
      /\ \A i \in 1..W : u[i] = wire[i]
      /\ \A i \in (W + 1)..(W + len) : u[i] = <<N + 1, i - W>>
  <2>1. /\ u \in Seq(Piece) /\ Len(u) = W + len
        /\ \A i \in 1..(W + len) : u[i] = IF i <= W THEN wire[i] ELSE m[i - W]
    BY <1>2, ConcatProperties DEF W
  <2>2. \A i \in 1..W : i \in 1..(W + len) /\ i <= W
    BY <1>1
  <2>3. \A i \in (W + 1)..(W + len) :
           i \in 1..(W + len) /\ ~(i <= W) /\ i - W \in 1..len
    BY <1>1
  <2>. QED
    BY <1>2, <2>1, <2>2, <2>3
<1> HIDE DEF u
<1>4. \A i \in 1..(W + len) : i \in 1..W \/ i \in (W + 1)..(W + len)
  BY <1>1
<1>5. /\ \A i \in 1..W : wire[i] # Closed /\ Sent(wire[i], lens)
      /\ wire # << >> => wire[1] \in {due, Closed}
      /\ \A i \in 1..(W - 1) : wire[i + 1] \in {After(wire[i], lens), Closed}
      /\ IF wire = << >> THEN due = <<N + 1, 1>> ELSE wire[W] = <<N, lens[N]>>
  BY DEF Wire, N, W
<1>6. ASSUME NEW p \in Piece, Sent(p, lens)
      PROVE  Sent(p, more) /\ After(p, more) = After(p, lens)
  <2>1. p[1] \in 1..N /\ p[2] \in 1..lens[p[1]]
    BY <1>6 DEF Sent, N
  <2>2. p[1] \in 1..(N + 1) /\ more[p[1]] = lens[p[1]]
    BY <1>1, <2>1
  <2>. QED
    BY <1>1, <2>1, <2>2 DEF Sent, After
<1>7. \A k \in 1..len : Sent(<<N + 1, k>>, more) /\ <<N + 1, k>> # Closed
  BY <1>1 DEF Sent, Closed
<1>8. \A i \in 1..(W + len) : u[i] # Closed /\ Sent(u[i], more)
  <2>1. ASSUME NEW i \in 1..W PROVE u[i] # Closed /\ Sent(u[i], more)
    BY <1>1, <1>3, <1>5, <1>6
  <2>2. ASSUME NEW i \in (W + 1)..(W + len) PROVE u[i] # Closed /\ Sent(u[i], more)
    <3>1. i - W \in 1..len
      BY <1>1
    <3>. QED
      BY <1>3, <1>7, <3>1
  <2>. QED
    BY <1>4, <2>1, <2>2
<1>9. u[1] = due \/ u[1] = Closed
  <2>1. CASE wire = << >>
    <3>1. W = 0 /\ 1 \in (W + 1)..(W + len)
      BY <1>1, <2>1, EmptySeq DEF W
    <3>2. u[1] = <<N + 1, 1 - W>> /\ 1 - W = 1
      BY <1>3, <3>1
    <3>. QED
      BY <1>5, <2>1, <3>2
  <2>2. CASE wire # << >>
    <3>1. 1 \in 1..W
      BY <1>1, <2>2, EmptySeq DEF W
    <3>. QED
      BY <1>3, <1>5, <2>2, <3>1
  <2>. QED
    BY <2>1, <2>2
<1>10. ASSUME NEW i \in 1..(W + len - 1)
       PROVE  u[i + 1] \in {After(u[i], more), Closed}
  <2>1. CASE i \in 1..(W - 1)
    <3>1. i \in 1..W /\ i + 1 \in 1..W
      BY <1>1, <2>1
    <3>. QED
      BY <1>1, <1>3, <1>5, <1>6, <2>1, <3>1
  <2>2. CASE i = W /\ W > 0
    <3>1. /\ W \in 1..W /\ W + 1 \in (W + 1)..(W + len)
          /\ wire # << >>
      BY <1>1, <2>2, EmptySeq DEF W
    <3>2. /\ u[W] = <<N, lens[N]>> /\ u[W + 1] = <<N + 1, 1>>
      <4>1. u[W] = wire[W] /\ u[W + 1] = <<N + 1, (W + 1) - W>>
        BY <1>3, <3>1
      <4>2. (W + 1) - W = 1
        BY <1>1
      <4>3. wire[W] = <<N, lens[N]>>
        BY <1>5, <3>1
      <4>. QED
        BY <4>1, <4>2, <4>3
    <3>3. Sent(<<N, lens[N]>>, lens)
      BY <1>3, <1>5, <3>1, <3>2
    <3>4. N \in 1..N /\ lens[N] \in Nat /\ ~(more[N] > lens[N])
      BY <1>1, <3>3 DEF Sent, N
    <3>5. After(u[W], more) = <<N + 1, 1>>
      BY <3>2, <3>4, <1>1 DEF After
    <3>. QED
      BY <2>2, <3>2, <3>5
  <2>3. CASE i \in (W + 1)..(W + len - 1)
    <3>1. /\ i \in (W + 1)..(W + len) /\ i + 1 \in (W + 1)..(W + len)
          /\ (i + 1) - W = (i - W) + 1 /\ i - W < len
      BY <1>1, <2>3
    <3>2. u[i] = <<N + 1, i - W>> /\ u[i + 1] = <<N + 1, (i - W) + 1>>
      BY <1>3, <3>1
    <3>. QED
      BY <1>1, <3>1, <3>2 DEF After
  <2>. QED
    BY <1>1, <2>1, <2>2, <2>3
<1>11. /\ u # << >> /\ u[Len(u)] = <<Len(more), more[Len(more)]>>
  <2>1. W + len \in (W + 1)..(W + len) /\ W + len # 0 /\ (W + len) - W = len
    BY <1>1
  <2>. QED
    BY <1>1, <1>3, <2>1, EmptySeq
<1>12. Wire(due, u, more, "up")
  <2>1. \A i \in 1..Len(u) : u[i] # Closed /\ (u[i] = Closed \/ Sent(u[i], more))
    BY <1>3, <1>8
  <2>2. \A i \in 1..(Len(u) - 1) : i \in 1..Len(u) /\ i \in 1..(W + len - 1)
    BY <1>1, <1>3
  <2>3. \A i \in 1..(Len(u) - 1) :
           u[i] # Closed /\ u[i + 1] \in {After(u[i], more), Closed}
    BY <1>10, <2>1, <2>2
  <2>4. u # << >> => u[1] \in {due, Closed}
    BY <1>9
  <2>5. /\ \A i \in 1..Len(u) : u[i] = Closed \/ Sent(u[i], more)
        /\ \A i \in 1..Len(u) : u[i] # Closed
    BY <2>1
  <2>. QED
    BY <1>11, <2>3, <2>4, <2>5 DEF Wire
<1>. QED
  BY <1>1, <1>3, <1>12 DEF u, more, m, N

\* The frame that closes comes last; of a connection that breaks nothing more is said.
LEMMA WireEnds ==
  ASSUME NEW due, NEW wire \in Seq(Piece), NEW lens \in Seq(Nat \ {0}),
         Wire(due, wire, lens, "up")
  PROVE  /\ Append(wire, Closed) \in Seq(Piece)
         /\ Wire(due, Append(wire, Closed), lens, "closed")
         /\ Wire(due, wire, lens, "reset")
<1> DEFINE W == Len(wire)
           u == Append(wire, Closed)
<1>1. /\ W \in Nat /\ Closed \in Piece
      /\ u \in Seq(Piece) /\ Len(u) = W + 1
      /\ \A i \in 1..W : u[i] = wire[i]
      /\ u[W + 1] = Closed
  <2>1. Closed \in Piece
    BY DEF Closed, Piece
  <2>. QED
    BY <2>1, LenProperties, AppendProperties
<1>2. /\ \A i \in 1..W : wire[i] # Closed /\ Sent(wire[i], lens)
      /\ wire # << >> => wire[1] \in {due, Closed}
      /\ \A i \in 1..(W - 1) : wire[i + 1] \in {After(wire[i], lens), Closed}
  BY DEF Wire, W
<1>3. W = 0 => wire = << >>
  BY EmptySeq DEF W
<1> HIDE DEF u, W
<1>4. \A i \in 1..(W + 1) : i \in 1..W \/ i = W + 1
  BY <1>1
<1>5. \A i \in 1..Len(u) : u[i] = Closed \/ Sent(u[i], lens)
  BY <1>1, <1>2, <1>4
<1>6. u[1] \in {due, Closed}
  <2>1. CASE W = 0
    BY <1>1, <2>1
  <2>2. CASE W # 0
    <3>1. 1 \in 1..W /\ wire # << >>
      BY <1>1, <2>2, EmptySeq DEF W
    <3>. QED
      BY <1>1, <1>2, <3>1
  <2>. QED
    BY <2>1, <2>2
<1>7. ASSUME NEW i \in 1..(Len(u) - 1)
      PROVE  u[i] # Closed /\ u[i + 1] \in {After(u[i], lens), Closed}
  <2>1. i \in 1..W
    BY <1>1
  <2>2. CASE i = W
    BY <1>1, <1>2, <2>1, <2>2
  <2>3. CASE i # W
    <3>1. i \in 1..(W - 1) /\ i + 1 \in 1..W
      BY <1>1, <2>1, <2>3
    <3>. QED
      BY <1>1, <1>2, <2>1, <3>1
  <2>. QED
    BY <2>2, <2>3
<1>8. Wire(due, u, lens, "closed")
  BY <1>5, <1>6, <1>7 DEF Wire
<1>9. Wire(due, wire, lens, "reset")
  BY DEF Wire
<1>. QED
  BY <1>1, <1>8, <1>9 DEF u

(* The steps.                                                              *)

\* What is known of one session.
LEMMA Here ==
  ASSUME IInv, NEW c \in Clients
  PROVE  \E a \in Phases, o \in Results, br \in BOOLEAN, b \in Seq(Piece),
            k \in Nat, h \in BOOLEAN, cn \in ConnType :
            /\ Holds(mode, a, o, br, b, k, h, cn)
            /\ a = at[c] /\ o = op[c] /\ br = broken[c] /\ b = buffer[c]
            /\ k = copied[c] /\ h = held[c] /\ cn = conn[c]
<1>1. /\ at[c] \in Phases /\ op[c] \in Results /\ broken[c] \in BOOLEAN
      /\ buffer[c] \in Seq(Piece) /\ copied[c] \in Nat /\ held[c] \in BOOLEAN
      /\ conn[c] \in ConnType
  BY DEF IInv, TypeInv
<1>2. Holds(mode, at[c], op[c], broken[c], buffer[c], copied[c], held[c], conn[c])
  BY DEF IInv, Session
<1>. QED
  BY <1>1, <1>2

\* A variable that does not change is one that changes to what it is.
LEMMA Same ==
  ASSUME TypeInv, NEW c \in Clients
  PROVE  /\ at = [at EXCEPT ![c] = at[c]] /\ op = [op EXCEPT ![c] = op[c]]
         /\ broken = [broken EXCEPT ![c] = broken[c]]
         /\ buffer = [buffer EXCEPT ![c] = buffer[c]]
         /\ copied = [copied EXCEPT ![c] = copied[c]]
         /\ held = [held EXCEPT ![c] = held[c]]
         /\ conn = [conn EXCEPT ![c] = conn[c]]
  BY DEF TypeInv

\* The other sessions are as they were.
LEMMA Updated ==
  ASSUME IInv, NEW c \in Clients, NEW a \in Phases, NEW o \in Results,
         NEW br \in BOOLEAN, NEW b \in Seq(Piece), NEW k \in Nat, NEW h \in BOOLEAN,
         NEW cn \in ConnType, Update(c, a, o, br, b, k, h, cn),
         Holds(mode, a, o, br, b, k, h, cn)
  PROVE  Settled(c)
<1>1. /\ at \in [Clients -> Phases] /\ op \in [Clients -> Results]
      /\ broken \in [Clients -> BOOLEAN] /\ buffer \in [Clients -> Seq(Piece)]
      /\ copied \in [Clients -> Nat] /\ held \in [Clients -> BOOLEAN]
      /\ conn \in [Clients -> ConnType]
  BY DEF IInv, TypeInv
<1>2. /\ at' \in [Clients -> Phases] /\ op' \in [Clients -> Results]
      /\ broken' \in [Clients -> BOOLEAN] /\ buffer' \in [Clients -> Seq(Piece)]
      /\ copied' \in [Clients -> Nat] /\ held' \in [Clients -> BOOLEAN]
      /\ conn' \in [Clients -> ConnType]
  BY <1>1 DEF Update
<1>3. /\ mode' = mode /\ at'[c] = a /\ op'[c] = o /\ broken'[c] = br /\ buffer'[c] = b
      /\ copied'[c] = k /\ held'[c] = h /\ conn'[c] = cn
  BY <1>1 DEF Update
<1>4. \A e \in Clients \ {c} :
         /\ at'[e] = at[e] /\ op'[e] = op[e] /\ broken'[e] = broken[e]
         /\ buffer'[e] = buffer[e] /\ copied'[e] = copied[e] /\ held'[e] = held[e]
         /\ conn'[e] = conn[e]
  BY <1>1 DEF Update
<1>5. ASSUME NEW e \in Clients PROVE Session(e)'
  <2>1. CASE e = c
    BY <1>3, <2>1 DEF Session
  <2>2. CASE e # c
    <3>1. Holds(mode, at[e], op[e], broken[e], buffer[e], copied[e], held[e], conn[e])
      BY DEF IInv, Session
    <3>. QED
      BY <1>3, <1>4, <2>2, <3>1 DEF Session
  <2>. QED
    BY <2>1, <2>2
<1>. QED
  BY <1>2, <1>4, <1>5 DEF Settled

\* The listener does not move, and who waits has no session still.
LEMMA ListenerKept ==
  ASSUME TypeInv, ListenerInv, UNCHANGED <<acc, queue, socket>>,
         \A e \in Clients : Waiting(e) => Waiting(e)'
  PROVE  ListenerInv'
<1>1. \A i \in DOMAIN queue : queue[i] \in Clients
  BY LenProperties, ElementOfSeq DEF TypeInv
<1>2. socket # None => socket \in Clients
  BY DEF TypeInv
<1>. QED
  BY <1>1, <1>2 DEF ListenerInv

\* A step of a session of which the listener takes no notice
LEMMA OwnStep ==
  ASSUME IInv, UNCHANGED <<acc, queue, socket>>, pinging' \in [Clients -> BOOLEAN],
         NEW c \in Clients, NEW a \in Phases, NEW o \in Results,
         NEW br \in BOOLEAN, NEW b \in Seq(Piece), NEW k \in Nat, NEW h \in BOOLEAN,
         NEW cn \in ConnType, Update(c, a, o, br, b, k, h, cn),
         Holds(mode, a, o, br, b, k, h, cn),
         Waiting(c) => a = "none" /\ cn.peer # "none"
  PROVE  IInv'
<1>1. Settled(c)
  BY Updated
<1>2. at'[c] = a /\ conn'[c] = cn
  BY DEF Update, IInv, TypeInv
<1>3. \A e \in Clients : Waiting(e) => Waiting(e)'
  BY <1>1, <1>2 DEF Settled, Waiting
<1>4. ListenerInv'
  BY <1>3, ListenerKept DEF IInv
<1>5. TypeInv'
  BY <1>1 DEF Settled, IInv, TypeInv
<1>. QED
  BY <1>1, <1>4, <1>5 DEF Settled, IInv

\* A handshake is complete, an operation fails: nothing is read and nothing written.
LEMMA CompletesStep ==
  ASSUME IInv, NEW c \in Clients, HandshakeDone(c) \/ Fails(c) \/ Timeout(c)
  PROVE  IInv'
<1>1. PICK a \in Phases, o \in Results, br \in BOOLEAN, b \in Seq(Piece),
           k \in Nat, h \in BOOLEAN, cn \in ConnType :
         /\ Holds(mode, a, o, br, b, k, h, cn)
         /\ a = at[c] /\ o = op[c] /\ br = broken[c] /\ b = buffer[c]
         /\ k = copied[c] /\ h = held[c] /\ cn = conn[c]
  BY Here
<1>2. o = "waiting" /\ a # "none"
  BY <1>1 DEF HandshakeDone, Fails, Timeout, Waits, Holds
<1>3. UNCHANGED <<mode, acc, queue, socket, at, buffer, copied, pinging, held, conn>>
  BY DEF HandshakeDone, Fails, Timeout, listener
<1>4. PICK no \in Results, nb \in BOOLEAN :
         /\ op' = [op EXCEPT ![c] = no] /\ broken' = [broken EXCEPT ![c] = nb]
         /\ Holds(mode, a, no, nb, b, k, h, cn)
  <2>1. CASE HandshakeDone(c)
    <3>1. a \in {"handshake", "accept"} /\ op' = [op EXCEPT ![c] = "ok"]
          /\ broken' = [broken EXCEPT ![c] = br]
      BY <1>1, <2>1, Same DEF HandshakeDone, Waits, Completes, IInv
    <3>2. Holds(mode, a, "ok", br, b, k, h, cn)
      BY <1>1, <1>2, <3>1 DEF Holds, Buffered, Due, Full, Answered
    <3>. QED
      BY <3>1, <3>2 DEF Results
  <2>2. CASE Fails(c) \/ Timeout(c)
    <3>1. op' = [op EXCEPT ![c] = "error"] /\ broken' = [broken EXCEPT ![c] = TRUE]
      BY <2>2 DEF Fails, Timeout, Completes
    <3>2. Holds(mode, a, "error", TRUE, b, k, h, cn)
      BY <1>1, <1>2 DEF Holds
    <3>. QED
      BY <3>1, <3>2 DEF Results
  <2>. QED
    BY <2>1, <2>2
<1>5. Update(c, a, no, nb, b, k, h, cn)
  BY <1>1, <1>3, <1>4, Same DEF Update, IInv
<1>6. pinging' \in [Clients -> BOOLEAN] /\ ~Waiting(c)
  BY <1>1, <1>2, <1>3 DEF IInv, TypeInv, Waiting
<1>. QED
  BY <1>3, <1>4, <1>5, <1>6, OwnStep

\* A ping of the stream
LEMMA PingStep ==
  ASSUME IInv, NEW c \in Clients, PingStarts(c) \/ PingEnds(c)
  PROVE  IInv'
<1>1. /\ UNCHANGED <<mode, acc, queue, socket, at, op, broken, buffer, copied, held, conn>>
      /\ pinging' \in [Clients -> BOOLEAN]
  BY DEF PingStarts, PingEnds, listener, IInv, TypeInv
<1>2. \A e \in Clients : Session(e)'
  BY <1>1 DEF IInv, Session
<1>3. ListenerInv'
  BY <1>1, ListenerKept DEF IInv, Waiting
<1>. QED
  BY <1>1, <1>2, <1>3 DEF IInv, TypeInv

\* The piece that is read is the next one of the message, and its last one completes it.
LEMMA ReadPiece ==
  ASSUME NEW b \in Seq(Piece), NEW n \in Nat, NEW wire \in Seq(Piece),
         NEW lens \in Seq(Nat \ {0}), NEW peer, wire # << >>, wire[1] # Closed,
         Buffered("read", "waiting", b, n, lens),
         Wire(Due("read", "waiting", b, n), wire, lens, peer),
         NEW no, no = IF wire[1][2] = lens[wire[1][1]] THEN "ok" ELSE "waiting"
  PROVE  /\ Append(b, wire[1]) \in Seq(Piece)
         /\ Buffered("read", no, Append(b, wire[1]), n, lens)
         /\ Wire(Due("read", no, Append(b, wire[1]), n), Tail(wire), lens, peer)
<1> DEFINE j == Len(b)
           due == <<n + 1, j + 1>>
           u == Append(b, wire[1])
<1>1. Due("read", "waiting", b, n) = due
  BY DEF Due, Full, Answered
<1>2. wire[1] = due /\ Sent(due, lens) /\ Wire(After(due, lens), Tail(wire), lens, peer)
  <2>1. Wire(due, wire, lens, peer)
    BY <1>1
  <2> HIDE DEF due
  <2>. QED
    BY <2>1, WireRead
<1>3. /\ j \in Nat /\ due \in Piece /\ n + 1 \in 1..Len(lens) /\ j + 1 \in 1..lens[n + 1]
      /\ lens[n + 1] \in Nat
  <2>1. j \in Nat /\ Len(lens) \in Nat
    BY LenProperties
  <2>2. n + 1 \in 1..Len(lens) /\ j + 1 \in 1..lens[n + 1]
    BY <1>2 DEF Sent
  <2>3. lens[n + 1] \in Nat
    BY <2>2, ElementOfSeq
  <2>4. due \in Piece
    <3>1. n + 1 \in Int /\ j + 1 \in Int
      BY <2>1, <2>2
    <3>. HIDE DEF j
    <3>. QED
      BY <3>1 DEF Piece
  <2>. QED
    BY <2>1, <2>2, <2>3, <2>4
<1>4. /\ u \in Seq(Piece) /\ Len(u) = j + 1
      /\ \A k \in 1..j : u[k] = b[k]
      /\ u[j + 1] = due
  BY <1>2, <1>3, AppendProperties
<1>5. \A k \in 1..j : b[k] = <<n + 1, k>>
  BY DEF Buffered, Answered
<1>6. no = IF j + 1 = lens[n + 1] THEN "ok" ELSE "waiting"
  BY <1>2
<1> HIDE DEF j, u
<1>7. \A k \in 1..(j + 1) : u[k] = <<n + 1, k>>
  <2>1. \A k \in 1..(j + 1) : k \in 1..j \/ k = j + 1
    BY <1>3
  <2>. QED
    BY <1>4, <1>5, <2>1
<1>8. Buffered("read", no, u, n, lens)
  <2>1. \A k \in 1..Len(u) : u[k] = <<n + 1, k>>
    BY <1>4, <1>7
  <2>2. n + 1 <= Len(lens) /\ j + 1 <= lens[n + 1]
    BY <1>3
  <2>3. no = "ok" <=> Len(u) = lens[n + 1]
    BY <1>4, <1>6
  <2>4. Len(u) # lens[n + 1] => Len(u) < lens[n + 1]
    BY <1>3, <1>4, <2>2
  <2>. QED
    BY <2>1, <2>2, <2>3, <2>4 DEF Buffered, Full, Answered
<1>9. Due("read", no, u, n) = After(due, lens)
  BY <1>3, <1>4, <1>6 DEF Due, Full, Answered, After
<1>. QED
  BY <1>2, <1>4, <1>8, <1>9 DEF u

\* A piece is read, or the frame that closes.
LEMMA ReadStep ==
  ASSUME IInv, NEW c \in Clients, ReadSome(c)
  PROVE  IInv'
<1>1. PICK a \in Phases, o \in Results, br \in BOOLEAN, b \in Seq(Piece),
           k \in Nat, h \in BOOLEAN, cn \in ConnType :
         /\ Holds(mode, a, o, br, b, k, h, cn)
         /\ a = at[c] /\ o = op[c] /\ br = broken[c] /\ b = buffer[c]
         /\ k = copied[c] /\ h = held[c] /\ cn = conn[c]
  BY Here
<1>2. /\ a = "read" /\ o = "waiting" /\ ~br /\ cn.wire # << >>
      /\ UNCHANGED <<mode, acc, queue, socket, at, copied, pinging, held>>
      /\ conn' = [conn EXCEPT ![c].wire = Tail(@)]
  BY <1>1 DEF ReadSome, Waits, listener
<1> DEFINE w == Tail(cn.wire)
<1>3. /\ cn.wire \in Seq(Piece) /\ cn.lens \in Seq(Nat \ {0}) /\ Len(cn.got) \in Nat
      /\ w \in Seq(Piece) /\ Head(cn.wire) = cn.wire[1]
  BY <1>2, ConnParts, HeadTailProperties
<1>4. PICK cm \in ConnType :
        /\ conn' = [conn EXCEPT ![c] = cm]
        /\ cm.wire = w /\ cm.lens = cn.lens /\ cm.got = cn.got /\ cm.peer = cn.peer
  <2> DEFINE cm == [cn EXCEPT !.wire = w]
  <2>1. conn' = [conn EXCEPT ![c] = cm]
    BY <1>1, <1>2 DEF IInv, TypeInv
  <2> HIDE DEF w
  <2>2. /\ cm \in ConnType /\ cm.wire = w /\ cm.lens = cn.lens /\ cm.got = cn.got
        /\ cm.peer = cn.peer
    BY <1>3 DEF ConnType
  <2>. QED
    BY <2>1, <2>2
<1>5. pinging' \in [Clients -> BOOLEAN] /\ ~Waiting(c)
  BY <1>1, <1>2 DEF IInv, TypeInv, Waiting
<1>6. /\ Answers(cn.got, cn.lens) /\ cn.peer # "none"
      /\ Buffered("read", "waiting", b, Len(cn.got), cn.lens)
      /\ Wire(Due("read", "waiting", b, Len(cn.got)), cn.wire, cn.lens, cn.peer)
  BY <1>1, <1>2 DEF Holds
<1>7. PICK no \in Results, nb \in BOOLEAN, u \in Seq(Piece) :
        /\ op' = [op EXCEPT ![c] = no] /\ broken' = [broken EXCEPT ![c] = nb]
        /\ buffer' = [buffer EXCEPT ![c] = u]
        /\ Holds(mode, a, no, nb, u, k, h, cm)
  <2>1. CASE cn.wire[1] = Closed
    <3>1. /\ op' = [op EXCEPT ![c] = "closed"] /\ broken' = [broken EXCEPT ![c] = TRUE]
          /\ buffer' = [buffer EXCEPT ![c] = b]
      BY <1>1, <1>3, <2>1, Same DEF ReadSome, Completes, IInv
    <3>2. Holds(mode, a, "closed", TRUE, b, k, h, cm)
      BY <1>2, <1>4, <1>6 DEF Holds
    <3>. QED
      BY <3>1, <3>2 DEF Results
  <2>2. CASE cn.wire[1] # Closed
    <3> DEFINE u == Append(b, cn.wire[1])
               no == IF cn.wire[1][2] = cn.lens[cn.wire[1][1]] THEN "ok" ELSE "waiting"
    <3>1. op' = [op EXCEPT ![c] = no] /\ buffer' = [buffer EXCEPT ![c] = u]
      BY <1>1, <1>2, <1>3, <2>2 DEF ReadSome, IInv, TypeInv
    <3>2. broken' = [broken EXCEPT ![c] = br]
      BY <1>1, <1>3, <2>2, Same DEF ReadSome, IInv
    <3>3. no \in Results /\ no # "error"
      BY DEF Results
    <3>4. /\ u \in Seq(Piece) /\ Buffered("read", no, u, Len(cn.got), cn.lens)
          /\ Wire(Due("read", no, u, Len(cn.got)), w, cn.lens, cn.peer)
      BY <1>2, <1>3, <1>6, <2>2, ReadPiece
    <3> HIDE DEF no, u, w
    <3>5. Holds(mode, a, no, br, u, k, h, cm)
      BY <1>2, <1>4, <1>6, <3>3, <3>4 DEF Holds
    <3>. QED
      BY <3>1, <3>2, <3>3, <3>4, <3>5
  <2>. QED
    BY <2>1, <2>2
<1>8. Update(c, a, no, nb, u, k, h, cm)
  BY <1>1, <1>2, <1>4, <1>7, Same DEF Update, IInv
<1>. QED
  BY <1>2, <1>5, <1>7, <1>8, OwnStep

\* The text b as the peer gets it: all that was not copied in time may be junk.
Spoiled(answer, b, k) ==
    /\ answer \in Seq(Piece) /\ Len(answer) = Len(b)
    /\ \A i \in 1..Len(b) : answer[i] = b[i] \/ (answer[i] = Junk /\ i > k)

\* The answer is the message, but for pieces that were not copied in time.
LEMMA WritePieces ==
  ASSUME NEW b \in Seq(Piece), NEW got \in Seq(Seq(Piece)), NEW lens \in Seq(Nat \ {0}),
         Answers(got, lens), Buffered("write", "waiting", b, Len(got), lens),
         NEW answer, NEW k \in Nat, Spoiled(answer, b, k)
  PROVE  /\ Append(got, answer) \in Seq(Seq(Piece))
         /\ Len(Append(got, answer)) = Len(got) + 1
         /\ Answers(Append(got, answer), lens)
         /\ \A i \in 1..Len(b) : answer[i] = Junk => i > k
<1> DEFINE n == Len(got)
           more == Append(got, answer)
<1>1. n \in Nat /\ Len(b) \in Nat
  BY LenProperties
<1>2. /\ n + 1 <= Len(lens) /\ Len(b) = lens[n + 1]
      /\ \A i \in 1..Len(b) : b[i] = <<n + 1, i>>
  BY DEF Buffered, Full, Answered
<1>3. /\ more \in Seq(Seq(Piece)) /\ Len(more) = n + 1
      /\ \A i \in 1..n : more[i] = got[i]
      /\ more[n + 1] = answer
  BY AppendProperties DEF Spoiled
<1> HIDE DEF more, n
<1>4. \A i \in 1..(n + 1) : i \in 1..n \/ i = n + 1
  BY <1>1
<1>5. ASSUME NEW i \in 1..(n + 1)
      PROVE  /\ i <= Len(lens) /\ Len(more[i]) = lens[i]
             /\ \A j \in 1..Len(more[i]) : more[i][j] \in {<<i, j>>, Junk}
  <2>1. CASE i \in 1..n
    BY <1>3, <2>1 DEF Answers, n
  <2>2. CASE i = n + 1
    BY <1>2, <1>3, <2>2 DEF Spoiled
  <2>. QED
    BY <1>4, <2>1, <2>2
<1>6. Answers(more, lens)
  BY <1>3, <1>5 DEF Answers
<1>7. \A i \in 1..Len(b) : answer[i] = Junk => i > k
  <2>1. \A i \in 1..Len(b) : <<n + 1, i>> # Junk
    BY <1>1 DEF Junk
  <2>. QED
    BY <1>2, <2>1 DEF Spoiled
<1>. QED
  BY <1>3, <1>6, <1>7 DEF more, n

\* What WriteDone adds to the answers, and which of its pieces may be spoiled.
LEMMA WriteEffect ==
  ASSUME IInv, NEW c \in Clients, WriteDone(c)
  PROVE  /\ UNCHANGED <<mode, acc, queue, socket, at, broken, buffer, copied, pinging, held>>
         /\ at[c] = "write" /\ op[c] = "waiting" /\ ~broken[c]
         /\ op' = [op EXCEPT ![c] = "ok"]
         /\ \E cm \in ConnType : \E answer :
               /\ conn' = [conn EXCEPT ![c] = cm]
               /\ cm.got = Append(conn[c].got, answer)
               /\ Len(cm.got) = Len(conn[c].got) + 1 /\ Answers(cm.got, cm.lens)
               /\ cm.wire = conn[c].wire /\ cm.lens = conn[c].lens
               /\ cm.peer = conn[c].peer
               /\ DOMAIN answer = 1..Len(buffer[c])
               /\ \A i \in 1..Len(buffer[c]) : answer[i] = Junk => i > copied[c]
<1>1. PICK a \in Phases, o \in Results, br \in BOOLEAN, b \in Seq(Piece),
           k \in Nat, h \in BOOLEAN, cn \in ConnType :
         /\ Holds(mode, a, o, br, b, k, h, cn)
         /\ a = at[c] /\ o = op[c] /\ br = broken[c] /\ b = buffer[c]
         /\ k = copied[c] /\ h = held[c] /\ cn = conn[c]
  BY Here
<1>2. /\ UNCHANGED <<mode, acc, queue, socket, at, broken, buffer, copied, pinging, held>>
      /\ a = "write" /\ o = "waiting" /\ ~br /\ op' = [op EXCEPT ![c] = "ok"]
  BY <1>1 DEF WriteDone, Waits, Completes, listener
<1>3. PICK bad \in SUBSET ((copied[c] + 1)..Len(buffer[c])) :
        conn' = [conn EXCEPT ![c].got = Append(@,
                   [i \in DOMAIN buffer[c] |->
                      IF i \in bad THEN Junk ELSE buffer[c][i]])]
  BY DEF WriteDone
<1>4. PICK answer :
        /\ answer = [i \in DOMAIN b |-> IF i \in bad THEN Junk ELSE b[i]]
        /\ conn' = [conn EXCEPT ![c].got = Append(@, answer)]
  BY <1>1, <1>3
<1>5. /\ cn.got \in Seq(Seq(Piece)) /\ cn.lens \in Seq(Nat \ {0}) /\ Len(b) \in Nat
      /\ Answers(cn.got, cn.lens)
      /\ Buffered("write", "waiting", b, Len(cn.got), cn.lens)
  BY <1>1, <1>2, ConnParts, LenProperties DEF Holds
<1>6. Spoiled(answer, b, k) /\ DOMAIN answer = 1..Len(b)
  <2>1. bad \in SUBSET (1..Len(b)) /\ \A i \in bad : i > k
    BY <1>1, <1>5
  <2>2. /\ DOMAIN b = 1..Len(b) /\ \A i \in 1..Len(b) : b[i] \in Piece
        /\ Junk \in Piece
    <3>1. Junk \in Piece
      BY DEF Junk, Piece
    <3>. QED
      BY <1>5, <3>1, LenProperties, ElementOfSeq
  <2>3. answer \in [1..Len(b) -> Piece]
    BY <1>4, <2>2
  <2>4. answer \in Seq(Piece) /\ Len(answer) = Len(b)
    BY <1>5, <2>3
  <2>. QED
    BY <1>4, <2>1, <2>2, <2>3, <2>4 DEF Spoiled
<1> DEFINE more == Append(cn.got, answer)
           cm == [cn EXCEPT !.got = more]
<1>7. /\ more \in Seq(Seq(Piece)) /\ Len(more) = Len(cn.got) + 1
      /\ Answers(more, cn.lens)
      /\ \A i \in 1..Len(b) : answer[i] = Junk => i > k
  BY <1>5, <1>6, WritePieces
<1>8. conn' = [conn EXCEPT ![c] = cm]
  BY <1>1, <1>4 DEF IInv, TypeInv
<1> HIDE DEF more
<1>9. /\ cm \in ConnType /\ cm.got = more /\ cm.wire = cn.wire /\ cm.lens = cn.lens
      /\ cm.peer = cn.peer
  BY <1>7 DEF ConnType
<1> HIDE DEF cm
<1>10. cm.got = Append(conn[c].got, answer)
  BY <1>1, <1>9 DEF more
<1>11. \E cx \in ConnType : \E ax :
         /\ conn' = [conn EXCEPT ![c] = cx]
         /\ cx.got = Append(conn[c].got, ax)
         /\ Len(cx.got) = Len(conn[c].got) + 1 /\ Answers(cx.got, cx.lens)
         /\ cx.wire = conn[c].wire /\ cx.lens = conn[c].lens
         /\ cx.peer = conn[c].peer
         /\ DOMAIN ax = 1..Len(buffer[c])
         /\ \A i \in 1..Len(buffer[c]) : ax[i] = Junk => i > copied[c]
  BY <1>1, <1>6, <1>7, <1>8, <1>9, <1>10
<1>. QED
  BY <1>1, <1>2, <1>11

\* The answer has been sent: the next message is due.
LEMMA WriteStep ==
  ASSUME IInv, NEW c \in Clients, WriteDone(c)
  PROVE  IInv'
<1>1. PICK a \in Phases, o \in Results, br \in BOOLEAN, b \in Seq(Piece),
           k \in Nat, h \in BOOLEAN, cn \in ConnType :
         /\ Holds(mode, a, o, br, b, k, h, cn)
         /\ a = at[c] /\ o = op[c] /\ br = broken[c] /\ b = buffer[c]
         /\ k = copied[c] /\ h = held[c] /\ cn = conn[c]
  BY Here
<1>2. /\ UNCHANGED <<mode, acc, queue, socket, at, broken, buffer, copied, pinging, held>>
      /\ a = "write" /\ o = "waiting" /\ ~br /\ op' = [op EXCEPT ![c] = "ok"]
  BY <1>1, WriteEffect
<1>3. PICK cm \in ConnType :
        /\ conn' = [conn EXCEPT ![c] = cm]
        /\ Len(cm.got) = Len(cn.got) + 1 /\ Answers(cm.got, cm.lens)
        /\ cm.wire = cn.wire /\ cm.lens = cn.lens /\ cm.peer = cn.peer
  BY <1>1, WriteEffect
<1>4. Len(cn.got) \in Nat /\ "ok" \in Results
  BY ConnParts DEF Results
<1>5. /\ cn.peer # "none"
      /\ Wire(Due("write", "waiting", b, Len(cn.got)), cn.wire, cn.lens, cn.peer)
  BY <1>1, <1>2 DEF Holds
<1>6. Due("write", "ok", b, Len(cm.got)) = Due("write", "waiting", b, Len(cn.got))
  BY <1>3, <1>4 DEF Due, Full, Answered
<1>7. Buffered("write", "ok", b, Len(cm.got), cm.lens)
  BY DEF Buffered, Full, Answered
<1>8. Holds(mode, a, "ok", br, b, k, h, cm)
  BY <1>2, <1>3, <1>5, <1>6, <1>7 DEF Holds
<1>9. Update(c, a, "ok", br, b, k, h, cm)
  BY <1>1, <1>2, <1>3, Same DEF Update, IInv
<1>10. pinging' \in [Clients -> BOOLEAN] /\ ~Waiting(c)
  BY <1>1, <1>2 DEF IInv, TypeInv, Waiting
<1>. QED
  BY <1>2, <1>4, <1>8, <1>9, <1>10, OwnStep

\* on_run, on_handshake and on_accept: nothing has been read yet.
LEMMA SetupStep ==
  ASSUME IInv, NEW c \in Clients, on_setup(c)
  PROVE  IInv'
<1>1. PICK a \in Phases, o \in Results, br \in BOOLEAN, b \in Seq(Piece),
           k \in Nat, h \in BOOLEAN, cn \in ConnType :
         /\ Holds(mode, a, o, br, b, k, h, cn)
         /\ a = at[c] /\ o = op[c] /\ br = broken[c] /\ b = buffer[c]
         /\ k = copied[c] /\ h = held[c] /\ cn = conn[c]
  BY Here
<1>2. /\ UNCHANGED <<mode, acc, queue, socket, broken, buffer, copied, pinging, held, conn>>
      /\ a \in {"run", "handshake", "accept"}
      /\ o \in {"ok", "closed", "error"}
  BY <1>1 DEF on_setup, On, listener
<1>3. PICK na \in {"handshake", "accept", "read", "gone"} :
        /\ at' = [at EXCEPT ![c] = na]
        /\ op' = [op EXCEPT ![c] = IF na = "gone" THEN "none" ELSE "waiting"]
  BY DEF on_setup, Starts
<1>4. PICK no \in {"none", "waiting"} : no = IF na = "gone" THEN "none" ELSE "waiting"
  OBVIOUS
<1>5. Holds(mode, na, no, br, b, k, h, cn)
  <2>1. /\ Answers(cn.got, cn.lens) /\ b = << >> /\ cn.peer # "none"
        /\ ~br => /\ Buffered(a, o, b, Len(cn.got), cn.lens)
                  /\ Wire(Due(a, o, b, Len(cn.got)), cn.wire, cn.lens, cn.peer)
    BY <1>1, <1>2 DEF Holds
  <2>2. na # "gone" => Due(na, no, b, Len(cn.got)) = Due(a, o, b, Len(cn.got))
    BY <1>2, <1>3, <1>4 DEF Due, Full, Answered
  <2>3. na # "gone" /\ ~br => Buffered(na, no, b, Len(cn.got), cn.lens)
    BY <1>2, <1>3, <1>4, <2>1 DEF Buffered, Full, Answered
  <2>. QED
    BY <1>3, <1>4, <2>1, <2>2, <2>3 DEF Holds
<1>6. Update(c, na, no, br, b, k, h, cn)
  BY <1>1, <1>2, <1>3, <1>4, Same DEF Update, IInv
<1>7. pinging' \in [Clients -> BOOLEAN] /\ ~Waiting(c) /\ na \in Phases /\ no \in Results
  BY <1>1, <1>2, <1>3, <1>4 DEF IInv, TypeInv, Waiting, Phases, Results
<1>. QED
  BY <1>2, <1>5, <1>6, <1>7, OwnStep

\* on_read writes the message, or what there is of it to a stream that has failed.
LEMMA OnReadStep ==
  ASSUME IInv, NEW c \in Clients, on_read(c) \/ write_back(c)
  PROVE  IInv'
<1>1. PICK a \in Phases, o \in Results, br \in BOOLEAN, b \in Seq(Piece),
           k \in Nat, h \in BOOLEAN, cn \in ConnType :
         /\ Holds(mode, a, o, br, b, k, h, cn)
         /\ a = at[c] /\ o = op[c] /\ br = broken[c] /\ b = buffer[c]
         /\ k = copied[c] /\ h = held[c] /\ cn = conn[c]
  BY Here
<1>2. /\ UNCHANGED <<mode, acc, queue, socket, broken, buffer, pinging, conn>>
      /\ a = "read" /\ o \in {"ok", "closed", "error"}
  BY <1>1 DEF on_read, write_back, On, listener
<1>3. Len(b) \in Nat /\ Copied \in Nat /\ Len(cn.got) \in Nat
  BY ConnParts, LenProperties, BoundAssumption
<1>4. PICK na \in {"write", "gone"}, nk \in Nat, nh \in BOOLEAN :
        /\ at' = [at EXCEPT ![c] = na]
        /\ op' = [op EXCEPT ![c] = IF na = "gone" THEN "none" ELSE "waiting"]
        /\ copied' = [copied EXCEPT ![c] = nk] /\ held' = [held EXCEPT ![c] = nh]
        /\ na = "write" => o # "closed" /\ InTime(mode, b, nk, nh)
  <2>1. CASE on_read(c)
    <3> DEFINE nk == TakenAtOnce(c)
               na == IF o = "closed" THEN "gone" ELSE "write"
    <3>1. /\ at' = [at EXCEPT ![c] = na]
          /\ op' = [op EXCEPT ![c] = IF na = "gone" THEN "none" ELSE "waiting"]
          /\ copied' = [copied EXCEPT ![c] = nk]
          /\ held' = [held EXCEPT ![c] = pinging[c]] /\ mode = "async"
      BY <1>1, <2>1 DEF on_read, Starts
    <3>2. nk \in Nat /\ pinging[c] \in BOOLEAN
          /\ (nk >= Len(b) \/ nk >= Copied \/ pinging[c])
      BY <1>1, <1>3 DEF TakenAtOnce, IInv, TypeInv
    <3> HIDE DEF nk
    <3>3. InTime(mode, b, nk, pinging[c])
      BY <3>1, <3>2 DEF InTime
    <3>. QED
      BY <3>1, <3>2, <3>3
  <2>2. CASE write_back(c)
    <3> DEFINE na == IF o = "ok" THEN "write" ELSE "gone"
    <3>1. /\ at' = [at EXCEPT ![c] = na]
          /\ op' = [op EXCEPT ![c] = IF na = "gone" THEN "none" ELSE "waiting"]
          /\ copied' = [copied EXCEPT ![c] = Len(b)]
          /\ held' = [held EXCEPT ![c] = h]
      BY <1>1, <2>2, Same DEF write_back, Starts, IInv
    <3>2. InTime(mode, b, Len(b), h)
      BY <1>3 DEF InTime
    <3>. QED
      BY <1>3, <3>1, <3>2
  <2>. QED
    BY <2>1, <2>2
<1>5. PICK no \in {"none", "waiting"} : no = IF na = "gone" THEN "none" ELSE "waiting"
  OBVIOUS
<1>6. Holds(mode, na, no, br, b, nk, nh, cn)
  <2>1. /\ Answers(cn.got, cn.lens) /\ cn.peer # "none"
        /\ o = "error" => br
        /\ ~br => /\ Buffered(a, o, b, Len(cn.got), cn.lens)
                  /\ Wire(Due(a, o, b, Len(cn.got)), cn.wire, cn.lens, cn.peer)
    BY <1>1, <1>2 DEF Holds
  <2>2. ASSUME ~br, na = "write"
        PROVE  /\ Due(na, no, b, Len(cn.got)) = Due(a, o, b, Len(cn.got))
               /\ Buffered(na, no, b, Len(cn.got), cn.lens)
    <3>1. o = "ok" /\ no = "waiting"
      BY <1>2, <1>4, <1>5, <2>1, <2>2
    <3>. QED
      BY <1>2, <2>1, <2>2, <3>1 DEF Due, Buffered, Full, Answered
  <2>. QED
    BY <1>4, <1>5, <2>1, <2>2 DEF Holds
<1>7. Update(c, na, no, br, b, nk, nh, cn)
  BY <1>1, <1>2, <1>4, <1>5, Same DEF Update, IInv
<1>8. pinging' \in [Clients -> BOOLEAN] /\ ~Waiting(c) /\ na \in Phases /\ no \in Results
  BY <1>1, <1>2, <1>4, <1>5 DEF IInv, TypeInv, Waiting, Phases, Results
<1>. QED
  BY <1>2, <1>6, <1>7, <1>8, OwnStep

\* on_write starts the next read with an empty buffer.
LEMMA OnWriteStep ==
  ASSUME IInv, NEW c \in Clients, on_write(c)
  PROVE  IInv'
<1>1. PICK a \in Phases, o \in Results, br \in BOOLEAN, b \in Seq(Piece),
           k \in Nat, h \in BOOLEAN, cn \in ConnType :
         /\ Holds(mode, a, o, br, b, k, h, cn)
         /\ a = at[c] /\ o = op[c] /\ br = broken[c] /\ b = buffer[c]
         /\ k = copied[c] /\ h = held[c] /\ cn = conn[c]
  BY Here
<1>2. /\ UNCHANGED <<mode, acc, queue, socket, broken, copied, pinging, held, conn>>
      /\ a = "write"
  BY <1>1 DEF on_write, On, listener
<1>3. /\ Answers(cn.got, cn.lens) /\ cn.peer # "none" /\ Len(cn.got) \in Nat
      /\ ~br => Wire(Due(a, o, b, Len(cn.got)), cn.wire, cn.lens, cn.peer)
  BY <1>1, <1>2, ConnParts DEF Holds
<1>4. pinging' \in [Clients -> BOOLEAN] /\ ~Waiting(c)
  BY <1>1, <1>2 DEF IInv, TypeInv, Waiting
<1>5. CASE o = "error"
  <2>1. /\ at' = [at EXCEPT ![c] = "gone"] /\ op' = [op EXCEPT ![c] = "none"]
        /\ buffer' = buffer
    BY <1>1, <1>5 DEF on_write, Starts
  <2>2. Holds(mode, "gone", "none", br, b, k, h, cn)
    BY <1>3 DEF Holds
  <2>3. Update(c, "gone", "none", br, b, k, h, cn)
    BY <1>1, <1>2, <2>1, Same DEF Update, IInv
  <2>4. "gone" \in Phases /\ "none" \in Results
    BY DEF Phases, Results
  <2>. QED
    BY <1>2, <1>4, <2>2, <2>3, <2>4, OwnStep
<1>6. CASE o # "error"
  <2>1. /\ at' = [at EXCEPT ![c] = "read"] /\ op' = [op EXCEPT ![c] = "waiting"]
        /\ buffer' = [buffer EXCEPT ![c] = << >>] /\ o = "ok"
    BY <1>1, <1>6 DEF on_write, Starts
  <2>2. << >> \in Seq(Piece) /\ Len(<< >>) = 0
    BY EmptySeq
  <2>3. Due("read", "waiting", << >>, Len(cn.got)) = Due(a, o, b, Len(cn.got))
    BY <1>2, <1>3, <2>1, <2>2 DEF Due, Full, Answered
  <2>4. Buffered("read", "waiting", << >>, Len(cn.got), cn.lens)
    BY <2>2 DEF Buffered, Full, Answered
  <2>5. Holds(mode, "read", "waiting", br, << >>, k, h, cn)
    BY <1>3, <2>3, <2>4 DEF Holds
  <2>6. Update(c, "read", "waiting", br, << >>, k, h, cn)
    BY <1>1, <1>2, <2>1, Same DEF Update, IInv
  <2>7. "read" \in Phases /\ "waiting" \in Results
    BY DEF Phases, Results
  <2>. QED
    BY <1>2, <1>4, <2>2, <2>5, <2>6, <2>7, OwnStep
<1>. QED
  BY <1>5, <1>6

(* The clients.                                                            *)

\* A message more changes nothing of those that are answered or read.
LEMMA SendKeeps ==
  ASSUME NEW lens \in Seq(Nat \ {0}), NEW len \in Nat \ {0}, NEW got \in Seq(Seq(Piece)),
         NEW a, NEW o, NEW b \in Seq(Piece)
  PROVE  /\ Answers(got, lens) => Answers(got, Append(lens, len))
         /\ Buffered(a, o, b, Len(got), lens)
               => Buffered(a, o, b, Len(got), Append(lens, len))
<1> DEFINE more == Append(lens, len)
<1>1. /\ Len(lens) \in Nat /\ Len(more) = Len(lens) + 1 /\ Len(got) \in Nat
      /\ \A n \in 1..Len(lens) : more[n] = lens[n]
  BY LenProperties, AppendProperties
<1> HIDE DEF more
<1>2. \A n \in Nat : n >= 1 /\ n <= Len(lens) => n <= Len(more) /\ more[n] = lens[n]
  BY <1>1
<1>3. Answers(got, lens) => Answers(got, more)
  <2>1. \A n \in 1..Len(got) : n \in Nat /\ n >= 1
    BY <1>1
  <2>. QED
    BY <1>2, <2>1 DEF Answers
<1>4. Buffered(a, o, b, Len(got), lens) => Buffered(a, o, b, Len(got), more)
  <2>1. Len(got) + 1 \in Nat /\ Len(got) + 1 >= 1
    BY <1>1
  <2>. QED
    BY <1>2, <2>1 DEF Buffered
<1>. QED
  BY <1>3, <1>4 DEF more

\* What a client with a connection does to it
LEMMA ClientEffect ==
  ASSUME IInv, NEW c \in Clients, Hello(c) \/ SendMessage(c) \/ Leave(c)
  PROVE  \E cm \in ConnType :
            /\ conn' = [conn EXCEPT ![c] = cm]
            /\ cm.peer # "none" /\ cm.got = conn[c].got
            /\ Holds(mode, at[c], op[c], broken[c], buffer[c], copied[c], held[c], cm)
<1>1. PICK a \in Phases, o \in Results, br \in BOOLEAN, b \in Seq(Piece),
           k \in Nat, h \in BOOLEAN, cn \in ConnType :
         /\ Holds(mode, a, o, br, b, k, h, cn)
         /\ a = at[c] /\ o = op[c] /\ br = broken[c] /\ b = buffer[c]
         /\ k = copied[c] /\ h = held[c] /\ cn = conn[c]
  BY Here
<1>2. /\ cn.lens \in Seq(Nat \ {0}) /\ cn.wire \in Seq(Piece) /\ cn.hello \in 0..2
      /\ cn.got \in Seq(Seq(Piece)) /\ cn.peer = "up"
  BY <1>1, ConnParts DEF Hello, SendMessage, Leave
<1>3. /\ Answers(cn.got, cn.lens)
      /\ o = "error" => br
      /\ a \in {"none", "run", "handshake", "accept"} => b = << >>
      /\ a = "none" => o = "none"
      /\ ~br /\ a # "gone" =>
            /\ Buffered(a, o, b, Len(cn.got), cn.lens)
            /\ Wire(Due(a, o, b, Len(cn.got)), cn.wire, cn.lens, "up")
            /\ a = "write" /\ o = "waiting" => InTime(mode, b, k, h)
  BY <1>1, <1>2 DEF Holds
<1>4. CASE Hello(c)
  <2> DEFINE cm == [cn EXCEPT !.hello = @ + 1]
  <2>1. conn' = [conn EXCEPT ![c] = cm] /\ cn.hello < 2
    BY <1>1, <1>4 DEF Hello, IInv, TypeInv
  <2>2. cn.hello + 1 \in 0..2
    BY <1>2, <2>1
  <2>3. /\ cm \in ConnType /\ cm.got = cn.got /\ cm.wire = cn.wire /\ cm.lens = cn.lens
        /\ cm.peer = "up"
    BY <1>2, <2>2 DEF ConnType
  <2> HIDE DEF cm
  <2>4. Holds(mode, a, o, br, b, k, h, cm)
    BY <1>3, <2>3 DEF Holds
  <2>. QED
    BY <1>1, <2>1, <2>3, <2>4
<1>5. CASE SendMessage(c)
  <2>1. PICK len \in 1..MaxLen :
          conn' = [conn EXCEPT ![c].lens = Append(@, len),
                               ![c].wire = @ \o Message(Len(conn[c].lens) + 1, len)]
    BY <1>5 DEF SendMessage
  <2>2. len \in Nat \ {0}
    BY BoundAssumption
  <2> DEFINE more == Append(cn.lens, len)
             w == cn.wire \o Message(Len(cn.lens) + 1, len)
             cm == [cn EXCEPT !.lens = more, !.wire = w]
  <2>3. conn' = [conn EXCEPT ![c] = cm]
    BY <1>1, <2>1 DEF IInv, TypeInv
  <2>4. w \in Seq(Piece) /\ more \in Seq(Nat \ {0}) /\ Answers(cn.got, more)
    <3>1. Message(Len(cn.lens) + 1, len) \in Seq(Piece)
      <4>1. Len(cn.lens) \in Nat
        BY <1>2, LenProperties
      <4>2. \A j \in 1..len : <<Len(cn.lens) + 1, j>> \in Piece
        BY <2>2, <4>1 DEF Piece
      <4>. QED
        BY <2>2, <4>2 DEF Message
    <3>2. w \in Seq(Piece) /\ more \in Seq(Nat \ {0})
      BY <1>2, <2>2, <3>1, ConcatProperties, AppendProperties
    <3>3. Answers(cn.got, more)
      BY <1>2, <1>3, <2>2, SendKeeps
    <3>. QED
      BY <3>2, <3>3
  <2>5. ~br /\ a # "gone" =>
          /\ Buffered(a, o, b, Len(cn.got), more)
          /\ Wire(Due(a, o, b, Len(cn.got)), w, more, "up")
    BY <1>2, <1>3, <2>2, SendKeeps, WireSend
  <2> HIDE DEF more, w
  <2>6. /\ cm \in ConnType /\ cm.got = cn.got /\ cm.wire = w /\ cm.lens = more
        /\ cm.peer = "up"
    BY <1>2, <2>4 DEF ConnType
  <2> HIDE DEF cm
  <2>7. Holds(mode, a, o, br, b, k, h, cm)
    BY <1>3, <2>4, <2>5, <2>6 DEF Holds
  <2>. QED
    BY <1>1, <2>3, <2>6, <2>7
<1>6. CASE Leave(c)
  <2> DEFINE fin == [cn EXCEPT !.peer = "closed", !.wire = Append(cn.wire, Closed)]
             rst == [cn EXCEPT !.peer = "reset"]
  <2>1. conn' = [conn EXCEPT ![c] = fin] \/ conn' = [conn EXCEPT ![c] = rst]
    <3>1. CASE conn' = [conn EXCEPT ![c].peer = "closed", ![c].wire = Append(@, Closed)]
      BY <1>1, <3>1 DEF IInv, TypeInv
    <3>2. CASE conn' = [conn EXCEPT ![c].peer = "reset"]
      BY <1>1, <3>2 DEF IInv, TypeInv
    <3>. QED
      BY <1>6, <3>1, <3>2 DEF Leave
  <2>2. Append(cn.wire, Closed) \in Seq(Piece)
    <3>1. Closed \in Piece
      BY DEF Closed, Piece
    <3>. QED
      BY <1>2, <3>1, AppendProperties
  <2>3. ~br /\ a # "gone" =>
          /\ Wire(Due(a, o, b, Len(cn.got)), Append(cn.wire, Closed), cn.lens, "closed")
          /\ Wire(Due(a, o, b, Len(cn.got)), cn.wire, cn.lens, "reset")
    BY <1>2, <1>3, WireEnds
  <2>4. /\ fin \in ConnType /\ fin.got = cn.got /\ fin.lens = cn.lens
        /\ fin.wire = Append(cn.wire, Closed) /\ fin.peer = "closed"
    BY <1>2, <2>2 DEF ConnType
  <2>5. /\ rst \in ConnType /\ rst.got = cn.got /\ rst.lens = cn.lens
        /\ rst.wire = cn.wire /\ rst.peer = "reset"
    BY <1>2 DEF ConnType
  <2> HIDE DEF fin, rst
  <2>6. Holds(mode, a, o, br, b, k, h, fin)
    BY <1>3, <2>3, <2>4 DEF Holds
  <2>7. Holds(mode, a, o, br, b, k, h, rst)
    BY <1>3, <2>3, <2>5 DEF Holds
  <2>. QED
    BY <1>1, <2>1, <2>4, <2>5, <2>6, <2>7
<1>. QED
  BY <1>4, <1>5, <1>6

\* A client of an open connection changes the connection only.
LEMMA ClientStep ==
  ASSUME IInv, NEW c \in Clients, Hello(c) \/ SendMessage(c) \/ Leave(c)
  PROVE  IInv'
<1>1. PICK a \in Phases, o \in Results, br \in BOOLEAN, b \in Seq(Piece),
           k \in Nat, h \in BOOLEAN :
         /\ a = at[c] /\ o = op[c] /\ br = broken[c] /\ b = buffer[c]
         /\ k = copied[c] /\ h = held[c]
  BY Here
<1>2. PICK cm \in ConnType :
        /\ conn' = [conn EXCEPT ![c] = cm] /\ cm.peer # "none"
        /\ Holds(mode, at[c], op[c], broken[c], buffer[c], copied[c], held[c], cm)
  BY ClientEffect
<1>3. /\ UNCHANGED <<mode, acc, queue, socket, at, op, broken, buffer, copied, held>>
      /\ pinging' = pinging
  BY DEF Hello, SendMessage, Leave, listener
<1>4. Holds(mode, a, o, br, b, k, h, cm)
  BY <1>1, <1>2
<1>5. Update(c, a, o, br, b, k, h, cm)
  BY <1>1, <1>2, <1>3, Same DEF Update, IInv
<1>6. pinging' \in [Clients -> BOOLEAN] /\ (Waiting(c) => a = "none" /\ cm.peer # "none")
  BY <1>1, <1>2, <1>3 DEF IInv, TypeInv, Waiting
<1>. QED
  BY <1>3, <1>4, <1>5, <1>6, OwnStep

\* A connection joins the queue of the listening socket.
LEMMA ConnectStep ==
  ASSUME IInv, NEW c \in Clients, Connect(c)
  PROVE  IInv'
<1>1. PICK a \in Phases, o \in Results, br \in BOOLEAN, b \in Seq(Piece),
           k \in Nat, h \in BOOLEAN, cn \in ConnType :
         /\ Holds(mode, a, o, br, b, k, h, cn)
         /\ a = at[c] /\ o = op[c] /\ br = broken[c] /\ b = buffer[c]
         /\ k = copied[c] /\ h = held[c] /\ cn = conn[c]
  BY Here
<1>2. /\ UNCHANGED <<mode, acc, socket, at, op, broken, buffer, copied, pinging, held>>
      /\ cn.peer = "none" /\ queue' = Append(queue, c)
      /\ conn' = [conn EXCEPT ![c].peer = "up"]
  BY <1>1 DEF Connect
<1>3. /\ a = "none" /\ o = "none" /\ b = << >> /\ cn.lens = << >> /\ cn.wire = << >>
      /\ Answers(cn.got, cn.lens)
  BY <1>1, <1>2 DEF Holds
<1>4. Len(cn.got) = 0
  <2>1. Len(cn.got) \in Nat /\ Len(cn.lens) = 0
    BY <1>3, ConnParts, EmptySeq
  <2>2. ASSUME Len(cn.got) # 0 PROVE FALSE
    <3>1. Len(cn.got) \in 1..Len(cn.got)
      BY <2>1, <2>2
    <3>2. Len(cn.got) <= 0
      BY <1>3, <2>1, <3>1 DEF Answers
    <3>. QED
      BY <2>1, <2>2, <3>2
  <2>. QED
    BY <2>2
<1> DEFINE cm == [cn EXCEPT !.peer = "up"]
<1>5. conn' = [conn EXCEPT ![c] = cm]
  BY <1>1, <1>2 DEF IInv, TypeInv
<1>6. /\ cm \in ConnType /\ cm.got = cn.got /\ cm.wire = cn.wire /\ cm.lens = cn.lens
      /\ cm.peer = "up"
  BY DEF ConnType
<1> HIDE DEF cm
<1>7. Holds(mode, a, o, br, b, k, h, cm)
  <2>1. Len(<< >>) = 0
    BY EmptySeq
  <2>2. Due("none", "none", << >>, 0) = <<1, 1>> /\ Buffered("none", "none", << >>, 0, << >>)
    BY <2>1 DEF Due, Buffered, Full, Answered
  <2>3. Wire(<<1, 1>>, << >>, << >>, "up")
    BY <2>1 DEF Wire
  <2>. QED
    BY <1>3, <1>4, <1>6, <2>2, <2>3 DEF Holds
<1>8. Update(c, a, o, br, b, k, h, cm)
  BY <1>1, <1>2, <1>5, Same DEF Update, IInv
<1>9. Settled(c)
  <2>1. cm \in ConnType
    BY <1>6
  <2>. QED
    BY <1>7, <1>8, <2>1, Updated
<1>10. Waiting(c)' /\ ~Waiting(c) /\ \A e \in Clients : Waiting(e) => Waiting(e)'
  <2>1. conn'[c] = cm /\ at'[c] = "none"
    BY <1>1, <1>2, <1>3, <1>5 DEF IInv, TypeInv
  <2>2. conn[c].peer = "none" /\ conn'[c].peer = "up"
    BY <1>1, <1>2, <1>6, <2>1
  <2>3. Waiting(c)' /\ ~Waiting(c)
    BY <2>1, <2>2 DEF Waiting
  <2>4. \A e \in Clients \ {c} : Waiting(e) => Waiting(e)'
    BY <1>9 DEF Settled, Waiting
  <2>. QED
    BY <2>3, <2>4
<1>11. queue' \in Seq(Clients) /\ ListenerInv'
  <2> DEFINE q == Append(queue, c)
             n == Len(queue)
  <2>1. /\ n \in Nat /\ DOMAIN queue = 1..n /\ \A i \in 1..n : queue[i] \in Clients
        /\ q \in Seq(Clients) /\ DOMAIN q = 1..(n + 1)
        /\ \A i \in 1..n : q[i] = queue[i]
        /\ q[n + 1] = c
    BY LenProperties, ElementOfSeq, AppendProperties DEF IInv, TypeInv
  <2> HIDE DEF q, n
  <2>2. queue' = q
    BY <1>2 DEF q
  <2>3. /\ socket' = socket /\ acc' = acc /\ c # socket
        /\ acc = "ok" <=> socket # None
        /\ socket # None => Waiting(socket)'
    BY <1>2, <1>10, NoneAssumption DEF IInv, TypeInv, ListenerInv
  <2>4. \A i \in 1..n : /\ queue[i] # c /\ queue[i] # socket
                         /\ conn'[queue[i]].peer # "none" /\ at'[queue[i]] = "none"
    <3>1. \A i \in 1..n : queue[i] # socket /\ Waiting(queue[i])
      BY <2>1 DEF IInv, ListenerInv
    <3>. QED
      BY <1>10, <2>1, <3>1 DEF Waiting
  <2>5. \A i \in 1..(n + 1) : i \in 1..n \/ i = n + 1
    BY <2>1
  <2>6. \A i \in 1..(n + 1) :
           q[i] # socket /\ conn'[q[i]].peer # "none" /\ at'[q[i]] = "none"
    <3>1. \A i \in 1..n :
             q[i] # socket /\ conn'[q[i]].peer # "none" /\ at'[q[i]] = "none"
      BY <2>1, <2>4
    <3>2. c # socket /\ conn'[c].peer # "none" /\ at'[c] = "none"
      BY <1>10, <2>3 DEF Waiting
    <3>. QED
      BY <2>1, <2>5, <3>1, <3>2
  <2>7. ASSUME NEW i \in 1..(n + 1), NEW j \in 1..(n + 1), q[i] = q[j] PROVE i = j
    <3>1. CASE i \in 1..n /\ j \in 1..n
      BY <2>1, <2>7, <3>1 DEF IInv, ListenerInv
    <3>2. CASE i = n + 1 /\ j = n + 1
      BY <3>2
    <3>3. CASE i \in 1..n /\ j = n + 1
      BY <2>1, <2>4, <2>7, <3>3
    <3>4. CASE i = n + 1 /\ j \in 1..n
      BY <2>1, <2>4, <2>7, <3>4
    <3>. QED
      BY <2>5, <3>1, <3>2, <3>3, <3>4
  <2>. QED
    BY <2>1, <2>2, <2>3, <2>6, <2>7 DEF ListenerInv, Waiting
<1>12. TypeInv'
  BY <1>2, <1>9, <1>11 DEF Settled, IInv, TypeInv
<1>. QED
  BY <1>9, <1>11, <1>12 DEF Settled, IInv

(* The listener.                                                           *)

\* A session starts for the connection that was delivered.
LEMMA Delivered ==
  ASSUME IInv, acc = "ok",
         NEW a \in {"run", "handshake", "accept"}, NEW o \in {"ok", "waiting"},
         at' = [at EXCEPT ![socket] = a], op' = [op EXCEPT ![socket] = o],
         socket' = None, acc' = "pending",
         UNCHANGED <<mode, queue, broken, buffer, copied, pinging, held, conn>>
  PROVE  IInv'
<1>1. socket \in Clients /\ Waiting(socket)
  BY DEF IInv, TypeInv, ListenerInv
<1>2. PICK c \in Clients : c = socket
  BY <1>1
<1>3. PICK x \in Phases, y \in Results, br \in BOOLEAN, b \in Seq(Piece),
           k \in Nat, h \in BOOLEAN, cn \in ConnType :
         /\ Holds(mode, x, y, br, b, k, h, cn)
         /\ x = at[c] /\ y = op[c] /\ br = broken[c] /\ b = buffer[c]
         /\ k = copied[c] /\ h = held[c] /\ cn = conn[c]
  BY Here
<1>4. x = "none" /\ cn.peer # "none"
  BY <1>1, <1>2, <1>3 DEF Waiting
<1>5. Holds(mode, a, o, br, b, k, h, cn)
  BY <1>3, <1>4 DEF Holds, Buffered, Due, Full, Answered
<1>6. at' = [at EXCEPT ![c] = a] /\ op' = [op EXCEPT ![c] = o]
  BY <1>2
<1>7. Update(c, a, o, br, b, k, h, cn)
  BY <1>3, <1>6, Same DEF Update, IInv
<1>8. a \in Phases /\ o \in Results
  BY DEF Phases, Results
<1>9. Settled(c)
  BY <1>5, <1>7, <1>8, Updated
<1>10. TypeInv'
  BY <1>9 DEF Settled, IInv, TypeInv
<1>11. ListenerInv'
  <2>1. \A i \in DOMAIN queue : queue[i] \in Clients \ {c} /\ Waiting(queue[i])
    BY <1>2, LenProperties, ElementOfSeq DEF IInv, TypeInv, ListenerInv
  <2>2. \A i \in DOMAIN queue :
           /\ conn'[queue[i]].peer # "none" /\ at'[queue[i]] = "none"
           /\ queue[i] # None
    BY <1>9, <2>1, NoneAssumption DEF Settled, Waiting
  <2>. QED
    BY <2>2 DEF IInv, ListenerInv, Waiting
<1>. QED
  BY <1>9, <1>10, <1>11 DEF Settled, IInv

\* A connection leaves the queue, or the accept fails.
LEMMA AcceptStep ==
  ASSUME IInv, AcceptReady \/ AcceptError
  PROVE  IInv'
<1>1. /\ UNCHANGED <<mode, at, op, broken, buffer, copied, pinging, held, conn>>
      /\ acc = "pending" /\ socket = None
  BY DEF AcceptReady, AcceptError, IInv, ListenerInv
<1>2. \A c \in Clients : Session(c)'
  BY <1>1 DEF IInv, Session
<1>3. CASE AcceptReady
  <2> DEFINE q == Tail(queue)
             n == Len(queue)
  <2>1. /\ n \in Nat \ {0} /\ DOMAIN queue = 1..n /\ \A i \in 1..n : queue[i] \in Clients
        /\ q \in Seq(Clients) /\ DOMAIN q = 1..(n - 1)
        /\ \A i \in 1..(n - 1) : q[i] = queue[i + 1]
        /\ Head(queue) = queue[1]
    BY <1>3, EmptySeq, LenProperties, ElementOfSeq, HeadTailProperties
       DEF AcceptReady, IInv, TypeInv
  <2> HIDE DEF q, n
  <2>2. acc' = "ok" /\ socket' = queue[1] /\ queue' = q
    BY <1>3, <2>1 DEF AcceptReady, q
  <2>3. 1 \in 1..n /\ \A i \in 1..(n - 1) : i + 1 \in 1..n /\ i + 1 # 1
    BY <2>1
  <2>4. /\ \A i \in 1..n : conn[queue[i]].peer # "none" /\ at[queue[i]] = "none"
        /\ \A i, j \in 1..n : queue[i] = queue[j] => i = j
    BY <2>1 DEF IInv, ListenerInv, Waiting
  <2>5. \A i \in 1..(n - 1) : /\ conn[q[i]].peer # "none" /\ at[q[i]] = "none"
                              /\ q[i] # queue[1]
    BY <2>1, <2>3, <2>4
  <2>6. ASSUME NEW i \in 1..(n - 1), NEW j \in 1..(n - 1), q[i] = q[j] PROVE i = j
    <3>1. i + 1 = j + 1
      BY <2>1, <2>3, <2>4, <2>6
    <3>. QED
      BY <2>1, <3>1
  <2>7. queue[1] \in Clients /\ queue[1] # None
    BY <2>1, <2>3, NoneAssumption
  <2>8. ListenerInv'
    BY <1>1, <2>1, <2>2, <2>3, <2>4, <2>5, <2>6, <2>7 DEF ListenerInv, Waiting
  <2>9. TypeInv'
    BY <1>1, <2>1, <2>2, <2>7 DEF IInv, TypeInv
  <2>. QED
    BY <1>2, <2>8, <2>9 DEF IInv
<1>4. CASE AcceptError
  <2>1. queue' = queue /\ socket' = socket /\ acc' = "err"
    BY <1>4 DEF AcceptError
  <2>2. ListenerInv'
    BY <1>1, <2>1 DEF IInv, ListenerInv, Waiting
  <2>3. TypeInv'
    BY <1>1, <2>1 DEF IInv, TypeInv
  <2>. QED
    BY <1>2, <2>2, <2>3 DEF IInv
<1>. QED
  BY <1>3, <1>4

\* on_accept, and the loop of the synchronous servers
LEMMA ListenerStep ==
  ASSUME IInv, on_accept \/ accept_loop
  PROVE  IInv'
<1>1. UNCHANGED <<mode, queue, broken, buffer, copied, pinging, held, conn>>
  BY DEF on_accept, accept_loop
<1>2. CASE acc = "ok"
  <2>1. socket' = None /\ acc' = "pending"
    BY <1>2 DEF on_accept, accept_loop
  <2>2. PICK a \in {"run", "handshake", "accept"}, o \in {"ok", "waiting"} :
          at' = [at EXCEPT ![socket] = a] /\ op' = [op EXCEPT ![socket] = o]
    <3>1. CASE on_accept
      BY <1>2, <3>1 DEF on_accept
    <3>2. CASE accept_loop
      BY <1>2, <3>2 DEF accept_loop
    <3>. QED
      BY <3>1, <3>2
  <2>. QED
    BY <1>1, <1>2, <2>1, <2>2, Delivered
<1>3. CASE acc # "ok"
  <2>1. UNCHANGED <<at, op, socket>> /\ acc' \in {"pending", "err"} /\ socket = None
    BY <1>3 DEF on_accept, accept_loop, IInv, ListenerInv
  <2>2. \A c \in Clients : Session(c)'
    BY <1>1, <2>1 DEF IInv, Session
  <2>3. ListenerInv'
    BY <1>1, <2>1 DEF IInv, ListenerInv, Waiting
  <2>4. TypeInv'
    BY <1>1, <2>1 DEF IInv, TypeInv
  <2>. QED
    BY <2>2, <2>3, <2>4 DEF IInv
<1>. QED
  BY <1>2, <1>3

(* The theorems.                                                           *)

\* Nothing has arrived.
LEMMA InitInv ==
  ASSUME Init
  PROVE  IInv
<1>1. Len(<< >>) = 0 /\ \A S : << >> \in Seq(S)
  BY EmptySeq
<1>2. NewConn \in ConnType
  BY <1>1 DEF NewConn, ConnType
<1>3. TypeInv
  <2>1. conn \in [Clients -> ConnType]
    BY <1>2 DEF Init
  <2>. QED
    BY <1>1, <2>1 DEF Init, TypeInv, Phases, Results
<1>4. ListenerInv
  <2>1. DOMAIN queue = {}
    BY DEF Init
  <2>. QED
    BY <2>1 DEF Init, ListenerInv
<1>5. Holds(mode, "none", "none", FALSE, << >>, 0, FALSE, NewConn)
  <2>1. /\ NewConn.peer = "none" /\ NewConn.lens = << >> /\ NewConn.wire = << >>
        /\ NewConn.got = << >>
    BY DEF NewConn
  <2>2. Answers(<< >>, << >>) /\ Wire(<<1, 1>>, << >>, << >>, "none")
    BY <1>1 DEF Answers, Wire
  <2>3. Due("none", "none", << >>, 0) = <<1, 1>> /\ Buffered("none", "none", << >>, 0, << >>)
    BY <1>1 DEF Due, Buffered, Full, Answered
  <2>. QED
    BY <1>1, <2>1, <2>2, <2>3 DEF Holds
<1>6. \A c \in Clients : Session(c)
  BY <1>5 DEF Init, Session
<1>. QED
  BY <1>3, <1>4, <1>6 DEF IInv

\* Every step keeps the invariant.
LEMMA Inductive ==
  ASSUME IInv, [Next]_vars
  PROVE  IInv'
<1>1. CASE AcceptReady \/ AcceptError
  BY <1>1, AcceptStep
<1>2. CASE on_accept \/ accept_loop
  BY <1>2, ListenerStep
<1>3. ASSUME NEW c \in Clients, OperationNext(c) PROVE IInv'
  BY <1>3, CompletesStep, ReadStep, WriteStep, PingStep DEF OperationNext
<1>4. ASSUME NEW c \in Clients, HandlerNext(c) PROVE IInv'
  BY <1>4, SetupStep, OnReadStep, OnWriteStep DEF HandlerNext
<1>5. ASSUME NEW c \in Clients, ClientNext(c) PROVE IInv'
  BY <1>5, ConnectStep, ClientStep DEF ClientNext
<1>6. CASE UNCHANGED vars
  BY <1>6 DEF vars, IInv, TypeInv, ListenerInv, Waiting, Session
<1>. QED
  BY <1>1, <1>2, <1>3, <1>4, <1>5, <1>6 DEF Next

\* Of the listener, of every session and of every connection: what the servers never
\* leave.
THEOREM Invariant == Spec => []IInv
<1>1. Init => IInv
  BY InitInv
<1>2. IInv /\ [Next]_vars => IInv'
  BY Inductive
<1>. QED
  BY <1>1, <1>2, PTL DEF Spec

\* The answers come in the order of the messages, one for each, as long as the message
\* and with nothing in it that is of another.
THEOREM AnswersMatchAlways == Spec => []AnswersMatch
<1>1. ASSUME IInv PROVE AnswersMatch
  <2>1. ASSUME NEW c \in Clients
        PROVE  /\ Answers(conn[c].got, conn[c].lens)
               /\ conn[c].got \in Seq(Seq(Piece))
    BY <1>1, ConnParts DEF IInv, TypeInv, Session, Holds
  <2>2. ASSUME NEW c \in Clients, NEW n \in DOMAIN conn[c].got
        PROVE  /\ n \in 1..Len(conn[c].got)
               /\ DOMAIN conn[c].got[n] = 1..Len(conn[c].got[n])
    BY <2>1, LenProperties, ElementOfSeq
  <2>. QED
    BY <2>1, <2>2 DEF AnswersMatch, Answers
<1>. QED
  BY <1>1, Invariant, PTL

\* No step but WriteDone sends an answer.
LEMMA OnlyWrites ==
  ASSUME IInv, [Next]_vars, NEW c \in Clients, conn'[c].got # conn[c].got
  PROVE  WriteDone(c)
<1>1. conn' # conn /\ conn \in [Clients -> ConnType]
  BY DEF IInv, TypeInv
<1>2. PICK e \in Clients :
        ReadSome(e) \/ WriteDone(e) \/ ClientNext(e)
  BY <1>1 DEF Next, vars, AcceptReady, AcceptError, on_accept, accept_loop,
              OperationNext, HandlerNext, HandshakeDone, Fails, Timeout, PingStarts,
              PingEnds, on_setup, on_read, write_back, on_write
<1>3. CASE ReadSome(e)
  BY <1>1, <1>3 DEF ReadSome, ConnType
<1>4. CASE ClientNext(e)
  <2>1. CASE Connect(e)
    BY <1>1, <2>1 DEF Connect, ConnType
  <2>2. CASE Hello(e) \/ SendMessage(e) \/ Leave(e)
    <3>1. PICK cm \in ConnType :
            conn' = [conn EXCEPT ![e] = cm] /\ cm.got = conn[e].got
      BY <2>2, ClientEffect
    <3>. QED
      BY <1>1, <3>1
  <2>. QED
    BY <1>4, <2>1, <2>2 DEF ClientNext
<1>5. CASE WriteDone(e)
  <2>1. e # c => conn'[c] = conn[c]
    BY <1>1, <1>5 DEF WriteDone
  <2>2. e = c
    BY <2>1
  <2>. QED
    BY <1>5, <2>2
<1>. QED
  BY <1>2, <1>3, <1>4, <1>5

\* The text of an answer is lost only where no copy was made of it when on_read
\* returned: past the pieces that the TLS layer takes at once, or behind a ping.  The
\* synchronous servers lose none.
THEOREM Intact == Spec => IntactUnlessLate
<1> DEFINE Body ==
      \A c \in Clients :
         conn'[c].got # conn[c].got =>
            LET answer == Last(conn'[c].got)
            IN  \A k \in DOMAIN answer :
                  \/ answer[k] # Junk
                  \/ mode = "async" /\ (k > Copied \/ held[c])
<1>1. ASSUME IInv, [Next]_vars PROVE Body
  <2>1. SUFFICES ASSUME NEW c \in Clients, conn'[c].got # conn[c].got,
                        NEW k \in DOMAIN Last(conn'[c].got),
                        Last(conn'[c].got)[k] = Junk
                 PROVE  mode = "async" /\ (k > Copied \/ held[c])
    OBVIOUS
  <2>2. WriteDone(c)
    BY <1>1, <2>1, OnlyWrites
  <2>3. /\ at[c] = "write" /\ op[c] = "waiting" /\ ~broken[c]
        /\ \E cm \in ConnType : \E answer :
              /\ conn' = [conn EXCEPT ![c] = cm]
              /\ cm.got = Append(conn[c].got, answer)
              /\ Len(cm.got) = Len(conn[c].got) + 1
              /\ DOMAIN answer = 1..Len(buffer[c])
              /\ \A i \in 1..Len(buffer[c]) : answer[i] = Junk => i > copied[c]
    BY <1>1, <2>2, WriteEffect
  <2>4. PICK cm \in ConnType : \E answer :
           /\ conn' = [conn EXCEPT ![c] = cm]
           /\ cm.got = Append(conn[c].got, answer)
           /\ Len(cm.got) = Len(conn[c].got) + 1
           /\ DOMAIN answer = 1..Len(buffer[c])
           /\ \A i \in 1..Len(buffer[c]) : answer[i] = Junk => i > copied[c]
    BY <2>3, Zenon
  <2>5. PICK answer :
           /\ conn' = [conn EXCEPT ![c] = cm]
           /\ cm.got = Append(conn[c].got, answer)
           /\ Len(cm.got) = Len(conn[c].got) + 1
           /\ DOMAIN answer = 1..Len(buffer[c])
           /\ \A i \in 1..Len(buffer[c]) : answer[i] = Junk => i > copied[c]
    BY <2>4, Zenon
  <2>6. Last(conn'[c].got) = answer
    <3>1. conn'[c] = cm
      BY <1>1, <2>5 DEF IInv, TypeInv
    <3>2. conn[c].got \in Seq(Seq(Piece)) /\ Len(conn[c].got) \in Nat
      BY <1>1, ConnParts DEF IInv, TypeInv
    <3>3. cm.got[Len(cm.got)] = answer
      BY <2>5, <3>2, AppendProperties
    <3>. QED
      BY <3>1, <3>3 DEF Last
  <2>7. /\ InTime(mode, buffer[c], copied[c], held[c]) /\ copied[c] \in Nat
        /\ Len(buffer[c]) \in Nat
    BY <1>1, <2>3, LenProperties DEF IInv, TypeInv, Session, Holds
  <2>8. k \in 1..Len(buffer[c]) /\ k > copied[c]
    BY <2>1, <2>5, <2>6
  <2>. QED
    BY <2>7, <2>8, BoundAssumption DEF InTime
<1>2. IInv /\ [Next]_vars => Body
  BY <1>1
<1>. QED
  BY <1>2, Invariant, PTL DEF Spec, IntactUnlessLate
====
