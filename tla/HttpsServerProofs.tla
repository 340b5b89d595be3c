---- MODULE HttpsServerProofs ----
(***************************************************************************)
(* Safety of the sessions of HttpsServer for every set of clients and of   *)
(* requests, every width of the variable "size" and every bound.           *)
(* What is still to be read of a connection is a run of half requests, in  *)
(* order (Unread); what its client has got, with what async_write has      *)
(* still to send, is a run of bytes of the responses (Ordered), all of     *)
(* those that are due but for the one that is being written (Whole).       *)
(***************************************************************************)
EXTENDS HttpsServer, FiniteSetTheorems, SequenceTheorems, WellFoundedInduction, TLAPS

Token == Nat \X {"first", "rest"}
Byte  == Nat \X Nat

ConnType ==
    [peer : {"none", "up", "fin", "reset"}, hello : BOOLEAN, asked : Seq(Request),
     wire : Seq(Token), out : Seq(Byte)]

Phases  == {"none", "run", "handshake", "read", "write", "shutdown", "gone"}
Results == {"none", "waiting", "ok", "eof", "error"}

TypeInv ==
    /\ acc \in {"pending", "ok", "err", "ended"}
    /\ queue \in Seq(Clients)
    /\ socket \in Clients \cup {None}
    /\ at \in [Clients -> Phases]
    /\ op \in [Clients -> Results]
    /\ buffer \in [Clients -> Seq(Token)]
    /\ msg \in [Clients -> Seq(Byte)]
    /\ answering \in [Clients -> Nat]
    /\ conn \in [Clients -> ConnType]

(* The listener.                                                           *)

\* A connection that waits, or is delivered, has no session and waits once.
Waiting(c) == conn[c].peer # "none" /\ at[c] = "none"

ListenerInv ==
    /\ \A i \in DOMAIN queue : Waiting(queue[i]) /\ queue[i] # socket
    /\ \A i, j \in DOMAIN queue : queue[i] = queue[j] => i = j
    /\ acc = "ok" <=> socket # None
    /\ socket # None => Waiting(socket)

(* The requests that were sent and not parsed.                             *)

NextToken(t) == IF t[2] = "first" THEN <<t[1], "rest">> ELSE <<t[1] + 1, "first">>

\* s is requests n + 1 to N, of the last one perhaps only the first part.
Unread(s, n, N) ==
    /\ \A i \in 1..Len(s) : s[i][1] <= N
    /\ s # << >> => s[1] = <<n + 1, "first">>
    /\ \A i \in 1..(Len(s) - 1) : s[i + 1] = NextToken(s[i])
    /\ n <= N
    /\ IF s = << >> THEN N = n ELSE s[Len(s)][1] = N

(* The responses.                                                          *)

\* The length of the body of the n-th response
Size(asked, n) == handle_request(asked[n]).body

NextByte(t, asked) ==
    IF t[2] < Size(asked, t[1]) THEN <<t[1], t[2] + 1>> ELSE <<t[1] + 1, 0>>

\* s is a beginning of the first n responses
Ordered(s, n, asked) ==
    /\ \A i \in 1..Len(s) : s[i][1] \in 1..n /\ s[i][2] <= Size(asked, s[i][1])
    /\ s # << >> => s[1] = <<1, 0>>
    /\ \A i \in 1..(Len(s) - 1) : s[i + 1] = NextByte(s[i], asked)

\* and ends with the end of the n-th.
Whole(s, n, asked) ==
    /\ Ordered(s, n, asked)
    /\ IF n = 0 THEN s = << >>
       ELSE s # << >> /\ s[Len(s)] = <<n, Size(asked, n)>>

(* One session: at a, whose operation is o; b is in its buffer, m is still *)
(* to be written, n requests were parsed and cn is the connection.         *)

\* What the client gets when the write is complete
Stream(a, m, out) == IF a = "write" THEN out \o m ELSE out

\* The responses that are in it; the request that was just read has none yet.
Answered(a, o, n) == IF a = "read" /\ o = "ok" THEN n - 1 ELSE n

Holds(a, o, b, m, n, cn) ==
    /\ Unread(b \o cn.wire, n, Len(cn.asked))
    /\ \A i \in 1..(n - 1) : cn.asked[i].keep
    /\ a = "read" /\ o # "ok" /\ n > 0 => cn.asked[n].keep
    /\ a = "write" \/ (a = "read" /\ o = "ok") => n > 0
    /\ a # "gone" => Whole(Stream(a, m, cn.out), Answered(a, o, n), cn.asked)
    /\ Ordered(cn.out, n, cn.asked)
    /\ a = "write" /\ o = "ok" => m = << >>
    /\ o = "eof" => a = "read" /\ b = << >> /\ cn.wire = << >> /\ cn.peer # "up"
    /\ a \in {"none", "run", "handshake"} => n = 0
    /\ cn.peer = "none" => a = "none"

Session(c) == Holds(at[c], op[c], buffer[c], msg[c], answering[c], conn[c])

\* A step that changes the session of c only
Update(c, a, o, b, m, n, cn) ==
    /\ at' = [at EXCEPT ![c] = a]
    /\ op' = [op EXCEPT ![c] = o]
    /\ buffer' = [buffer EXCEPT ![c] = b]
    /\ msg' = [msg EXCEPT ![c] = m]
    /\ answering' = [answering EXCEPT ![c] = n]
    /\ conn' = [conn EXCEPT ![c] = cn]

\* What such a step leaves: every session is as it has to be, the others as they were.
Settled(c) ==
    /\ at' \in [Clients -> Phases] /\ op' \in [Clients -> Results]
    /\ buffer' \in [Clients -> Seq(Token)] /\ msg' \in [Clients -> Seq(Byte)]
    /\ answering' \in [Clients -> Nat] /\ conn' \in [Clients -> ConnType]
    /\ \A e \in Clients : Session(e)'
    /\ \A e \in Clients \ {c} : at'[e] = at[e] /\ conn'[e] = conn[e]

IInv ==
    /\ TypeInv
    /\ ListenerInv
    /\ \A c \in Clients : Session(c)

(* Sequences, and the body of a response.                                  *)

\* What the two parts of a divided sequence are.
LEMMA Parts ==
  ASSUME NEW S, NEW s \in Seq(S), NEW n \in 0..Len(s)
  PROVE  /\ SubSeq(s, 1, n) \in Seq(S) /\ SubSeq(s, n + 1, Len(s)) \in Seq(S)
         /\ Len(SubSeq(s, n + 1, Len(s))) = Len(s) - n
         /\ \A k \in 1..(Len(s) - n) : SubSeq(s, n + 1, Len(s))[k] = s[n + k]
         /\ SubSeq(s, 1, n) \o SubSeq(s, n + 1, Len(s)) = s
<1>1. Len(s) \in Nat /\ \A k \in 1..Len(s) : s[k] \in S
  BY LenProperties, ElementOfSeq
<1>2. \A k \in 1..n : s[k] \in S
  BY <1>1
<1>3. \A k \in (n + 1)..Len(s) : s[k] \in S
  BY <1>1
<1>4. SubSeq(s, 1, n) \in Seq(S)
  BY <1>1, <1>2, SubSeqProperties
<1>5. /\ SubSeq(s, n + 1, Len(s)) \in Seq(S)
      /\ Len(SubSeq(s, n + 1, Len(s))) =
            IF n + 1 <= Len(s) THEN Len(s) - (n + 1) + 1 ELSE 0
      /\ \A k \in 1..(Len(s) - (n + 1) + 1) :
            SubSeq(s, n + 1, Len(s))[k] = s[n + 1 + k - 1]
  BY <1>1, <1>3, SubSeqProperties
<1>6. /\ Len(SubSeq(s, n + 1, Len(s))) = Len(s) - n
      /\ \A k \in 1..(Len(s) - n) : SubSeq(s, n + 1, Len(s))[k] = s[n + k]
  <2>1. Len(SubSeq(s, n + 1, Len(s))) = Len(s) - n
    BY <1>1, <1>5
  <2>2. ASSUME NEW k \in 1..(Len(s) - n) PROVE SubSeq(s, n + 1, Len(s))[k] = s[n + k]
    <3>1. k \in 1..(Len(s) - (n + 1) + 1) /\ n + 1 + k - 1 = n + k
      BY <1>1
    <3>. QED
      BY <1>5, <3>1
  <2>. QED
    BY <2>1, <2>2
<1>7. SubSeq(s, 1, n) \o SubSeq(s, n + 1, Len(s)) = s
  <2>1. 1 \in 1..(Len(s) + 1) /\ n \in (1 - 1)..Len(s) /\ Len(s) \in n..Len(s)
    BY <1>1
  <2>2. SubSeq(s, 1, n) \o SubSeq(s, n + 1, Len(s)) = SubSeq(s, 1, Len(s))
    BY <2>1, ConcatAdjacentSubSeq
  <2>. QED
    BY <2>2, SubSeqFull
<1>. QED
  BY <1>4, <1>5, <1>6, <1>7

\* The pieces on the wire may be grouped in any way.
LEMMA Reassociate == \A x, y, z \in Seq(Token) : (x \o y) \o z = x \o (y \o z)
  BY ConcatAssociative

\* What is moved from the front of one sequence to the end of another is not lost.
LEMMA Moved ==
  ASSUME NEW S, NEW s \in Seq(S), NEW t \in Seq(S), NEW n \in 0..Len(t)
  PROVE  /\ s \o SubSeq(t, 1, n) \in Seq(S)
         /\ (s \o SubSeq(t, 1, n)) \o SubSeq(t, n + 1, Len(t)) = s \o t
<1>1. ASSUME NEW a \in Seq(S), NEW b \in Seq(S), NEW d \in Seq(S)
      PROVE  (a \o b) \o d = a \o (b \o d)
  BY ConcatAssociative
<1>2. PICK front \in Seq(S), back \in Seq(S) :
         /\ front = SubSeq(t, 1, n) /\ back = SubSeq(t, n + 1, Len(t))
         /\ front \o back = t
  <2>1. /\ SubSeq(t, 1, n) \in Seq(S) /\ SubSeq(t, n + 1, Len(t)) \in Seq(S)
        /\ SubSeq(t, 1, n) \o SubSeq(t, n + 1, Len(t)) = t
    BY Parts
  <2>. QED
    BY <2>1, Zenon
<1>3. (s \o front) \o back = s \o (front \o back)
  BY <1>1
<1>4. s \o front \in Seq(S)
  BY ConcatProperties
<1>. QED
  BY <1>2, <1>3, <1>4

\* A set of numbers that holds 0 and the successor of each of its members is all of Nat.
LEMMA Induction ==
  ASSUME NEW S \in SUBSET Nat, 0 \in S, \A n \in S : n + 1 \in S
  PROVE  S = Nat
<1> DEFINE R == OpToRel(<, Nat)
<1>1. \A m, n \in Nat : <<m, n>> \in R <=> m < n
  BY DEF OpToRel
<1>2. IsWellFoundedOn(R, Nat)
  BY NatLessThanWellFounded
<1> HIDE DEF R
<1>3. SUFFICES ASSUME S # Nat PROVE FALSE
  OBVIOUS
<1> DEFINE T == Nat \ S
<1>4. T \in SUBSET Nat /\ T # {}
  BY <1>3
<1> HIDE DEF T
<1>5. PICK n \in T : \A m \in T : ~(<<m, n>> \in R)
  BY <1>2, <1>4, WFMin
<1>6. n \in Nat \ S /\ \A m \in Nat \ S : ~(m < n)
  BY <1>1, <1>4, <1>5 DEF T
<1>7. n - 1 \in Nat /\ n - 1 \notin Nat \ S
  BY <1>6
<1>. QED
  BY <1>6, <1>7

\* The number of values of "size"
LEMMA Sizes == 2^Width \in Nat \ {0}
<1>1. IsFiniteSet(1..Width) /\ Cardinality(1..Width) = Width
  BY BoundAssumption, FS_Interval
<1>2. IsFiniteSet(SUBSET (1..Width)) /\ Cardinality(SUBSET (1..Width)) = 2^Width
  BY <1>1, FS_SUBSET
<1>3. Cardinality(SUBSET (1..Width)) \in Nat /\ Cardinality(SUBSET (1..Width)) # 0
  BY <1>2, FS_CardinalityType, FS_EmptySet
<1>. QED
  BY <1>2, <1>3

\* The body of a response has a length.
LEMMA BodyIs ==
  ASSUME NEW q \in Request
  PROVE  handle_request(q).body \in Nat
<1>1. q.size \in Nat
  BY DEF Request
<1>. QED
  BY <1>1 DEF handle_request, Error, Response, ErrorBody

\* The parts of a connection
LEMMA ConnParts ==
  ASSUME NEW cn \in ConnType
  PROVE  /\ cn.asked \in Seq(Request) /\ Len(cn.asked) \in Nat
         /\ \A n \in 1..Len(cn.asked) : cn.asked[n] \in Request
         /\ cn.wire \in Seq(Token) /\ Len(cn.wire) \in Nat
         /\ cn.out \in Seq(Byte) /\ Len(cn.out) \in Nat
         /\ cn.peer \in {"none", "up", "fin", "reset"} /\ cn.hello \in BOOLEAN
<1>1. /\ cn.asked \in Seq(Request) /\ cn.wire \in Seq(Token) /\ cn.out \in Seq(Byte)
      /\ cn.peer \in {"none", "up", "fin", "reset"} /\ cn.hello \in BOOLEAN
  BY DEF ConnType
<1>. QED
  BY <1>1, LenProperties, ElementOfSeq

(* The requests.                                                           *)

\* A request that is read is the next one, and what follows it comes next.
LEMMA UnreadTake ==
  ASSUME NEW s \in Seq(Token), NEW n \in Nat, NEW N \in Nat, Unread(s, n, N), Len(s) >= 2
  PROVE  /\ s[1] = <<n + 1, "first">> /\ s[2] = <<n + 1, "rest">> /\ n + 1 <= N
         /\ SubSeq(s, 3, Len(s)) \in Seq(Token)
         /\ Unread(SubSeq(s, 3, Len(s)), n + 1, N)
<1> DEFINE L == Len(s)
           u == SubSeq(s, 3, L)
<1>1. /\ L \in Nat /\ L >= 2 /\ \A i \in 1..L : s[i] \in Token
      /\ 2 \in 0..L /\ 1 \in 1..L /\ 2 \in 1..L /\ 1 \in 1..(L - 1) /\ s # << >>
  BY LenProperties, ElementOfSeq, EmptySeq
<1>2. /\ u \in Seq(Token) /\ Len(u) = L - 2 /\ \A k \in 1..(L - 2) : u[k] = s[2 + k]
  <2>1. SubSeq(s, 2 + 1, L) = u
    OBVIOUS
  <2>. QED
    BY <1>1, <2>1, Parts
<1> HIDE DEF u, L
<1>3. /\ \A i \in 1..L : s[i][1] <= N
      /\ s[1] = <<n + 1, "first">>
      /\ \A i \in 1..(L - 1) : s[i + 1] = NextToken(s[i])
      /\ s[L][1] = N
  BY <1>1 DEF Unread, L
<1>4. s[2] = <<n + 1, "rest">>
  <2>1. s[1 + 1] = NextToken(s[1])
    BY <1>1, <1>3
  <2>. QED
    BY <1>3, <2>1 DEF NextToken
<1>5. n + 1 <= N
  BY <1>1, <1>3
<1>6. \A k \in 1..Len(u) : 2 + k \in 1..L /\ u[k] = s[2 + k]
  BY <1>1, <1>2
<1>7. \A i \in 1..Len(u) : u[i][1] <= N
  BY <1>3, <1>6
<1>8. ASSUME u # << >> PROVE u[1] = <<n + 1 + 1, "first">>
  <2>1. 1 \in 1..Len(u) /\ 2 \in 1..(L - 1)
    BY <1>1, <1>2, <1>8, EmptySeq
  <2>2. u[1] = s[2 + 1] /\ s[2 + 1] = NextToken(s[2])
    BY <1>3, <1>6, <2>1
  <2>. QED
    BY <1>4, <2>2 DEF NextToken
<1>9. ASSUME NEW i \in 1..(Len(u) - 1) PROVE u[i + 1] = NextToken(u[i])
  <2>1. /\ i \in 1..Len(u) /\ i + 1 \in 1..Len(u) /\ 2 + i \in 1..(L - 1)
        /\ 2 + (i + 1) = (2 + i) + 1
    BY <1>1, <1>2
  <2>2. u[i] = s[2 + i] /\ u[i + 1] = s[(2 + i) + 1]
    BY <1>6, <2>1
  <2>. QED
    BY <1>3, <2>1, <2>2
<1>10. IF u = << >> THEN N = n + 1 ELSE u[Len(u)][1] = N
  <2>1. CASE u = << >>
    <3>1. L = 2
      BY <1>1, <1>2, <2>1, EmptySeq
    <3>. QED
      BY <1>3, <1>4, <2>1, <3>1
  <2>2. CASE u # << >>
    <3>1. Len(u) \in 1..Len(u) /\ 2 + Len(u) = L
      BY <1>1, <1>2, <2>2, EmptySeq
    <3>. QED
      BY <1>3, <1>6, <2>2, <3>1
  <2>. QED
    BY <2>1, <2>2
<1>11. Unread(u, n + 1, N)
  BY <1>5, <1>7, <1>8, <1>9, <1>10 DEF Unread
<1>. QED
  BY <1>2, <1>3, <1>4, <1>5, <1>11 DEF u, L

\* The second part of the last request, or the first part of another one, is what comes
\* next.
LEMMA UnreadMore ==
  ASSUME NEW s \in Seq(Token), NEW n \in Nat, NEW N \in Nat, Unread(s, n, N),
         NEW t \in Token, NEW M \in Nat, t[1] = M, N <= M,
         s = << >> => t = <<n + 1, "first">>,
         s # << >> => t = NextToken(s[Len(s)])
  PROVE  Append(s, t) \in Seq(Token) /\ Unread(Append(s, t), n, M)
<1> DEFINE L == Len(s)
           u == Append(s, t)
<1>1. /\ L \in Nat /\ \A i \in 1..L : s[i] \in Token
      /\ u \in Seq(Token) /\ Len(u) = L + 1 /\ u # << >>
      /\ \A i \in 1..L : u[i] = s[i]
      /\ u[L + 1] = t
      /\ (s = << >> <=> L = 0)
  BY LenProperties, ElementOfSeq, AppendProperties, EmptySeq
<1> HIDE DEF u
<1>2. /\ \A i \in 1..L : s[i][1] <= N
      /\ s # << >> => s[1] = <<n + 1, "first">>
      /\ \A i \in 1..(L - 1) : s[i + 1] = NextToken(s[i])
      /\ n <= N
      /\ s # << >> => t = NextToken(s[L])
  BY DEF Unread
<1> HIDE DEF L
<1>3. \A i \in 1..(L + 1) : i \in 1..L \/ i = L + 1
  BY <1>1
<1>4. \A i \in 1..(L + 1) : u[i][1] <= M
  <2>1. ASSUME NEW i \in 1..L PROVE u[i][1] <= M
    <3>1. s[i] \in Token /\ s[i][1] \in Nat /\ s[i][1] <= N
      BY <1>1, <1>2 DEF Token
    <3>. QED
      BY <1>1, <3>1
  <2>. QED
    BY <1>1, <1>3, <2>1
<1>5. u[1] = <<n + 1, "first">>
  <2>1. CASE L = 0
    BY <1>1, <2>1
  <2>2. CASE L # 0
    <3>1. 1 \in 1..L
      BY <1>1, <2>2
    <3>. QED
      BY <1>1, <1>2, <2>2, <3>1
  <2>. QED
    BY <2>1, <2>2
<1>6. ASSUME NEW i \in 1..L PROVE u[i + 1] = NextToken(u[i])
  <2>1. CASE i = L
    BY <1>1, <1>2, <2>1
  <2>2. CASE i # L
    <3>1. i \in 1..(L - 1) /\ i + 1 \in 1..L
      BY <1>1, <2>2
    <3>. QED
      BY <1>1, <1>2, <3>1
  <2>. QED
    BY <2>1, <2>2
<1>7. (L + 1) - 1 = L /\ n <= M
  BY <1>1, <1>2
<1>8. Unread(u, n, M)
  BY <1>1, <1>4, <1>5, <1>6, <1>7 DEF Unread
<1>. QED
  BY <1>1, <1>8 DEF u

\* The elements of two sequences are those of both, in whatever order they follow.
LEMMA BothOrders ==
  ASSUME NEW S, NEW s \in Seq(S), NEW t \in Seq(S)
  PROVE  ToSet(s \o t) = ToSet(t \o s)
<1>1. ASSUME NEW a \in Seq(S), NEW b \in Seq(S), NEW x
      PROVE  x \in ToSet(a \o b) <=> (x \in ToSet(a) \/ x \in ToSet(b))
  <2>1. /\ Len(a) \in Nat /\ Len(b) \in Nat /\ DOMAIN a = 1..Len(a) /\ DOMAIN b = 1..Len(b)
        /\ DOMAIN (a \o b) = 1..(Len(a) + Len(b))
        /\ \A i \in 1..(Len(a) + Len(b)) :
              (a \o b)[i] = IF i <= Len(a) THEN a[i] ELSE b[i - Len(a)]
    BY LenProperties, ConcatProperties
  <2>2. ASSUME x \in ToSet(a \o b) PROVE x \in ToSet(a) \/ x \in ToSet(b)
    <3>1. PICK i \in 1..(Len(a) + Len(b)) : x = (a \o b)[i]
      BY <2>1, <2>2 DEF ToSet
    <3>2. CASE i <= Len(a)
      <4>1. i \in 1..Len(a) /\ x = a[i]
        BY <2>1, <3>1, <3>2
      <4>. QED
        BY <2>1, <4>1 DEF ToSet
    <3>3. CASE ~(i <= Len(a))
      <4>1. i - Len(a) \in 1..Len(b) /\ x = b[i - Len(a)]
        BY <2>1, <3>1, <3>3
      <4>. QED
        BY <2>1, <4>1 DEF ToSet
    <3>. QED
      BY <3>2, <3>3
  <2>3. ASSUME x \in ToSet(a) PROVE x \in ToSet(a \o b)
    <3>1. PICK i \in 1..Len(a) : x = a[i]
      BY <2>1, <2>3 DEF ToSet
    <3>2. i \in 1..(Len(a) + Len(b)) /\ i <= Len(a)
      BY <2>1
    <3>. QED
      BY <2>1, <3>1, <3>2 DEF ToSet
  <2>4. ASSUME x \in ToSet(b) PROVE x \in ToSet(a \o b)
    <3>1. PICK i \in 1..Len(b) : x = b[i]
      BY <2>1, <2>4 DEF ToSet
    <3>2. Len(a) + i \in 1..(Len(a) + Len(b)) /\ ~(Len(a) + i <= Len(a))
          /\ Len(a) + i - Len(a) = i
      BY <2>1
    <3>3. (a \o b)[Len(a) + i] = b[i]
      BY <2>1, <3>2
    <3>. QED
      BY <2>1, <3>1, <3>2, <3>3 DEF ToSet
  <2>. QED
    BY <2>2, <2>3, <2>4
<1>2. ASSUME NEW x PROVE x \in ToSet(s \o t) <=> x \in ToSet(t \o s)
  BY <1>1
<1>. QED
  BY <1>2

\* What SendRequest finds out of the elements: whether the second part of the last
\* request is still to be sent.
LEMMA UnreadHalf ==
  ASSUME NEW s \in Seq(Token), NEW n \in Nat, NEW N \in Nat, Unread(s, n, N)
  PROVE  IF <<N, "first">> \in ToSet(s) /\ <<N, "rest">> \notin ToSet(s)
         THEN s # << >> /\ NextToken(s[Len(s)]) = <<N, "rest">>
         ELSE IF s = << >> THEN N = n ELSE NextToken(s[Len(s)]) = <<N + 1, "first">>
<1> DEFINE L == Len(s)
<1>1. /\ L \in Nat /\ \A i \in 1..L : s[i] \in Token
      /\ DOMAIN s = 1..L /\ (s = << >> <=> L = 0)
  BY LenProperties, ElementOfSeq, EmptySeq
<1>2. CASE s = << >>
  <2>1. ToSet(s) = {}
    BY <1>1, <1>2 DEF ToSet
  <2>. QED
    BY <1>2, <2>1 DEF Unread
<1>3. CASE s # << >>
  <2>1. L \in 1..L /\ s[L] \in Token /\ s[L][1] = N /\ s[L] \in ToSet(s)
    BY <1>1, <1>3 DEF Unread, ToSet
  <2>2. s[L] = <<N, "first">> \/ s[L] = <<N, "rest">>
    BY <2>1 DEF Token
  <2>3. CASE s[L] = <<N, "rest">>
    <3>1. NextToken(s[L]) = <<N + 1, "first">>
      BY <2>3 DEF NextToken
    <3>. QED
      BY <1>3, <2>1, <2>3, <3>1
  <2>4. CASE s[L] = <<N, "first">>
    <3>1. NextToken(s[L]) = <<N, "rest">>
      BY <2>4 DEF NextToken
    <3>2. ASSUME <<N, "rest">> \in ToSet(s) PROVE FALSE
      <4>1. PICK i \in 1..L : s[i] = <<N, "rest">>
        BY <1>1, <3>2 DEF ToSet
      <4>2. i # L
        <5>1. SUFFICES ASSUME i = L PROVE FALSE
          OBVIOUS
        <5>2. s[i][2] = "rest"
          BY <4>1
        <5>3. s[L][2] = "first"
          BY <2>4
        <5> HIDE DEF L
        <5>. QED
          BY <5>1, <5>2, <5>3
      <4>3. i \in 1..(L - 1) /\ i + 1 \in 1..L
        <5> HIDE DEF L
        <5>. QED
          BY <1>1, <4>2
      <4>4. s[i + 1] = NextToken(s[i])
        BY <4>3 DEF Unread, L
      <4>5. s[i + 1] = <<N + 1, "first">> /\ s[i + 1][1] <= N
        BY <4>1, <4>3, <4>4 DEF Unread, NextToken, L
      <4>. QED
        BY <4>5
    <3>. QED
      BY <1>3, <2>1, <2>4, <3>1, <3>2
  <2>. QED
    BY <2>2, <2>3, <2>4
<1>. QED
  BY <1>2, <1>3

\* The buffer that holds a whole request begins with the next one.
LEMMA UnreadBuffer ==
  ASSUME NEW b \in Seq(Token), NEW w \in Seq(Token), NEW n \in Nat, NEW N \in Nat,
         Unread(b \o w, n, N), NEW m, <<m, "rest">> \in ToSet(b)
  PROVE  /\ Len(b) >= 2 /\ b[1] = <<n + 1, "first">> /\ n + 1 <= N
         /\ SubSeq(b, 3, Len(b)) \in Seq(Token)
         /\ Unread(SubSeq(b, 3, Len(b)) \o w, n + 1, N)
<1> DEFINE s == b \o w
           B == Len(b)
<1>1. /\ B \in Nat /\ Len(w) \in Nat /\ DOMAIN b = 1..B
      /\ s \in Seq(Token) /\ Len(s) = B + Len(w)
      /\ \A i \in 1..(B + Len(w)) : s[i] = IF i <= B THEN b[i] ELSE w[i - B]
  BY LenProperties, ConcatProperties
<1> HIDE DEF s, B
<1>2. \A i \in 1..B : s[i] = b[i]
  <2>1. \A i \in 1..B : i \in 1..(B + Len(w)) /\ i <= B
    BY <1>1
  <2>. QED
    BY <1>1, <2>1
<1>3. PICK i \in 1..B : b[i] = <<m, "rest">>
  BY <1>1 DEF ToSet
<1>4. s # << >> /\ 1 \in 1..B
  BY <1>1, <1>3, EmptySeq
<1>5. b[1] = <<n + 1, "first">>
  BY <1>2, <1>4 DEF Unread, s
<1>6. i # 1
  BY <1>3, <1>5
<1>7. B >= 2 /\ Len(s) >= 2
  BY <1>1, <1>6
<1>8. /\ n + 1 <= N /\ SubSeq(s, 3, Len(s)) \in Seq(Token)
      /\ Unread(SubSeq(s, 3, Len(s)), n + 1, N)
  <2>1. Unread(s, n, N)
    BY DEF s
  <2>. QED
    BY <1>1, <1>7, <2>1, UnreadTake
<1> DEFINE head == SubSeq(b, 1, 2)
           rest == SubSeq(b, 3, B)
           tail == SubSeq(s, 3, Len(s))
<1>9. /\ head \in Seq(Token) /\ rest \in Seq(Token) /\ head \o rest = b
  <2>1. 2 \in 0..B /\ 2 + 1 = 3
    BY <1>1, <1>7
  <2>2. /\ SubSeq(b, 1, 2) \in Seq(Token) /\ SubSeq(b, 2 + 1, B) \in Seq(Token)
        /\ SubSeq(b, 1, 2) \o SubSeq(b, 2 + 1, B) = b
    BY <2>1, Parts DEF B
  <2>. QED
    BY <2>1, <2>2
<1>10. SubSeq(s, 1, 2) = head
  <2>1. 1 \in 1..B /\ 2 \in 1..B
    BY <1>1, <1>7
  <2>. QED
    BY <2>1, SubSeqOfConcat1 DEF s, B
<1>11. SubSeq(s, 1, 2) \o tail = s /\ tail \in Seq(Token)
  <2>1. 2 \in 0..Len(s) /\ 2 + 1 = 3
    BY <1>1, <1>7
  <2>2. /\ SubSeq(s, 2 + 1, Len(s)) \in Seq(Token)
        /\ SubSeq(s, 1, 2) \o SubSeq(s, 2 + 1, Len(s)) = s
    BY <1>1, <2>1, Parts
  <2>. QED
    BY <2>1, <2>2
<1> HIDE DEF head, rest, tail
<1>12. head \o (rest \o w) = s /\ rest \o w \in Seq(Token)
  <2>1. head \in Seq(Token) /\ rest \in Seq(Token)
    BY <1>9
  <2>2. (head \o rest) \o w = head \o (rest \o w)
    BY <2>1, Reassociate
  <2>3. rest \o w \in Seq(Token)
    BY <2>1, ConcatProperties
  <2>. QED
    BY <1>9, <2>2, <2>3 DEF s
<1>13. rest \o w = tail
  BY <1>9, <1>10, <1>11, <1>12, ConcatSimplifications
<1>. QED
  BY <1>5, <1>7, <1>8, <1>9, <1>13 DEF rest, tail, B

(* The responses.                                                          *)

\* The bytes of the n-th response
Text(asked, n) == [k \in 1..(Size(asked, n) + 1) |-> <<n, k - 1>>]

\* Of a request that was sent there is a response.
LEMMA TextIs ==
  ASSUME NEW asked \in Seq(Request), NEW n \in 1..Len(asked)
  PROVE  /\ Size(asked, n) \in Nat /\ n \in Nat
         /\ Text(asked, n) \in Seq(Byte) /\ Len(Text(asked, n)) = Size(asked, n) + 1
         /\ \A k \in 1..(Size(asked, n) + 1) : Text(asked, n)[k] = <<n, k - 1>>
<1>1. Size(asked, n) \in Nat /\ n \in Nat
  BY ElementOfSeq, BodyIs, LenProperties DEF Size
<1>2. \A k \in 1..(Size(asked, n) + 1) : <<n, k - 1>> \in Byte
  BY <1>1 DEF Byte
<1>. QED
  BY <1>1, <1>2 DEF Text

\* A beginning of a beginning is one.
LEMMA OrderedStart ==
  ASSUME NEW s \in Seq(Byte), NEW t \in Seq(Byte), NEW n, NEW asked,
         Ordered(s \o t, n, asked)
  PROVE  Ordered(s, n, asked)
<1> DEFINE u == s \o t
<1>1. /\ Len(s) \in Nat /\ Len(t) \in Nat /\ Len(u) = Len(s) + Len(t)
      /\ u \in Seq(Byte)
      /\ \A i \in 1..(Len(s) + Len(t)) : u[i] = IF i <= Len(s) THEN s[i] ELSE t[i - Len(s)]
  BY LenProperties, ConcatProperties
<1> HIDE DEF u
<1>2. \A i \in 1..Len(s) : i \in 1..Len(u) /\ u[i] = s[i]
  <2>1. \A i \in 1..Len(s) : i \in 1..(Len(s) + Len(t)) /\ i <= Len(s)
    BY <1>1
  <2>. QED
    BY <1>1, <2>1
<1>3. /\ \A i \in 1..Len(u) : u[i][1] \in 1..n /\ u[i][2] <= Size(asked, u[i][1])
      /\ u # << >> => u[1] = <<1, 0>>
      /\ \A i \in 1..(Len(u) - 1) : u[i + 1] = NextByte(u[i], asked)
  BY DEF Ordered, u
<1>4. \A i \in 1..Len(s) : s[i][1] \in 1..n /\ s[i][2] <= Size(asked, s[i][1])
  BY <1>2, <1>3
<1>5. ASSUME s # << >> PROVE s[1] = <<1, 0>>
  <2>1. 1 \in 1..Len(s) /\ u # << >>
    BY <1>1, <1>5, EmptySeq
  <2>. QED
    BY <1>2, <1>3, <2>1
<1>6. ASSUME NEW i \in 1..(Len(s) - 1) PROVE s[i + 1] = NextByte(s[i], asked)
  <2>1. i \in 1..Len(s) /\ i + 1 \in 1..Len(s) /\ i \in 1..(Len(u) - 1)
    BY <1>1
  <2>. QED
    BY <1>2, <1>3, <2>1
<1>. QED
  BY <1>4, <1>5, <1>6 DEF Ordered

\* One more request does not change the responses to the others.
LEMMA AskedMore ==
  ASSUME NEW asked \in Seq(Request), NEW q \in Request, NEW n \in 0..Len(asked),
         NEW s \in Seq(Byte)
  PROVE  /\ Ordered(s, n, asked) => Ordered(s, n, Append(asked, q))
         /\ Whole(s, n, asked) => Whole(s, n, Append(asked, q))
         /\ \A i \in 1..n : Append(asked, q)[i] = asked[i]
<1> DEFINE more == Append(asked, q)
<1>1. /\ Len(asked) \in Nat /\ \A i \in 1..Len(asked) : more[i] = asked[i]
  BY LenProperties, AppendProperties
<1> HIDE DEF more
<1>2. \A i \in 1..n : i \in 1..Len(asked)
  BY <1>1
<1>3. \A i \in 1..n : more[i] = asked[i] /\ Size(more, i) = Size(asked, i)
  BY <1>1, <1>2 DEF Size
<1>4. ASSUME Ordered(s, n, asked) PROVE Ordered(s, n, more)
  <2>1. \A i \in 1..Len(s) : s[i][1] \in 1..n /\ s[i][2] <= Size(more, s[i][1])
    BY <1>3, <1>4 DEF Ordered
  <2>2. \A i \in 1..(Len(s) - 1) : i \in 1..Len(s)
    BY LenProperties
  <2>3. \A i \in 1..(Len(s) - 1) : NextByte(s[i], more) = NextByte(s[i], asked)
    BY <1>3, <2>1, <2>2 DEF NextByte
  <2>. QED
    BY <1>4, <2>1, <2>3 DEF Ordered
<1>5. ASSUME Whole(s, n, asked) PROVE Whole(s, n, more)
  <2>1. n # 0 => n \in 1..n
    OBVIOUS
  <2>. QED
    BY <1>3, <1>4, <1>5, <2>1 DEF Whole
<1>. QED
  BY <1>3, <1>4, <1>5 DEF more

\* The next response follows the whole ones.
LEMMA WholeNext ==
  ASSUME NEW asked \in Seq(Request), NEW n \in 1..Len(asked), NEW s \in Seq(Byte),
         Whole(s, n - 1, asked)
  PROVE  s \o Text(asked, n) \in Seq(Byte) /\ Whole(s \o Text(asked, n), n, asked)
<1> DEFINE L == Len(s)
           m == Text(asked, n)
           z == Size(asked, n)
           u == s \o m
<1>1. /\ L \in Nat /\ z \in Nat /\ n \in Nat /\ \A i \in 1..L : s[i] \in Byte
      /\ m \in Seq(Byte) /\ Len(m) = z + 1 /\ \A k \in 1..(z + 1) : m[k] = <<n, k - 1>>
      /\ (s = << >> <=> L = 0)
  BY LenProperties, ElementOfSeq, TextIs, EmptySeq
<1> HIDE DEF m, L
<1>2. /\ u \in Seq(Byte) /\ Len(u) = L + (z + 1)
      /\ \A i \in 1..L : u[i] = s[i]
      /\ \A i \in (L + 1)..(L + z + 1) : u[i] = <<n, i - L - 1>>
  <2>1. /\ u \in Seq(Byte) /\ Len(u) = L + (z + 1)
        /\ \A i \in 1..(L + (z + 1)) : u[i] = IF i <= L THEN s[i] ELSE m[i - L]
    <3>1. m \in Seq(Byte) /\ Len(m) = z + 1
      BY <1>1
    <3>2. /\ u \in Seq(Byte) /\ Len(u) = Len(s) + Len(m)
          /\ \A i \in 1..(Len(s) + Len(m)) :
                u[i] = IF i <= Len(s) THEN s[i] ELSE m[i - Len(s)]
      BY <3>1, ConcatProperties
    <3> HIDE DEF u, z
    <3>. QED
      BY <3>1, <3>2 DEF L
  <2> HIDE DEF z, u
  <2>2. \A i \in 1..L : i \in 1..(L + (z + 1)) /\ i <= L
    BY <1>1
  <2>3. \A i \in (L + 1)..(L + z + 1) :
           i \in 1..(L + (z + 1)) /\ ~(i <= L) /\ i - L \in 1..(z + 1)
    BY <1>1
  <2>. QED
    BY <1>1, <2>1, <2>2, <2>3
<1> HIDE DEF u
<1>3. /\ \A i \in 1..L : s[i][1] \in 1..(n - 1) /\ s[i][2] <= Size(asked, s[i][1])
      /\ s # << >> => s[1] = <<1, 0>>
      /\ \A i \in 1..(L - 1) : s[i + 1] = NextByte(s[i], asked)
      /\ IF n - 1 = 0 THEN s = << >>
         ELSE s # << >> /\ s[L] = <<n - 1, Size(asked, n - 1)>>
  BY DEF Whole, Ordered, L
<1>4. Size(asked, n) = z
  OBVIOUS
<1> HIDE DEF z
<1>5. \A i \in 1..(L + z + 1) : i \in 1..L \/ i \in (L + 1)..(L + z + 1)
  BY <1>1
<1>6. \A i \in 1..(L + z + 1) : u[i][1] \in 1..n /\ u[i][2] <= Size(asked, u[i][1])
  <2>1. ASSUME NEW i \in 1..L
        PROVE  u[i][1] \in 1..n /\ u[i][2] <= Size(asked, u[i][1])
    <3>1. s[i][1] \in 1..(n - 1) /\ s[i][2] <= Size(asked, s[i][1]) /\ u[i] = s[i]
      BY <1>2, <1>3
    <3>2. s[i][1] \in 1..n
      BY <1>1, <3>1
    <3>. QED
      BY <3>1, <3>2
  <2>2. ASSUME NEW i \in (L + 1)..(L + z + 1)
        PROVE  u[i][1] \in 1..n /\ u[i][2] <= Size(asked, u[i][1])
    <3>1. u[i] = <<n, i - L - 1>> /\ i - L - 1 <= z
      BY <1>1, <1>2
    <3>. QED
      BY <1>1, <1>4, <3>1
  <2>. QED
    BY <1>5, <2>1, <2>2
<1>7. u[1] = <<1, 0>>
  <2>1. CASE s = << >>
    <3>1. L = 0 /\ n = 1
      BY <1>1, <1>3, <2>1
    <3>2. 1 \in (L + 1)..(L + z + 1) /\ 1 - L - 1 = 0
      BY <1>1, <3>1
    <3>. QED
      BY <1>2, <3>1, <3>2
  <2>2. CASE s # << >>
    <3>1. 1 \in 1..L
      BY <1>1, <2>2
    <3>. QED
      BY <1>2, <1>3, <2>2, <3>1
  <2>. QED
    BY <2>1, <2>2
<1>8. ASSUME NEW i \in 1..(L + z) PROVE u[i + 1] = NextByte(u[i], asked)
  <2>1. CASE i \in 1..(L - 1)
    <3>1. i \in 1..L /\ i + 1 \in 1..L
      BY <1>1, <2>1
    <3>. QED
      BY <1>2, <1>3, <2>1, <3>1
  <2>2. CASE i = L /\ L > 0
    <3>1. L \in 1..L /\ L + 1 \in (L + 1)..(L + z + 1) /\ L + 1 - L - 1 = 0
      BY <1>1, <2>2
    <3>2. u[L + 1] = <<n, 0>>
      BY <1>2, <3>1
    <3>3. u[L] = <<n - 1, Size(asked, n - 1)>> /\ n - 1 \in 1..Len(asked)
      <4>1. s # << >> /\ n - 1 # 0
        BY <1>1, <1>3, <2>2
      <4>2. n - 1 \in 1..Len(asked)
        BY <1>1, <4>1
      <4>. QED
        BY <1>2, <1>3, <3>1, <4>1, <4>2
    <3>4. Size(asked, n - 1) \in Nat
      BY <3>3, TextIs
    <3>5. NextByte(u[L], asked) = <<n - 1 + 1, 0>> /\ n - 1 + 1 = n
      BY <1>1, <3>3, <3>4 DEF NextByte
    <3>. QED
      BY <2>2, <3>2, <3>5
  <2>3. CASE i \in (L + 1)..(L + z)
    <3>1. /\ i \in (L + 1)..(L + z + 1) /\ i + 1 \in (L + 1)..(L + z + 1)
          /\ i + 1 - L - 1 = (i - L - 1) + 1 /\ i - L - 1 < z
      BY <1>1, <2>3
    <3>2. u[i] = <<n, i - L - 1>>
      BY <1>2, <3>1
    <3>3. u[i + 1] = <<n, (i - L - 1) + 1>>
      <4>1. PICK j \in (L + 1)..(L + z + 1) : j = i + 1
        BY <3>1
      <4>2. u[j] = <<n, j - L - 1>>
        BY <1>2
      <4>. QED
        BY <1>1, <3>1, <4>1, <4>2
    <3>. QED
      BY <1>4, <3>1, <3>2, <3>3 DEF NextByte
  <2>. QED
    BY <1>1, <2>1, <2>2, <2>3
<1>9. u # << >> /\ u[Len(u)] = <<n, Size(asked, n)>>
  <2>1. L + z + 1 \in (L + 1)..(L + z + 1) /\ L + z + 1 - L - 1 = z /\ L + z + 1 # 0
        /\ L + (z + 1) = L + z + 1
    BY <1>1
  <2>2. u[L + z + 1] = <<n, z>> /\ Len(u) = L + z + 1
    <3>1. PICK j \in (L + 1)..(L + z + 1) : j = L + z + 1
      BY <2>1
    <3>2. u[j] = <<n, j - L - 1>>
      BY <1>2
    <3>. QED
      BY <1>1, <1>2, <2>1, <3>1, <3>2
  <2>3. u # << >>
    BY <2>1, <2>2, EmptySeq
  <2>. QED
    BY <1>4, <2>2, <2>3
<1>10. Len(u) = L + z + 1 /\ Len(u) - 1 = L + z /\ n # 0
  BY <1>1, <1>2
<1>11. Whole(u, n, asked)
  BY <1>6, <1>7, <1>8, <1>9, <1>10 DEF Whole, Ordered
<1>. QED
  BY <1>2, <1>11 DEF u, m

\* What is a beginning of n responses is one of the next ones too.
LEMMA OrderedGrows ==
  ASSUME NEW s, NEW n \in Nat, NEW asked, Ordered(s, n, asked)
  PROVE  Ordered(s, n + 1, asked)
<1>1. \A i : i \in 1..n => i \in 1..(n + 1)
  OBVIOUS
<1>. QED
  BY <1>1 DEF Ordered

(* The steps of one session.                                               *)

\* A session as it is, with a name for each part of it
LEMMA Here ==
  ASSUME IInv, NEW c \in Clients
  PROVE  \E a \in Phases, o \in Results, b \in Seq(Token), m \in Seq(Byte), n \in Nat,
            cn \in ConnType :
            /\ Holds(a, o, b, m, n, cn)
            /\ a = at[c] /\ o = op[c] /\ b = buffer[c] /\ m = msg[c]
            /\ n = answering[c] /\ cn = conn[c]
<1>1. /\ at[c] \in Phases /\ op[c] \in Results /\ buffer[c] \in Seq(Token)
      /\ msg[c] \in Seq(Byte) /\ answering[c] \in Nat /\ conn[c] \in ConnType
  BY DEF IInv, TypeInv
<1>2. Holds(at[c], op[c], buffer[c], msg[c], answering[c], conn[c])
  BY DEF IInv, Session
<1>. QED
  BY <1>1, <1>2

\* A variable that does not change is one that changes to what it is.
LEMMA Same ==
  ASSUME TypeInv, NEW c \in Clients
  PROVE  /\ at = [at EXCEPT ![c] = at[c]] /\ op = [op EXCEPT ![c] = op[c]]
         /\ buffer = [buffer EXCEPT ![c] = buffer[c]]
         /\ msg = [msg EXCEPT ![c] = msg[c]]
         /\ answering = [answering EXCEPT ![c] = answering[c]]
         /\ conn = [conn EXCEPT ![c] = conn[c]]
  BY DEF TypeInv

\* The other sessions are as they were.
LEMMA Updated ==
  ASSUME IInv, NEW c \in Clients, NEW a \in Phases, NEW o \in Results,
         NEW b \in Seq(Token), NEW m \in Seq(Byte), NEW n \in Nat, NEW cn \in ConnType,
         Update(c, a, o, b, m, n, cn), Holds(a, o, b, m, n, cn)
  PROVE  Settled(c)
<1>1. /\ at \in [Clients -> Phases] /\ op \in [Clients -> Results]
      /\ buffer \in [Clients -> Seq(Token)] /\ msg \in [Clients -> Seq(Byte)]
      /\ answering \in [Clients -> Nat] /\ conn \in [Clients -> ConnType]
  BY DEF IInv, TypeInv
<1>2. /\ at' \in [Clients -> Phases] /\ op' \in [Clients -> Results]
      /\ buffer' \in [Clients -> Seq(Token)] /\ msg' \in [Clients -> Seq(Byte)]
      /\ answering' \in [Clients -> Nat] /\ conn' \in [Clients -> ConnType]
  BY <1>1 DEF Update
<1>3. /\ at'[c] = a /\ op'[c] = o /\ buffer'[c] = b /\ msg'[c] = m
      /\ answering'[c] = n /\ conn'[c] = cn
  BY <1>1 DEF Update
<1>4. \A e \in Clients \ {c} :
         /\ at'[e] = at[e] /\ op'[e] = op[e] /\ buffer'[e] = buffer[e]
         /\ msg'[e] = msg[e] /\ answering'[e] = answering[e] /\ conn'[e] = conn[e]
  BY <1>1 DEF Update
<1>5. ASSUME NEW e \in Clients PROVE Session(e)'
  <2>1. CASE e = c
    BY <1>3, <2>1 DEF Session
  <2>2. CASE e # c
    <3>1. Holds(at[e], op[e], buffer[e], msg[e], answering[e], conn[e])
      BY DEF IInv, Session
    <3>. QED
      BY <1>4, <2>2, <3>1 DEF Session
  <2>. QED
    BY <2>1, <2>2
<1>. QED
  BY <1>2, <1>4, <1>5 DEF Settled

\* The listener does not move, and who waits has no session still.
LEMMA ListenerKept ==
  ASSUME TypeInv, ListenerInv, UNCHANGED <<acc, queue, socket>>,
         \A e \in Clients : Waiting(e) => Waiting(e)'
  PROVE  ListenerInv'
<1>1. \A i \in DOMAIN queue : queue[i] \in Clients
  BY LenProperties, ElementOfSeq DEF TypeInv
<1>2. socket # None => socket \in Clients
  BY DEF TypeInv
<1>. QED
  BY <1>1, <1>2 DEF ListenerInv

\* A step of a session of which the listener takes no notice
LEMMA OwnStep ==
  ASSUME IInv, UNCHANGED <<acc, queue, socket>>,
         NEW c \in Clients, NEW a \in Phases, NEW o \in Results,
         NEW b \in Seq(Token), NEW m \in Seq(Byte), NEW n \in Nat, NEW cn \in ConnType,
         Update(c, a, o, b, m, n, cn), Holds(a, o, b, m, n, cn),
         Waiting(c) => a = "none" /\ cn.peer # "none"
  PROVE  IInv'
<1>1. Settled(c)
  BY Updated
<1>2. at'[c] = a /\ conn'[c] = cn
  BY DEF Update, IInv, TypeInv
<1>3. \A e \in Clients : Waiting(e) => Waiting(e)'
  BY <1>1, <1>2 DEF Settled, Waiting
<1>4. ListenerInv'
  BY <1>3, ListenerKept DEF IInv
<1>5. TypeInv'
  BY <1>1 DEF Settled, IInv, TypeInv
<1>. QED
  BY <1>1, <1>4, <1>5 DEF Settled, IInv

\* A handshake or the shutdown is complete, an operation fails: nothing is read and
\* nothing written.
LEMMA CompletesStep ==
  ASSUME IInv, NEW c \in Clients,
         HandshakeDone(c) \/ ShutdownDone(c) \/ Breaks(c) \/ Timeout(c) \/ FileFails(c)
  PROVE  IInv'
<1>1. PICK a \in Phases, o \in Results, b \in Seq(Token), m \in Seq(Byte), n \in Nat,
           cn \in ConnType :
         /\ Holds(a, o, b, m, n, cn)
         /\ a = at[c] /\ o = op[c] /\ b = buffer[c] /\ m = msg[c]
         /\ n = answering[c] /\ cn = conn[c]
  BY Here
<1>2. /\ o = "waiting"
      /\ UNCHANGED <<acc, queue, socket, at, buffer, msg, answering, conn>>
  BY <1>1 DEF HandshakeDone, ShutdownDone, Breaks, Timeout, FileFails, Waits, listener
<1>3. PICK how \in {"ok", "error"} :
         /\ op' = [op EXCEPT ![c] = how]
         /\ how = "ok" => a \in {"handshake", "shutdown"}
  BY <1>1 DEF HandshakeDone, ShutdownDone, Breaks, Timeout, FileFails, Waits, Completes
<1>4. Holds(a, how, b, m, n, cn)
  <2>1. Answered(a, how, n) = Answered(a, o, n)
    BY <1>2, <1>3 DEF Answered
  <2>. QED
    BY <1>1, <1>2, <1>3, <2>1 DEF Holds
<1>5. Update(c, a, how, b, m, n, cn)
  BY <1>1, <1>2, <1>3, Same DEF Update, IInv
<1>6. how \in Results /\ (Waiting(c) => a = "none" /\ cn.peer # "none")
  BY <1>1 DEF Results, Waiting
<1>. QED
  BY <1>2, <1>4, <1>5, <1>6, OwnStep

\* The end of the stream is read.
LEMMA EndStep ==
  ASSUME IInv, NEW c \in Clients, ReadEnds(c)
  PROVE  IInv'
<1>1. PICK a \in Phases, o \in Results, b \in Seq(Token), m \in Seq(Byte), n \in Nat,
           cn \in ConnType :
         /\ Holds(a, o, b, m, n, cn)
         /\ a = at[c] /\ o = op[c] /\ b = buffer[c] /\ m = msg[c]
         /\ n = answering[c] /\ cn = conn[c]
  BY Here
<1>2. /\ a = "read" /\ o = "waiting" /\ cn.wire = << >> /\ cn.peer = "fin"
      /\ UNCHANGED <<acc, queue, socket, at, buffer, msg, answering, conn>>
  BY <1>1 DEF ReadEnds, Waits, listener
<1>3. PICK how \in {"eof", "error"} :
        op' = [op EXCEPT ![c] = how] /\ (how = "eof" => b = << >>)
  BY <1>1 DEF ReadEnds, Completes
<1>4. Holds(a, how, b, m, n, cn)
  <2>1. Answered(a, how, n) = Answered(a, o, n)
    BY <1>2, <1>3 DEF Answered
  <2>. QED
    BY <1>1, <1>2, <1>3, <2>1 DEF Holds
<1>5. Update(c, a, how, b, m, n, cn)
  BY <1>1, <1>2, <1>3, Same DEF Update, IInv
<1>6. how \in Results /\ ~Waiting(c)
  BY <1>1, <1>2 DEF Results, Waiting
<1>. QED
  BY <1>2, <1>4, <1>5, <1>6, OwnStep

\* What one read takes off the wire goes behind what is in the buffer.
LEMMA ReadStep ==
  ASSUME IInv, NEW c \in Clients, ReadSome(c)
  PROVE  IInv'
<1>1. PICK a \in Phases, o \in Results, b \in Seq(Token), m \in Seq(Byte), n \in Nat,
           cn \in ConnType :
         /\ Holds(a, o, b, m, n, cn)
         /\ a = at[c] /\ o = op[c] /\ b = buffer[c] /\ m = msg[c]
         /\ n = answering[c] /\ cn = conn[c]
  BY Here
<1>2. /\ a = "read" /\ o = "waiting"
      /\ UNCHANGED <<acc, queue, socket, at, op, msg, answering>>
  BY <1>1 DEF ReadSome, Waits, listener
<1>3. PICK k \in 1..Len(cn.wire) :
        /\ buffer' = [buffer EXCEPT ![c] = b \o SubSeq(cn.wire, 1, k)]
        /\ conn' = [conn EXCEPT ![c].wire = SubSeq(@, k + 1, Len(@))]
  BY <1>1 DEF ReadSome, IInv, TypeInv
<1> DEFINE u == b \o SubSeq(cn.wire, 1, k)
           w == SubSeq(cn.wire, k + 1, Len(cn.wire))
           cm == [cn EXCEPT !.wire = w]
<1>4. u \in Seq(Token) /\ w \in Seq(Token) /\ u \o w = b \o cn.wire
  <2>1. cn.wire \in Seq(Token) /\ k \in 0..Len(cn.wire)
    BY ConnParts
  <2>2. w \in Seq(Token)
    BY <2>1, Parts
  <2>. QED
    BY <2>1, <2>2, Moved
<1>5. conn' = [conn EXCEPT ![c] = cm]
  BY <1>1, <1>3 DEF IInv, TypeInv
<1>6. buffer' = [buffer EXCEPT ![c] = u]
  BY <1>3
<1> HIDE DEF u, w
<1>7. /\ cm \in ConnType /\ cm.wire = w /\ cm.asked = cn.asked /\ cm.out = cn.out
      /\ cm.peer = cn.peer
  BY <1>4 DEF ConnType
<1> HIDE DEF cm
<1>8. Holds(a, o, u, m, n, cm)
  BY <1>1, <1>2, <1>4, <1>7 DEF Holds
<1>9. Update(c, a, o, u, m, n, cm)
  BY <1>1, <1>2, <1>5, <1>6, Same DEF Update, IInv
<1>10. ~Waiting(c)
  BY <1>1, <1>2 DEF Waiting
<1>. QED
  BY <1>2, <1>4, <1>7, <1>8, <1>9, <1>10, OwnStep

\* The parser takes the next request.
LEMMA RequestStep ==
  ASSUME IInv, NEW c \in Clients, RequestRead(c)
  PROVE  IInv'
<1>1. PICK a \in Phases, o \in Results, b \in Seq(Token), m \in Seq(Byte), n \in Nat,
           cn \in ConnType :
         /\ Holds(a, o, b, m, n, cn)
         /\ a = at[c] /\ o = op[c] /\ b = buffer[c] /\ m = msg[c]
         /\ n = answering[c] /\ cn = conn[c]
  BY Here
<1>2. /\ a = "read" /\ o = "waiting"
      /\ UNCHANGED <<acc, queue, socket, at, msg, conn>>
      /\ op' = [op EXCEPT ![c] = "ok"]
  BY <1>1 DEF RequestRead, Waits, Completes, listener
<1> DEFINE u == SubSeq(b, 3, Len(b))
<1>3. /\ Len(b) >= 2 /\ b[1] = <<n + 1, "first">> /\ n + 1 <= Len(cn.asked)
      /\ u \in Seq(Token) /\ Unread(u \o cn.wire, n + 1, Len(cn.asked))
  <2>1. PICK k : <<k, "rest">> \in ToSet(b)
    BY <1>1 DEF RequestRead, HasRequest
  <2>2. cn.wire \in Seq(Token) /\ Len(cn.asked) \in Nat
    BY ConnParts
  <2>3. Unread(b \o cn.wire, n, Len(cn.asked))
    BY <1>1 DEF Holds
  <2>. QED
    BY <2>1, <2>2, <2>3, UnreadBuffer
<1>4. /\ answering' = [answering EXCEPT ![c] = n + 1]
      /\ buffer' = [buffer EXCEPT ![c] = u]
  <2>1. Head(b) = b[1] /\ Head(b)[1] = n + 1
    <3>1. b # << >>
      BY <1>3, EmptySeq
    <3>. QED
      BY <1>3, <3>1, HeadTailProperties
  <2>. QED
    BY <1>1, <2>1 DEF RequestRead, IInv, TypeInv
<1> HIDE DEF u
<1>5. Holds(a, "ok", u, m, n + 1, cn)
  <2>1. \A i \in 1..(n + 1 - 1) : cn.asked[i].keep
    <3>1. \A i \in 1..(n + 1 - 1) : i \in 1..(n - 1) \/ (i = n /\ n > 0)
      OBVIOUS
    <3>. QED
      BY <1>1, <1>2, <3>1 DEF Holds
  <2>2. /\ Stream(a, m, cn.out) = cn.out /\ Answered(a, "ok", n + 1) = n
        /\ Answered(a, o, n) = n /\ n + 1 > 0
    BY <1>2 DEF Stream, Answered
  <2>3. Whole(cn.out, n, cn.asked) /\ cn.peer # "none"
    BY <1>1, <1>2, <2>2 DEF Holds
  <2>4. Ordered(cn.out, n + 1, cn.asked)
    BY <2>3, OrderedGrows DEF Whole
  <2>. QED
    BY <1>2, <1>3, <2>1, <2>2, <2>3, <2>4 DEF Holds
<1>6. Update(c, a, "ok", u, m, n + 1, cn)
  BY <1>1, <1>2, <1>4, Same DEF Update, IInv
<1>7. ~Waiting(c) /\ "ok" \in Results /\ n + 1 \in Nat
  BY <1>1, <1>2 DEF Waiting, Results
<1>. QED
  BY <1>2, <1>3, <1>5, <1>6, <1>7, OwnStep

\* A part of the message is sent.
LEMMA SendStep ==
  ASSUME IInv, NEW c \in Clients, SendSome(c)
  PROVE  IInv'
<1>1. PICK a \in Phases, o \in Results, b \in Seq(Token), m \in Seq(Byte), n \in Nat,
           cn \in ConnType :
         /\ Holds(a, o, b, m, n, cn)
         /\ a = at[c] /\ o = op[c] /\ b = buffer[c] /\ m = msg[c]
         /\ n = answering[c] /\ cn = conn[c]
  BY Here
<1>2. /\ a = "write" /\ o = "waiting"
      /\ UNCHANGED <<acc, queue, socket, at, buffer, answering>>
  BY <1>1 DEF SendSome, Waits, listener
<1>3. CanSend(c) \in 0..Len(m)
  <2>1. Len(m) \in Nat /\ (m # << >> => Len(m) >= 1)
    BY LenProperties, EmptySeq
  <2>. QED
    BY <1>1, <2>1 DEF CanSend
<1>4. PICK k \in 1..CanSend(c) :
        /\ conn' = [conn EXCEPT ![c].out = @ \o SubSeq(msg[c], 1, k)]
        /\ msg' = [msg EXCEPT ![c] = SubSeq(@, k + 1, Len(@))]
        /\ op' = [op EXCEPT ![c] = IF k = Len(msg[c]) THEN "ok" ELSE @]
  BY DEF SendSome
<1> DEFINE v == SubSeq(m, 1, k)
           u == SubSeq(m, k + 1, Len(m))
           s == cn.out \o v
           cm == [cn EXCEPT !.out = s]
<1>5. k \in 1..Len(m) /\ Len(m) \in Nat
  BY <1>3, LenProperties
<1>6. /\ v \in Seq(Byte) /\ u \in Seq(Byte) /\ v \o u = m /\ Len(u) = Len(m) - k
      /\ cn.out \in Seq(Byte)
  <2>1. k \in 0..Len(m)
    BY <1>5
  <2>. QED
    BY <2>1, Parts, ConnParts
<1>7. PICK how \in {"ok", "waiting"} :
         op' = [op EXCEPT ![c] = how] /\ (how = "ok" => u = << >>)
  <2>1. CASE k = Len(m)
    <3>1. u = << >>
      BY <1>5, <1>6, <2>1, EmptySeq
    <3>. QED
      BY <1>1, <1>4, <2>1, <3>1
  <2>2. CASE k # Len(m)
    <3>1. op' = [op EXCEPT ![c] = "waiting"]
      BY <1>1, <1>2, <1>4, <2>2 DEF IInv, TypeInv
    <3>. QED
      BY <3>1
  <2>. QED
    BY <2>1, <2>2
<1>8. conn' = [conn EXCEPT ![c] = cm] /\ msg' = [msg EXCEPT ![c] = u]
  BY <1>1, <1>4 DEF IInv, TypeInv
<1>9. s \in Seq(Byte) /\ s \o u = cn.out \o m
  <2>1. k \in 0..Len(m)
    BY <1>5
  <2>. QED
    BY <1>6, <2>1, Moved
<1> HIDE DEF s, u, v
<1>10. /\ cm \in ConnType /\ cm.out = s /\ cm.asked = cn.asked /\ cm.wire = cn.wire
       /\ cm.peer = cn.peer
  BY <1>9 DEF ConnType
<1> HIDE DEF cm
<1>11. Holds(a, how, b, u, n, cm)
  <2>1. /\ Stream(a, m, cn.out) = cn.out \o m /\ Stream(a, u, s) = s \o u
        /\ Answered(a, how, n) = n /\ Answered(a, o, n) = n
    BY <1>2 DEF Stream, Answered
  <2>2. Whole(s \o u, n, cn.asked)
    BY <1>1, <1>2, <1>9, <2>1 DEF Holds
  <2>3. Ordered(s, n, cn.asked)
    BY <1>6, <1>9, <2>2, OrderedStart DEF Whole
  <2>. QED
    BY <1>1, <1>2, <1>7, <1>10, <2>1, <2>2, <2>3 DEF Holds
<1>12. Update(c, a, how, b, u, n, cm)
  BY <1>1, <1>2, <1>7, <1>8, Same DEF Update, IInv
<1>13. ~Waiting(c) /\ how \in Results
  BY <1>1, <1>2 DEF Waiting, Results
<1>. QED
  BY <1>2, <1>6, <1>10, <1>11, <1>12, <1>13, OwnStep

\* The handlers that only start the next operation
LEMMA SetupStep ==
  ASSUME IInv, NEW c \in Clients, on_run(c) \/ on_handshake(c) \/ on_shutdown(c)
  PROVE  IInv'
<1>1. PICK a \in Phases, o \in Results, b \in Seq(Token), m \in Seq(Byte), n \in Nat,
           cn \in ConnType :
         /\ Holds(a, o, b, m, n, cn)
         /\ a = at[c] /\ o = op[c] /\ b = buffer[c] /\ m = msg[c]
         /\ n = answering[c] /\ cn = conn[c]
  BY Here
<1>2. /\ a \in {"run", "handshake", "shutdown"}
      /\ UNCHANGED <<acc, queue, socket, buffer, msg, answering, conn>>
  BY <1>1 DEF on_run, on_handshake, on_shutdown, On, listener
<1>3. PICK p \in {"handshake", "read", "gone"} :
        /\ at' = [at EXCEPT ![c] = p]
        /\ op' = [op EXCEPT ![c] = IF p = "gone" THEN "none" ELSE "waiting"]
        /\ a = "shutdown" => p = "gone"
  BY <1>1 DEF on_run, on_handshake, on_shutdown, On, Starts
<1>4. PICK r \in {"none", "waiting"} : r = IF p = "gone" THEN "none" ELSE "waiting"
  OBVIOUS
<1>5. Holds(p, r, b, m, n, cn)
  <2>1. CASE p = "gone"
    BY <1>1, <1>2, <1>4, <2>1 DEF Holds
  <2>2. CASE p # "gone"
    <3>1. /\ a # "shutdown" /\ n = 0 /\ Answered(p, r, n) = Answered(a, o, n)
          /\ Stream(p, m, cn.out) = Stream(a, m, cn.out)
      BY <1>1, <1>2, <1>3, <1>4, <2>2 DEF Answered, Stream, Holds
    <3>. QED
      BY <1>1, <1>2, <1>3, <1>4, <2>2, <3>1 DEF Holds
  <2>. QED
    BY <2>1, <2>2
<1>6. Update(c, p, r, b, m, n, cn)
  BY <1>1, <1>2, <1>3, <1>4, Same DEF Update, IInv
<1>7. ~Waiting(c) /\ p \in Phases /\ r \in Results
  BY <1>1, <1>2, <1>3, <1>4 DEF Waiting, Phases, Results
<1>. QED
  BY <1>2, <1>5, <1>6, <1>7, OwnStep

\* on_read makes the response, closes the connection or drops it.
LEMMA OnReadStep ==
  ASSUME IInv, NEW c \in Clients, on_read(c)
  PROVE  IInv'
<1>1. PICK a \in Phases, o \in Results, b \in Seq(Token), m \in Seq(Byte), n \in Nat,
           cn \in ConnType :
         /\ Holds(a, o, b, m, n, cn)
         /\ a = at[c] /\ o = op[c] /\ b = buffer[c] /\ m = msg[c]
         /\ n = answering[c] /\ cn = conn[c]
  BY Here
<1>2. a = "read" /\ UNCHANGED <<acc, queue, socket, buffer, answering, conn>>
  BY <1>1 DEF on_read, On, listener
<1>3. n <= Len(cn.asked) /\ cn.asked \in Seq(Request) /\ cn.out \in Seq(Byte)
      /\ Len(cn.asked) \in Nat /\ cn.peer # "none"
  BY <1>1, <1>2, ConnParts DEF Holds, Unread
<1>4. PICK p \in Phases, r \in Results, u \in Seq(Byte) :
        /\ at' = [at EXCEPT ![c] = p] /\ op' = [op EXCEPT ![c] = r]
        /\ msg' = [msg EXCEPT ![c] = u]
        /\ Holds(p, r, b, u, n, cn)
  <2>1. CASE o = "ok"
    <3>1. n \in 1..Len(cn.asked)
      BY <1>1, <1>2, <1>3, <2>1 DEF Holds
    <3>2. Message(c, n) = Text(cn.asked, n)
      BY <1>1 DEF Message, Text, Answer, Size
    <3>3. Text(cn.asked, n) \in Seq(Byte)
      BY <1>3, <3>1, TextIs
    <3>4. /\ at' = [at EXCEPT ![c] = "write"] /\ op' = [op EXCEPT ![c] = "waiting"]
          /\ msg' = [msg EXCEPT ![c] = Text(cn.asked, n)]
      BY <1>1, <2>1, <3>2 DEF on_read, Starts
    <3>5. Whole(cn.out \o Text(cn.asked, n), n, cn.asked)
      <4>1. Whole(cn.out, n - 1, cn.asked)
        BY <1>1, <1>2, <2>1 DEF Holds, Stream, Answered
      <4>. QED
        BY <1>3, <3>1, <4>1, WholeNext
    <3> DEFINE u == Text(cn.asked, n)
    <3> HIDE DEF u
    <3>6. Holds("write", "waiting", b, u, n, cn)
      <4>1. Whole(Stream("write", u, cn.out), Answered("write", "waiting", n), cn.asked)
        BY <3>5 DEF Stream, Answered, u
      <4>. QED
        BY <1>1, <1>2, <1>3, <3>1, <4>1 DEF Holds
    <3>7. u \in Seq(Byte) /\ msg' = [msg EXCEPT ![c] = u]
      BY <3>3, <3>4 DEF u
    <3>. QED
      BY <3>4, <3>6, <3>7 DEF Phases, Results
  <2>2. CASE o = "eof"
    <3>1. /\ at' = [at EXCEPT ![c] = "shutdown"] /\ op' = [op EXCEPT ![c] = "waiting"]
          /\ msg' = [msg EXCEPT ![c] = m]
      BY <1>1, <2>2, Same DEF on_read, Starts, IInv
    <3>2. Holds("shutdown", "waiting", b, m, n, cn)
      BY <1>1, <1>2, <1>3, <2>2 DEF Holds, Stream, Answered
    <3>. QED
      BY <3>1, <3>2 DEF Phases, Results
  <2>3. CASE o = "error"
    <3>1. /\ at' = [at EXCEPT ![c] = "gone"] /\ op' = [op EXCEPT ![c] = "none"]
          /\ msg' = [msg EXCEPT ![c] = m]
      BY <1>1, <2>3, Same DEF on_read, Starts, IInv
    <3>2. Holds("gone", "none", b, m, n, cn)
      BY <1>1, <1>2, <1>3, <2>3 DEF Holds
    <3>. QED
      BY <3>1, <3>2 DEF Phases, Results
  <2>. QED
    BY <1>1, <2>1, <2>2, <2>3 DEF on_read
<1>5. Update(c, p, r, b, u, n, cn)
  BY <1>1, <1>2, <1>4, Same DEF Update, IInv
<1>6. ~Waiting(c)
  BY <1>1, <1>2 DEF Waiting
<1>. QED
  BY <1>2, <1>4, <1>5, <1>6, OwnStep

\* A response keeps the connection if its request asks for that.
LEMMA KeepIs ==
  ASSUME NEW q \in Request
  PROVE  handle_request(q).keep = q.keep
BY DEF handle_request, Error, Response

\* on_write reads the next request behind a response that keeps the connection.
LEMMA OnWriteStep ==
  ASSUME IInv, NEW c \in Clients, on_write(c)
  PROVE  IInv'
<1>1. PICK a \in Phases, o \in Results, b \in Seq(Token), m \in Seq(Byte), n \in Nat,
           cn \in ConnType :
         /\ Holds(a, o, b, m, n, cn)
         /\ a = at[c] /\ o = op[c] /\ b = buffer[c] /\ m = msg[c]
         /\ n = answering[c] /\ cn = conn[c]
  BY Here
<1>2. /\ a = "write" /\ o \in {"ok", "error"} /\ cn.peer # "none"
      /\ UNCHANGED <<acc, queue, socket, buffer, msg, answering, conn>>
  BY <1>1 DEF on_write, On, listener, Holds
<1>3. n \in 1..Len(cn.asked) /\ cn.asked[n] \in Request
  <2>1. n <= Len(cn.asked) /\ n > 0
    BY <1>1, <1>2 DEF Holds, Unread
  <2>2. n \in 1..Len(cn.asked)
    BY <2>1, ConnParts
  <2>. QED
    BY <2>2, ConnParts
<1>4. Answer(c, n).keep = cn.asked[n].keep
  BY <1>1, <1>3, KeepIs DEF Answer
<1>5. PICK p \in {"gone", "read", "shutdown"}, r \in {"none", "waiting"} :
        /\ at' = [at EXCEPT ![c] = p] /\ op' = [op EXCEPT ![c] = r]
        /\ p # "gone" => o = "ok" /\ r = "waiting"
        /\ p = "gone" => r = "none"
        /\ p = "read" => cn.asked[n].keep
  <2>1. CASE o = "error"
    BY <1>1, <2>1 DEF on_write, Starts
  <2>2. CASE o = "ok" /\ cn.asked[n].keep
    BY <1>1, <1>4, <2>2 DEF on_write, Starts
  <2>3. CASE o = "ok" /\ ~cn.asked[n].keep
    BY <1>1, <1>4, <2>3 DEF on_write, Starts
  <2>. QED
    BY <1>2, <2>1, <2>2, <2>3
<1>6. Holds(p, r, b, m, n, cn)
  <2>1. CASE p = "gone"
    BY <1>1, <1>2, <1>5, <2>1 DEF Holds
  <2>2. CASE p # "gone"
    <3>1. cn.out \o m = cn.out
      <4>1. m = << >>
        BY <1>1, <1>2, <1>5, <2>2 DEF Holds
      <4>. QED
        BY <4>1, ConnParts, ConcatEmptySeq
    <3>2. /\ Stream(a, m, cn.out) = cn.out /\ Stream(p, m, cn.out) = cn.out
          /\ Answered(a, o, n) = n /\ Answered(p, r, n) = n
      BY <1>2, <1>5, <2>2, <3>1 DEF Stream, Answered
    <3>. QED
      BY <1>1, <1>2, <1>3, <1>5, <2>2, <3>2 DEF Holds
  <2>. QED
    BY <2>1, <2>2
<1>7. Update(c, p, r, b, m, n, cn)
  BY <1>1, <1>2, <1>5, Same DEF Update, IInv
<1>8. ~Waiting(c) /\ p \in Phases /\ r \in Results
  BY <1>1, <1>2, <1>5 DEF Waiting, Phases, Results
<1>. QED
  BY <1>2, <1>6, <1>7, <1>8, OwnStep

(* The clients.                                                            *)

\* What a client does leaves its session as it has to be.
LEMMA ClientEffect ==
  ASSUME IInv, NEW c \in Clients, Hello(c) \/ SendRequest(c) \/ Leave(c)
  PROVE  \E cm \in ConnType :
            /\ conn' = [conn EXCEPT ![c] = cm]
            /\ cm.peer # "none"
            /\ Holds(at[c], op[c], buffer[c], msg[c], answering[c], cm)
<1>1. PICK a \in Phases, o \in Results, b \in Seq(Token), m \in Seq(Byte), n \in Nat,
           cn \in ConnType :
         /\ Holds(a, o, b, m, n, cn)
         /\ a = at[c] /\ o = op[c] /\ b = buffer[c] /\ m = msg[c]
         /\ n = answering[c] /\ cn = conn[c]
  BY Here
<1>2. /\ cn.asked \in Seq(Request) /\ cn.wire \in Seq(Token) /\ cn.out \in Seq(Byte)
      /\ Len(cn.asked) \in Nat
      /\ cn.peer \in {"up", "fin"}
  BY <1>1, ConnParts DEF Hello, SendRequest, Leave
<1>3. CASE Hello(c)
  <2> DEFINE cm == [cn EXCEPT !.hello = TRUE]
  <2>1. conn' = [conn EXCEPT ![c] = cm]
    BY <1>1, <1>3 DEF Hello, IInv, TypeInv
  <2>2. /\ cm \in ConnType /\ cm.wire = cn.wire /\ cm.asked = cn.asked /\ cm.out = cn.out
        /\ cm.peer = cn.peer
    BY DEF ConnType
  <2> HIDE DEF cm
  <2>3. Holds(a, o, b, m, n, cm)
    BY <1>1, <2>2 DEF Holds
  <2>. QED
    BY <1>1, <1>2, <2>1, <2>2, <2>3
<1>4. CASE Leave(c)
  <2>1. PICK p \in {"fin", "reset"} : conn' = [conn EXCEPT ![c].peer = p]
    BY <1>4 DEF Leave
  <2> DEFINE cm == [cn EXCEPT !.peer = p]
  <2>2. conn' = [conn EXCEPT ![c] = cm]
    BY <1>1, <2>1 DEF IInv, TypeInv
  <2>3. /\ cm \in ConnType /\ cm.wire = cn.wire /\ cm.asked = cn.asked /\ cm.out = cn.out
        /\ cm.peer = p
    BY DEF ConnType
  <2> HIDE DEF cm
  <2>4. Holds(a, o, b, m, n, cm)
    BY <1>1, <2>1, <2>3 DEF Holds
  <2>. QED
    BY <1>1, <2>1, <2>2, <2>3, <2>4
<1>5. CASE SendRequest(c)
  <2> DEFINE N == Len(cn.asked)
             s == b \o cn.wire
             half == <<N, "first">> \in ToSet(s) /\ <<N, "rest">> \notin ToSet(s)
  <2>1. /\ cn.peer = "up" /\ s \in Seq(Token) /\ Unread(s, n, N) /\ n <= N /\ n \in 0..N
        /\ N \in Nat
    <3>1. cn.peer = "up" /\ s \in Seq(Token) /\ N \in Nat
      BY <1>1, <1>2, <1>5, ConcatProperties DEF SendRequest
    <3>2. Unread(s, n, N)
      BY <1>1 DEF Holds
    <3> HIDE DEF s, N
    <3>3. n <= N
      BY <3>2 DEF Unread
    <3>. QED
      BY <3>1, <3>2, <3>3
  <2>2. PICK t \in Token, M \in Nat, more \in Seq(Request) :
          /\ t[1] = M /\ N <= M /\ M = Len(more)
          /\ s = << >> => t = <<n + 1, "first">>
          /\ s # << >> => t = NextToken(s[Len(s)])
          /\ more = cn.asked \/ \E q \in Request : more = Append(cn.asked, q)
          /\ conn' = [conn EXCEPT ![c] =
                        [cn EXCEPT !.asked = more, !.wire = Append(cn.wire, t)]]
    <3>1. ToSet(conn[c].wire \o buffer[c]) = ToSet(s)
      BY <1>1, <1>2, BothOrders
    <3>2. IF half THEN s # << >> /\ NextToken(s[Len(s)]) = <<N, "rest">>
          ELSE IF s = << >> THEN N = n ELSE NextToken(s[Len(s)]) = <<N + 1, "first">>
      <4> HIDE DEF s, N
      <4>. QED
        BY <2>1, UnreadHalf
    <3> HIDE DEF s
    <3>3. CASE half
      <4>1. conn' = [conn EXCEPT ![c].wire = Append(@, <<N, "rest">>)]
        BY <1>1, <1>5, <3>1, <3>3 DEF SendRequest
      <4>2. conn' = [conn EXCEPT ![c] = [cn EXCEPT !.asked = cn.asked,
                                            !.wire = Append(cn.wire, <<N, "rest">>)]]
        BY <1>1, <4>1 DEF IInv, TypeInv, ConnType
      <4>3. <<N, "rest">> \in Token /\ <<N, "rest">>[1] = N /\ N <= N
        BY <2>1 DEF Token
      <4>. QED
        BY <1>2, <2>1, <3>2, <3>3, <4>2, <4>3
    <3>4. CASE ~half
      <4>1. PICK q \in Requests :
              conn' = [conn EXCEPT ![c].asked = Append(@, q),
                                   ![c].wire = Append(@, <<N + 1, "first">>)]
        BY <1>1, <1>5, <3>1, <3>4 DEF SendRequest
      <4>2. q \in Request
        BY RequestAssumption
      <4> DEFINE more == Append(cn.asked, q)
                 t == <<N + 1, "first">>
      <4>3. conn' = [conn EXCEPT ![c] = [cn EXCEPT !.asked = more,
                                            !.wire = Append(cn.wire, t)]]
        BY <1>1, <4>1 DEF IInv, TypeInv, ConnType
      <4>4. t \in Token /\ t[1] = N + 1 /\ N <= N + 1 /\ N + 1 \in Nat
        BY <2>1 DEF Token
      <4>5. more \in Seq(Request) /\ Len(more) = N + 1
        BY <1>2, <4>2, AppendProperties
      <4>6. /\ s = << >> => t = <<n + 1, "first">>
            /\ s # << >> => t = NextToken(s[Len(s)])
        BY <3>2, <3>4
      <4>7. \E r \in Request : more = Append(cn.asked, r)
        BY <4>2
      <4> HIDE DEF more, t
      <4>. QED
        BY <4>3, <4>4, <4>5, <4>6, <4>7
    <3>. QED
      BY <3>3, <3>4
  <2> DEFINE w == Append(cn.wire, t)
             cm == [cn EXCEPT !.asked = more, !.wire = w]
  <2>3. /\ Append(s, t) \in Seq(Token) /\ Unread(Append(s, t), n, M)
    <3> HIDE DEF s, N
    <3>. QED
      BY <2>1, <2>2, UnreadMore
  <2>4. w \in Seq(Token) /\ b \o w = Append(s, t)
    <3>1. w \in Seq(Token) /\ w = cn.wire \o <<t>> /\ <<t>> \in Seq(Token)
      BY <1>2, AppendProperties, AppendIsConcat
    <3>2. Append(s, t) = s \o <<t>>
      <4> HIDE DEF s
      <4>. QED
        BY <2>1, AppendIsConcat
    <3>3. (b \o cn.wire) \o <<t>> = b \o (cn.wire \o <<t>>)
      <4> DEFINE e == <<t>>
                 x == cn.wire
      <4>1. e \in Seq(Token) /\ x \in Seq(Token)
        BY <1>2, <3>1
      <4> HIDE DEF e, x
      <4>2. (b \o x) \o e = b \o (x \o e)
        BY <4>1, Reassociate
      <4>. QED
        BY <4>2 DEF e, x
    <3>. QED
      BY <3>1, <3>2, <3>3
  <2>5. conn' = [conn EXCEPT ![c] = cm]
    BY <2>2
  <2> HIDE DEF w, s
  <2>6. /\ cm \in ConnType /\ cm.wire = w /\ cm.asked = more /\ cm.out = cn.out
        /\ cm.peer = "up"
    BY <2>1, <2>4 DEF ConnType
  <2>7. /\ \A k \in 0..n : \A x \in Seq(Byte) :
              /\ Ordered(x, k, cn.asked) => Ordered(x, k, more)
              /\ Whole(x, k, cn.asked) => Whole(x, k, more)
        /\ \A i \in 1..n : more[i] = cn.asked[i]
    <3>1. CASE more = cn.asked
      BY <3>1
    <3>2. ASSUME NEW q \in Request, more = Append(cn.asked, q) PROVE <2>7
      <4>1. \A k \in 0..n : k \in 0..Len(cn.asked)
        BY <2>1
      <4>2. n \in 0..Len(cn.asked)
        BY <2>1
      <4>. QED
        BY <1>2, <3>2, <4>1, <4>2, AskedMore
    <3>. QED
      BY <2>2, <3>1, <3>2
  <2> HIDE DEF cm
  <2>8. Holds(a, o, b, m, n, cm)
    <3>1. Unread(b \o cm.wire, n, Len(cm.asked))
      BY <2>2, <2>3, <2>4, <2>6
    <3>2. \A i \in 1..(n - 1) : cm.asked[i].keep
      BY <1>1, <2>6, <2>7 DEF Holds
    <3>3. ASSUME a = "read", o # "ok", n > 0 PROVE cm.asked[n].keep
      BY <1>1, <2>6, <2>7, <3>3 DEF Holds
    <3>4. ASSUME a # "gone"
          PROVE  Whole(Stream(a, m, cm.out), Answered(a, o, n), cm.asked)
      <4>1. Whole(Stream(a, m, cn.out), Answered(a, o, n), cn.asked)
        BY <1>1, <3>4 DEF Holds
      <4>2. Answered(a, o, n) \in 0..n
        BY <1>1 DEF Holds, Answered
      <4>3. Stream(a, m, cn.out) \in Seq(Byte)
        BY <1>2, ConcatProperties DEF Stream
      <4>. QED
        BY <2>6, <2>7, <4>1, <4>2, <4>3
    <3>5. Ordered(cm.out, n, cm.asked)
      <4>1. Ordered(cn.out, n, cn.asked) /\ n \in 0..n
        BY <1>1 DEF Holds
      <4>. QED
        BY <1>2, <2>6, <2>7, <4>1
    <3>6. o # "eof"
      BY <1>1, <2>1 DEF Holds
    <3>. QED
      BY <1>1, <2>6, <3>1, <3>2, <3>3, <3>4, <3>5, <3>6 DEF Holds
  <2>. QED
    BY <1>1, <2>5, <2>6, <2>8
<1>. QED
  BY <1>3, <1>4, <1>5

\* A client of an open connection changes the connection only.
LEMMA ClientStep ==
  ASSUME IInv, NEW c \in Clients, Hello(c) \/ SendRequest(c) \/ Leave(c)
  PROVE  IInv'
<1>1. PICK a \in Phases, o \in Results, b \in Seq(Token), m \in Seq(Byte), n \in Nat :
         /\ a = at[c] /\ o = op[c] /\ b = buffer[c] /\ m = msg[c] /\ n = answering[c]
  BY Here
<1>2. PICK cm \in ConnType :
        /\ conn' = [conn EXCEPT ![c] = cm] /\ cm.peer # "none"
        /\ Holds(at[c], op[c], buffer[c], msg[c], answering[c], cm)
  BY ClientEffect
<1>3. UNCHANGED <<acc, queue, socket, at, op, buffer, msg, answering>>
  BY DEF Hello, SendRequest, Leave, listener, session
<1>4. Holds(a, o, b, m, n, cm)
  BY <1>1, <1>2
<1>5. Update(c, a, o, b, m, n, cm)
  BY <1>1, <1>2, <1>3, Same DEF Update, IInv
<1>6. Waiting(c) => a = "none" /\ cm.peer # "none"
  BY <1>1, <1>2 DEF Waiting
<1>. QED
  BY <1>3, <1>4, <1>5, <1>6, OwnStep

\* A connection joins the queue of the listening socket.
LEMMA ConnectStep ==
  ASSUME IInv, NEW c \in Clients, Connect(c)
  PROVE  IInv'
<1>1. PICK a \in Phases, o \in Results, b \in Seq(Token), m \in Seq(Byte), n \in Nat,
           cn \in ConnType :
         /\ Holds(a, o, b, m, n, cn)
         /\ a = at[c] /\ o = op[c] /\ b = buffer[c] /\ m = msg[c]
         /\ n = answering[c] /\ cn = conn[c]
  BY Here
<1>2. /\ UNCHANGED <<acc, socket, at, op, buffer, msg, answering>>
      /\ cn.peer = "none" /\ queue' = Append(queue, c)
      /\ conn' = [conn EXCEPT ![c].peer = "up"]
  BY <1>1 DEF Connect, session
<1>3. a = "none" /\ o # "eof"
  BY <1>1, <1>2 DEF Holds
<1> DEFINE cm == [cn EXCEPT !.peer = "up"]
<1>4. conn' = [conn EXCEPT ![c] = cm]
  BY <1>1, <1>2 DEF IInv, TypeInv
<1>5. /\ cm \in ConnType /\ cm.wire = cn.wire /\ cm.asked = cn.asked /\ cm.out = cn.out
      /\ cm.peer = "up"
  BY DEF ConnType
<1> HIDE DEF cm
<1>6. Holds(a, o, b, m, n, cm)
  BY <1>1, <1>3, <1>5 DEF Holds
<1>7. Update(c, a, o, b, m, n, cm)
  BY <1>1, <1>2, <1>4, Same DEF Update, IInv
<1>8. Settled(c)
  <2>1. cm \in ConnType
    BY <1>5
  <2>. QED
    BY <1>6, <1>7, <2>1, Updated
<1>9. Waiting(c)' /\ ~Waiting(c) /\ \A e \in Clients : Waiting(e) => Waiting(e)'
  <2>1. conn'[c] = cm /\ at'[c] = "none"
    BY <1>1, <1>2, <1>3, <1>4 DEF IInv, TypeInv
  <2>2. conn[c].peer = "none" /\ conn'[c].peer = "up"
    BY <1>1, <1>2, <1>5, <2>1
  <2>3. Waiting(c)' /\ ~Waiting(c)
    BY <2>1, <2>2 DEF Waiting
  <2>4. \A e \in Clients \ {c} : Waiting(e) => Waiting(e)'
    BY <1>8 DEF Settled, Waiting
  <2>. QED
    BY <2>3, <2>4
<1>10. queue' \in Seq(Clients) /\ ListenerInv'
  <2> DEFINE q == Append(queue, c)
             k == Len(queue)
  <2>1. /\ k \in Nat /\ DOMAIN queue = 1..k /\ \A i \in 1..k : queue[i] \in Clients
        /\ q \in Seq(Clients) /\ DOMAIN q = 1..(k + 1)
        /\ \A i \in 1..k : q[i] = queue[i]
        /\ q[k + 1] = c
    BY LenProperties, ElementOfSeq, AppendProperties DEF IInv, TypeInv
  <2> HIDE DEF q, k
  <2>2. queue' = q
    BY <1>2 DEF q
  <2>3. /\ socket' = socket /\ acc' = acc /\ c # socket
        /\ acc = "ok" <=> socket # None
        /\ socket # None => Waiting(socket)'
    BY <1>2, <1>9, NoneAssumption DEF IInv, TypeInv, ListenerInv
  <2>4. \A i \in 1..k : /\ queue[i] # c /\ queue[i] # socket
                         /\ conn'[queue[i]].peer # "none" /\ at'[queue[i]] = "none"
    <3>1. \A i \in 1..k : queue[i] # socket /\ Waiting(queue[i])
      BY <2>1 DEF IInv, ListenerInv
    <3>. QED
      BY <1>9, <2>1, <3>1 DEF Waiting
  <2>5. \A i \in 1..(k + 1) : i \in 1..k \/ i = k + 1
    BY <2>1
  <2>6. \A i \in 1..(k + 1) :
           q[i] # socket /\ conn'[q[i]].peer # "none" /\ at'[q[i]] = "none"
    <3>1. \A i \in 1..k :
             q[i] # socket /\ conn'[q[i]].peer # "none" /\ at'[q[i]] = "none"
      BY <2>1, <2>4
    <3>2. c # socket /\ conn'[c].peer # "none" /\ at'[c] = "none"
      BY <1>9, <2>3 DEF Waiting
    <3>. QED
      BY <2>1, <2>5, <3>1, <3>2
  <2>7. ASSUME NEW i \in 1..(k + 1), NEW j \in 1..(k + 1), q[i] = q[j] PROVE i = j
    <3>1. CASE i \in 1..k /\ j \in 1..k
      BY <2>1, <2>7, <3>1 DEF IInv, ListenerInv
    <3>2. CASE i = k + 1 /\ j = k + 1
      BY <3>2
    <3>3. CASE i \in 1..k /\ j = k + 1
      BY <2>1, <2>4, <2>7, <3>3
    <3>4. CASE i = k + 1 /\ j \in 1..k
      BY <2>1, <2>4, <2>7, <3>4
    <3>. QED
      BY <2>5, <3>1, <3>2, <3>3, <3>4
  <2>. QED
    BY <2>1, <2>2, <2>3, <2>6, <2>7 DEF ListenerInv, Waiting
<1>11. TypeInv'
  BY <1>2, <1>8, <1>10 DEF Settled, IInv, TypeInv
<1>. QED
  BY <1>8, <1>10, <1>11 DEF Settled, IInv

(* The listener.                                                           *)

\* A session starts for the connection that was delivered.
LEMMA Delivered ==
  ASSUME IInv, acc = "ok", NEW a \in {"run", "handshake"}, NEW o \in {"ok", "waiting"},
         at' = [at EXCEPT ![socket] = a], op' = [op EXCEPT ![socket] = o],
         socket' = None, acc' = "pending",
         UNCHANGED <<queue, buffer, msg, answering, conn>>
  PROVE  IInv'
<1>1. socket \in Clients /\ Waiting(socket)
  BY DEF IInv, TypeInv, ListenerInv
<1>2. PICK c \in Clients : c = socket
  BY <1>1
<1>3. PICK x \in Phases, y \in Results, b \in Seq(Token), m \in Seq(Byte), n \in Nat,
           cn \in ConnType :
         /\ Holds(x, y, b, m, n, cn)
         /\ x = at[c] /\ y = op[c] /\ b = buffer[c] /\ m = msg[c]
         /\ n = answering[c] /\ cn = conn[c]
  BY Here
<1>4. x = "none" /\ cn.peer # "none" /\ n = 0
  BY <1>1, <1>2, <1>3 DEF Waiting, Holds
<1>5. Holds(a, o, b, m, n, cn)
  <2>1. /\ Stream(a, m, cn.out) = Stream(x, m, cn.out)
        /\ Answered(a, o, n) = Answered(x, y, n)
    BY <1>4 DEF Stream, Answered
  <2>. QED
    BY <1>3, <1>4, <2>1 DEF Holds
<1>6. at' = [at EXCEPT ![c] = a] /\ op' = [op EXCEPT ![c] = o]
  BY <1>2
<1>7. Update(c, a, o, b, m, n, cn)
  BY <1>3, <1>6, Same DEF Update, IInv
<1>8. a \in Phases /\ o \in Results
  BY DEF Phases, Results
<1>9. Settled(c)
  BY <1>5, <1>7, <1>8, Updated
<1>10. TypeInv'
  BY <1>9 DEF Settled, IInv, TypeInv
<1>11. ListenerInv'
  <2>1. \A i \in DOMAIN queue : queue[i] \in Clients \ {c} /\ Waiting(queue[i])
    BY <1>2, LenProperties, ElementOfSeq DEF IInv, TypeInv, ListenerInv
  <2>2. \A i \in DOMAIN queue :
           /\ conn'[queue[i]].peer # "none" /\ at'[queue[i]] = "none"
           /\ queue[i] # None
    BY <1>9, <2>1, NoneAssumption DEF Settled, Waiting
  <2>. QED
    BY <2>2 DEF IInv, ListenerInv, Waiting
<1>. QED
  BY <1>9, <1>10, <1>11 DEF Settled, IInv

\* A connection leaves the queue, or the accept fails.
LEMMA AcceptStep ==
  ASSUME IInv, AcceptReady \/ AcceptError
  PROVE  IInv'
<1>1. /\ UNCHANGED <<at, op, buffer, msg, answering, conn>>
      /\ acc = "pending" /\ socket = None
  BY DEF AcceptReady, AcceptError, IInv, ListenerInv, session
<1>2. \A c \in Clients : Session(c)'
  BY <1>1 DEF IInv, Session
<1>3. CASE AcceptReady
  <2> DEFINE q == Tail(queue)
             n == Len(queue)
  <2>1. /\ n \in Nat \ {0} /\ DOMAIN queue = 1..n /\ \A i \in 1..n : queue[i] \in Clients
        /\ q \in Seq(Clients) /\ DOMAIN q = 1..(n - 1)
        /\ \A i \in 1..(n - 1) : q[i] = queue[i + 1]
        /\ Head(queue) = queue[1]
    BY <1>3, EmptySeq, LenProperties, ElementOfSeq, HeadTailProperties
       DEF AcceptReady, IInv, TypeInv
  <2> HIDE DEF q, n
  <2>2. acc' = "ok" /\ socket' = queue[1] /\ queue' = q
    BY <1>3, <2>1 DEF AcceptReady, q
  <2>3. 1 \in 1..n /\ \A i \in 1..(n - 1) : i + 1 \in 1..n /\ i + 1 # 1
    BY <2>1
  <2>4. /\ \A i \in 1..n : conn[queue[i]].peer # "none" /\ at[queue[i]] = "none"
        /\ \A i, j \in 1..n : queue[i] = queue[j] => i = j
    BY <2>1 DEF IInv, ListenerInv, Waiting
  <2>5. \A i \in 1..(n - 1) : /\ conn[q[i]].peer # "none" /\ at[q[i]] = "none"
                              /\ q[i] # queue[1]
    BY <2>1, <2>3, <2>4
  <2>6. ASSUME NEW i \in 1..(n - 1), NEW j \in 1..(n - 1), q[i] = q[j] PROVE i = j
    <3>1. i + 1 = j + 1
      BY <2>1, <2>3, <2>4, <2>6
    <3>. QED
      BY <2>1, <3>1
  <2>7. queue[1] \in Clients /\ queue[1] # None
    BY <2>1, <2>3, NoneAssumption
  <2>8. ListenerInv'
    BY <1>1, <2>1, <2>2, <2>3, <2>4, <2>5, <2>6, <2>7 DEF ListenerInv, Waiting
  <2>9. TypeInv'
    BY <1>1, <2>1, <2>2, <2>7 DEF IInv, TypeInv
  <2>. QED
    BY <1>2, <2>8, <2>9 DEF IInv
<1>4. CASE AcceptError
  <2>1. queue' = queue /\ socket' = socket /\ acc' = "err"
    BY <1>4 DEF AcceptError
  <2>2. ListenerInv'
    BY <1>1, <2>1 DEF IInv, ListenerInv, Waiting
  <2>3. TypeInv'
    BY <1>1, <2>1 DEF IInv, TypeInv
  <2>. QED
    BY <1>2, <2>2, <2>3 DEF IInv
<1>. QED
  BY <1>3, <1>4

\* on_accept, and the loop of the synchronous server
LEMMA ListenerStep ==
  ASSUME IInv, on_accept \/ accept_loop
  PROVE  IInv'
<1>1. UNCHANGED <<queue, buffer, msg, answering, conn>>
  BY DEF on_accept, accept_loop
<1>2. CASE acc = "ok"
  <2>1. socket' = None /\ acc' = "pending"
    BY <1>2 DEF on_accept, accept_loop
  <2>2. PICK a \in {"run", "handshake"}, o \in {"ok", "waiting"} :
          at' = [at EXCEPT ![socket] = a] /\ op' = [op EXCEPT ![socket] = o]
    <3>1. CASE on_accept
      BY <1>2, <3>1 DEF on_accept
    <3>2. CASE accept_loop
      BY <1>2, <3>2 DEF accept_loop
    <3>. QED
      BY <3>1, <3>2
  <2>. QED
    BY <1>1, <1>2, <2>1, <2>2, Delivered
<1>3. CASE acc # "ok"
  <2>1. UNCHANGED <<at, op, socket>> /\ acc' = "ended" /\ socket = None
    BY <1>3 DEF on_accept, accept_loop, IInv, ListenerInv
  <2>2. \A c \in Clients : Session(c)'
    BY <1>1, <2>1 DEF IInv, Session
  <2>3. ListenerInv'
    BY <1>1, <2>1 DEF IInv, ListenerInv, Waiting
  <2>4. TypeInv'
    BY <1>1, <2>1 DEF IInv, TypeInv
  <2>. QED
    BY <2>2, <2>3, <2>4 DEF IInv
<1>. QED
  BY <1>2, <1>3

(* The theorems.                                                           *)

\* Nothing has arrived.
LEMMA InitInv ==
  ASSUME Init
  PROVE  IInv
<1>1. Len(<< >>) = 0 /\ \A S : << >> \in Seq(S)
  BY EmptySeq
<1>2. NewConn \in ConnType
  BY <1>1 DEF NewConn, ConnType
<1>3. TypeInv
  <2>1. conn \in [Clients -> ConnType]
    BY <1>2 DEF Init
  <2>. QED
    BY <1>1, <2>1 DEF Init, TypeInv, Phases, Results
<1>4. ListenerInv
  <2>1. DOMAIN queue = {}
    BY DEF Init
  <2>. QED
    BY <2>1 DEF Init, ListenerInv
<1>5. Holds("none", "none", << >>, << >>, 0, NewConn)
  <2>1. /\ NewConn.peer = "none" /\ NewConn.asked = << >> /\ NewConn.wire = << >>
        /\ NewConn.out = << >>
    BY DEF NewConn
  <2>2. << >> \o << >> = << >>
    BY <1>1, ConcatEmptySeq
  <2>3. Unread(<< >>, 0, 0) /\ Ordered(<< >>, 0, << >>)
    BY <1>1 DEF Unread, Ordered
  <2>4. Whole(<< >>, 0, << >>)
    BY <2>3 DEF Whole
  <2>5. Stream("none", << >>, << >>) = << >> /\ Answered("none", "none", 0) = 0
    BY DEF Stream, Answered
  <2>. QED
    BY <1>1, <2>1, <2>2, <2>3, <2>4, <2>5 DEF Holds
<1>6. \A c \in Clients : Session(c)
  BY <1>5 DEF Init, Session
<1>. QED
  BY <1>3, <1>4, <1>6 DEF IInv

\* Every step keeps the invariant.
LEMMA Inductive ==
  ASSUME IInv, [Next]_vars
  PROVE  IInv'
<1>1. CASE AcceptReady \/ AcceptError
  BY <1>1, AcceptStep
<1>2. CASE on_accept \/ accept_loop
  BY <1>2, ListenerStep
<1>3. CASE RunReturns
  BY <1>3 DEF RunReturns, listener, session, IInv, TypeInv, ListenerInv, Waiting, Session
<1>4. ASSUME NEW c \in Clients, OperationNext(c) PROVE IInv'
  BY <1>4, CompletesStep, ReadStep, RequestStep, EndStep, SendStep DEF OperationNext
<1>5. ASSUME NEW c \in Clients, HandlerNext(c) PROVE IInv'
  BY <1>5, SetupStep, OnReadStep, OnWriteStep DEF HandlerNext, do_session
<1>6. ASSUME NEW c \in Clients, ClientNext(c) PROVE IInv'
  BY <1>6, ConnectStep, ClientStep DEF ClientNext
<1>7. CASE UNCHANGED vars
  BY <1>7 DEF vars, IInv, TypeInv, ListenerInv, Waiting, Session
<1>. QED
  BY <1>1, <1>2, <1>3, <1>4, <1>5, <1>6, <1>7 DEF Next, ListenerNext

\* Of the listener, of every session and of every connection: what the servers never
\* leave.
THEOREM Invariant == Spec => []IInv
<1>1. Init => IInv
  BY InitInv
<1>2. IInv /\ [Next]_vars => IInv'
  BY Inductive
<1>. QED
  BY <1>1, <1>2, PTL DEF Spec

\* The steps that start the shutdown are on_read at the end of the stream and on_write.
LEMMA OnlyCloses ==
  ASSUME IInv, [Next]_vars, NEW c \in Clients, at[c] # "shutdown", at'[c] = "shutdown"
  PROVE  (on_read(c) /\ op[c] = "eof") \/ (on_write(c) /\ ~Answer(c, answering[c]).keep)
<1>1. at' # at /\ at \in [Clients -> Phases]
  BY DEF IInv, TypeInv
<1>2. PICK e \in Clients :
        \/ HandlerNext(e)
        \/ e = socket /\ acc = "ok" /\ (on_accept \/ accept_loop)
  <2>1. acc = "ok" => socket \in Clients
    BY DEF IInv, TypeInv, ListenerInv
  <2>2. \/ \E e \in Clients : HandlerNext(e)
        \/ acc = "ok" /\ (on_accept \/ accept_loop)
    BY <1>1 DEF Next, vars, ListenerNext, AcceptReady, AcceptError, on_accept, accept_loop,
                RunReturns, OperationNext, ClientNext, HandshakeDone, ReadSome, RequestRead,
                ReadEnds, SendSome, FileFails, ShutdownDone, Breaks, Timeout, Connect, Hello,
                SendRequest, Leave, session
  <2>. QED
    BY <2>1, <2>2
<1>3. CASE e = socket /\ acc = "ok" /\ (on_accept \/ accept_loop)
  BY <1>1, <1>3 DEF on_accept, accept_loop
<1>4. CASE HandlerNext(e)
  <2>1. PICK p : Starts(e, p)
    BY <1>4 DEF HandlerNext, do_session, on_run, on_handshake, on_read, on_write, on_shutdown
  <2>2. e = c
    BY <1>1, <2>1 DEF Starts
  <2>3. \A p1 : Starts(c, p1) => p1 = "shutdown"
    BY <1>1 DEF Starts
  <2>. QED
    BY <1>4, <2>2, <2>3 DEF HandlerNext, do_session, on_run, on_handshake, on_read,
                            on_write, on_shutdown
<1>. QED
  BY <1>2, <1>3, <1>4

\* The shutdown is started only when every request that was sent has its whole answer, or
\* behind the whole of an answer that closes the connection.
THEOREM ClosesInOrder == Spec => OrderlyClose
<1> DEFINE Body ==
      \A c \in Clients :
         (at[c] # "shutdown" /\ at'[c] = "shutdown") =>
            \/ conn[c].asked = << >>
            \/ /\ conn[c].out # << >>
               /\ Last(conn[c].out) = Last(Message(c, answering[c]))
               /\ \/ ~Answer(c, answering[c]).keep
                  \/ answering[c] = Len(conn[c].asked)
<1>1. ASSUME IInv, [Next]_vars PROVE Body
  <2>1. SUFFICES ASSUME NEW c \in Clients, at[c] # "shutdown", at'[c] = "shutdown",
                        conn[c].asked # << >>
                 PROVE  /\ conn[c].out # << >>
                        /\ Last(conn[c].out) = Last(Message(c, answering[c]))
                        /\ \/ ~Answer(c, answering[c]).keep
                           \/ answering[c] = Len(conn[c].asked)
    OBVIOUS
  <2>2. PICK a \in Phases, o \in Results, b \in Seq(Token), m \in Seq(Byte), n \in Nat,
             cn \in ConnType :
           /\ Holds(a, o, b, m, n, cn)
           /\ a = at[c] /\ o = op[c] /\ b = buffer[c] /\ m = msg[c]
           /\ n = answering[c] /\ cn = conn[c]
    BY <1>1, Here
  <2>3. \/ a = "read" /\ o = "eof"
        \/ a = "write" /\ o \in {"ok", "eof"} /\ ~Answer(c, n).keep
    <3>1. (on_read(c) /\ op[c] = "eof") \/ (on_write(c) /\ ~Answer(c, answering[c]).keep)
      BY <1>1, <2>1, OnlyCloses
    <3>2. ASSUME on_write(c) PROVE op[c] # "error"
      BY <1>1, <2>1, <3>2 DEF on_write, Starts, IInv, TypeInv
    <3>. QED
      BY <2>2, <3>1, <3>2 DEF on_read, on_write, On
  <2>4. /\ cn.asked \in Seq(Request) /\ cn.out \in Seq(Byte) /\ Len(cn.asked) \in Nat
        /\ Len(cn.asked) # 0
    BY <2>1, <2>2, ConnParts, EmptySeq
  <2>5. /\ Whole(cn.out, n, cn.asked) /\ n \in 1..Len(cn.asked)
        /\ ~Answer(c, n).keep \/ n = Len(cn.asked)
    <3>1. CASE a = "read" /\ o = "eof"
      <4>1. Whole(cn.out, n, cn.asked)
        BY <2>2, <3>1 DEF Holds, Stream, Answered
      <4>2. b \o cn.wire = << >>
        BY <2>2, <3>1, EmptySeq, ConcatEmptySeq DEF Holds
      <4>3. n = Len(cn.asked)
        BY <2>2, <4>2 DEF Holds, Unread
      <4>. QED
        BY <2>4, <4>1, <4>3
    <3>2. CASE a = "write" /\ o = "ok" /\ ~Answer(c, n).keep
      <4>1. m = << >> /\ n > 0 /\ n <= Len(cn.asked)
        BY <2>2, <3>2 DEF Holds, Unread
      <4>2. Whole(cn.out \o m, n, cn.asked)
        BY <2>2, <3>2 DEF Holds, Stream, Answered
      <4>3. cn.out \o m = cn.out
        BY <2>4, <4>1, ConcatEmptySeq
      <4>. QED
        BY <2>4, <3>2, <4>1, <4>2, <4>3
    <3>3. a = "write" => o # "eof"
      BY <2>2 DEF Holds
    <3>. QED
      BY <2>3, <3>1, <3>2, <3>3
  <2>6. cn.out # << >> /\ Last(cn.out) = <<n, Size(cn.asked, n)>>
    BY <2>5 DEF Whole, Last
  <2>7. Last(Message(c, n)) = <<n, Size(cn.asked, n)>>
    <3>1. Message(c, n) = Text(cn.asked, n)
      BY <2>2 DEF Message, Text, Answer, Size
    <3>2. /\ Size(cn.asked, n) \in Nat
          /\ Text(cn.asked, n) \in Seq(Byte) /\ Len(Text(cn.asked, n)) = Size(cn.asked, n) + 1
          /\ \A k \in 1..(Size(cn.asked, n) + 1) : Text(cn.asked, n)[k] = <<n, k - 1>>
      BY <2>4, <2>5, TextIs
    <3>3. /\ Size(cn.asked, n) + 1 \in 1..(Size(cn.asked, n) + 1)
          /\ (Size(cn.asked, n) + 1) - 1 = Size(cn.asked, n)
      BY <3>2
    <3>4. Text(cn.asked, n)[Size(cn.asked, n) + 1] = <<n, Size(cn.asked, n)>>
      BY <3>2, <3>3
    <3>. QED
      BY <3>1, <3>2, <3>4 DEF Last
  <2>. QED
    BY <2>2, <2>5, <2>6, <2>7
<1>2. IInv /\ [Next]_vars => Body
  BY <1>1
<1>. QED
  BY <1>2, Invariant, PTL DEF Spec, OrderlyClose

\* The bytes behind a header are those of its response.
LEMMA BodyRuns ==
  ASSUME NEW s \in Seq(Byte), NEW N, NEW asked, Ordered(s, N, asked),
         NEW p \in 1..Len(s), NEW n \in Nat, s[p] = <<n, 0>>, Size(asked, n) \in Nat
  PROVE  \A i \in Nat : i <= Size(asked, n) /\ p + i <= Len(s) => s[p + i] = <<n, i>>
<1> DEFINE z == Size(asked, n)
           S == {i \in Nat : i <= z /\ p + i <= Len(s) => s[p + i] = <<n, i>>}
<1>1. Len(s) \in Nat /\ p \in Nat /\ z \in Nat
  BY LenProperties
<1>2. 0 \in S
  <2>1. p + 0 = p
    BY <1>1
  <2>. QED
    BY <2>1
<1>3. ASSUME NEW i \in S PROVE i + 1 \in S
  <2>1. SUFFICES ASSUME i + 1 <= z, p + (i + 1) <= Len(s) PROVE s[p + (i + 1)] = <<n, i + 1>>
    OBVIOUS
  <2>2. i \in Nat /\ i < z /\ p + i \in 1..(Len(s) - 1) /\ (p + i) + 1 = p + (i + 1)
    BY <1>1, <2>1
  <2>3. s[p + i] = <<n, i>>
    BY <1>1, <2>2
  <2>4. s[(p + i) + 1] = NextByte(s[p + i], asked)
    BY <2>2 DEF Ordered
  <2>. QED
    BY <2>2, <2>3, <2>4 DEF NextByte
<1>4. S = Nat
  <2>1. S \in SUBSET Nat
    OBVIOUS
  <2> HIDE DEF S
  <2>. QED
    BY <1>2, <1>3, <2>1, Induction
<1>. QED
  BY <1>4

\* Where the size of the file fits into the variable "size" and the response to a HEAD
\* has no body, the length that is declared is that of the body.
LEMMA Declared ==
  ASSUME NEW q \in Request,
         ~(handle_request(q).status = 200 /\ q.size >= 2^Width),
         ~(handle_request(q).status # 200 /\ q.method = "head")
  PROVE  handle_request(q).body = IF q.method = "head" THEN 0 ELSE handle_request(q).declared
<1> DEFINE w == 2^Width
<1>1. q.size \in Nat /\ q.method \in {"get", "head", "other"} /\ w \in Nat \ {0}
  BY Sizes DEF Request
<1>2. CASE q.method = "other" \/ q.resource \in {"illegal", "missing", "denied"}
  <2>1. handle_request(q).status # 200 /\ handle_request(q).body = handle_request(q).declared
    BY <1>2 DEF handle_request, Error, Response
  <2>. QED
    BY <2>1
<1>3. CASE ~(q.method = "other" \/ q.resource \in {"illegal", "missing", "denied"})
  <2>1. handle_request(q) = Response(200, q.size % w, IF q.method = "head" THEN 0 ELSE q.size, q)
    BY <1>3 DEF handle_request
  <2>2. /\ handle_request(q).status = 200 /\ handle_request(q).declared = q.size % w
        /\ handle_request(q).body = IF q.method = "head" THEN 0 ELSE q.size
    BY <2>1 DEF Response
  <2>3. q.size < w
    <3>1. ~(q.size >= w)
      BY <2>2
    <3> HIDE DEF w
    <3>. QED
      BY <1>1, <3>1
  <2> HIDE DEF w
  <2>4. q.size % w = q.size
    BY <1>1, <2>3
  <2>. QED
    BY <2>2, <2>4
<1>. QED
  BY <1>2, <1>3

\* A client that counts the bytes after a header finds the next header where the server
\* put it, but for a file as large as the range of "size" and an error response to a HEAD.
THEOREM FramedAlways == Spec => []FramedUnless
<1>1. ASSUME IInv PROVE FramedUnless
  <2>1. SUFFICES ASSUME NEW c \in Clients, NEW p \in 1..Len(conn[c].out),
                        NEW n, n = conn[c].out[p][1], conn[c].out[p][2] = 0,
                        ~(Answer(c, n).status = 200 /\ conn[c].asked[n].size >= 2^Width),
                        ~(Answer(c, n).status # 200 /\ conn[c].asked[n].method = "head")
                 PROVE  FramedAt(c, p)
    BY DEF FramedUnless
  <2>2. PICK N \in Nat, cn \in ConnType :
          Ordered(cn.out, N, cn.asked) /\ N <= Len(cn.asked) /\ cn = conn[c]
    <3>1. PICK a \in Phases, o \in Results, b \in Seq(Token), m \in Seq(Byte),
               k \in Nat, cn \in ConnType : Holds(a, o, b, m, k, cn) /\ cn = conn[c]
      BY <1>1, Here
    <3>. QED
      BY <3>1 DEF Holds, Unread
  <2> DEFINE s == cn.out
             z == Size(cn.asked, n)
  <2>3. /\ s \in Seq(Byte) /\ Len(s) \in Nat /\ p \in 1..Len(s) /\ s[p] \in Byte
        /\ \A i \in 1..Len(s) : s[i] \in Byte
    BY <2>2, ConnParts, ElementOfSeq
  <2>4. n \in 1..Len(cn.asked) /\ cn.asked[n] \in Request
    <3>1. n \in 1..N
      BY <2>1, <2>2 DEF Ordered
    <3>2. n \in 1..Len(cn.asked)
      BY <2>2, <3>1, ConnParts
    <3>. QED
      BY <3>2, ConnParts
  <2>5. z \in Nat /\ n \in Nat /\ s[p] = <<n, 0>>
    <3>1. z \in Nat /\ n \in Nat
      BY <2>4, BodyIs, ConnParts DEF Size
    <3>2. s[p][1] = n /\ s[p][2] = 0
      BY <2>1, <2>2
    <3>. QED
      BY <2>3, <3>1, <3>2 DEF Byte
  <2>6. Expected(c, n) = z
    BY <2>1, <2>2, <2>4, Declared DEF Expected, Answer, Size
  <2>7. \A i \in Nat : i <= z /\ p + i <= Len(s) => s[p + i] = <<n, i>>
    <3>1. Ordered(s, N, cn.asked) /\ Size(cn.asked, n) = z
      BY <2>2
    <3> HIDE DEF s
    <3>2. Size(cn.asked, n) \in Nat
      BY <2>5
    <3>3. \A i \in Nat : i <= Size(cn.asked, n) /\ p + i <= Len(s) => s[p + i] = <<n, i>>
      BY <2>3, <2>5, <3>1, <3>2, BodyRuns
    <3>. QED
      BY <3>3
  <2>8. p + z + 1 <= Len(s) => s[p + (z + 1)][1] = n + 1
    <3>1. SUFFICES ASSUME p + z + 1 <= Len(s) PROVE s[p + (z + 1)][1] = n + 1
      OBVIOUS
    <3>2. p + z \in 1..(Len(s) - 1) /\ (p + z) + 1 = p + (z + 1) /\ z <= z /\ p + z <= Len(s)
      BY <2>3, <2>5, <3>1
    <3>3. s[p + z] = <<n, z>>
      BY <2>5, <2>7, <3>2
    <3>4. s[(p + z) + 1] = NextByte(s[p + z], cn.asked)
      BY <2>2, <3>2 DEF Ordered
    <3>5. NextByte(<<n, z>>, cn.asked) = <<n + 1, 0>>
      <4> HIDE DEF s
      <4>. QED
        BY <2>5 DEF NextByte
    <3>. QED
      BY <3>2, <3>3, <3>4, <3>5
  <2>9. ASSUME NEW i \in 1..(Len(s) - p)
        PROVE  (i <= z) = (s[p + i][1] = n) \/ i > z + 1
    <3>1. i \in Nat /\ p + i <= Len(s)
      BY <2>3
    <3>2. CASE i <= z
      BY <2>7, <3>1, <3>2
    <3>3. CASE i = z + 1
      <4>1. p + z + 1 <= Len(s) /\ ~(i <= z) /\ n + 1 # n
        BY <2>3, <2>5, <3>1, <3>3
      <4>. QED
        BY <2>8, <3>3, <4>1
    <3>4. CASE i > z + 1
      BY <3>4
    <3>. QED
      BY <2>5, <3>1, <3>2, <3>3, <3>4
  <2>. QED
    BY <2>1, <2>2, <2>6, <2>9 DEF FramedAt
<1>. QED
  BY <1>1, Invariant, PTL

(* The order of the answers.                                               *)

\* FlattenSeq joins the members of a sequence from the first to the last.
LEMMA Joined ==
  ASSUME NEW N \in Nat \ {0}, NEW q, Len(q) = N
  PROVE  \E f : /\ f = [i \in 1..N |-> IF i = 1 THEN q[i] ELSE f[i - 1] \o q[i]]
                /\ FlattenSeq(q) = f[N]
<1> DEFINE Rec(f, n) == f = [i \in 1..n |-> IF i = 1 THEN q[i] ELSE f[i - 1] \o q[i]]
           S == {n \in Nat : \E f : Rec(f, n)}
<1>1. 0 \in S
  <2>1. Rec([i \in 1..0 |-> 0], 0)
    OBVIOUS
  <2>. QED
    BY <2>1
<1>2. ASSUME NEW n \in S PROVE n + 1 \in S
  <2>1. PICK f : Rec(f, n)
    OBVIOUS
  <2> DEFINE g == [i \in 1..(n + 1) |->
                     IF i \in 1..n THEN f[i] ELSE IF i = 1 THEN q[i] ELSE f[i - 1] \o q[i]]
  <2>2. n \in Nat /\ n + 1 \in Nat
    OBVIOUS
  <2>3. ASSUME NEW i \in 1..(n + 1)
        PROVE  g[i] = IF i = 1 THEN q[i] ELSE g[i - 1] \o q[i]
    <3>1. i # 1 => i - 1 \in 1..n /\ i - 1 \in 1..(n + 1)
      BY <2>2
    <3>2. i # 1 => g[i - 1] = f[i - 1]
      BY <3>1
    <3>3. CASE i \in 1..n
      <4>1. f[i] = IF i = 1 THEN q[i] ELSE f[i - 1] \o q[i]
        BY <2>1, <3>3
      <4>. QED
        BY <3>2, <3>3, <4>1
    <3>4. CASE i \notin 1..n
      BY <3>2, <3>4
    <3>. QED
      BY <3>3, <3>4
  <2>4. Rec(g, n + 1)
    <3>1. DOMAIN g = 1..(n + 1) /\ g = [i \in 1..(n + 1) |-> g[i]]
      OBVIOUS
    <3> HIDE DEF g
    <3>. QED
      BY <2>3, <3>1
  <2>. QED
    BY <2>2, <2>4
<1>3. S = Nat
  <2>1. S \in SUBSET Nat
    OBVIOUS
  <2> HIDE DEF S
  <2>. QED
    BY <1>1, <1>2, <2>1, Induction
<1>4. PICK f : Rec(f, N)
  BY <1>3
<1>5. Rec(CHOOSE g : Rec(g, N), N)
  BY <1>4
<1>6. FlattenSeq(q) = (CHOOSE g : Rec(g, N))[N]
  BY DEF FlattenSeq
<1>. QED
  BY <1>5, <1>6

\* The messages of the responses to the first requests, one behind the other, are those
\* responses.
LEMMA WholeAnswers ==
  ASSUME NEW asked \in Seq(Request), NEW last \in 1..Len(asked)
  PROVE  /\ FlattenSeq([n \in 1..last |-> Text(asked, n)]) \in Seq(Byte)
         /\ Whole(FlattenSeq([n \in 1..last |-> Text(asked, n)]), last, asked)
<1> DEFINE q == [n \in 1..last |-> Text(asked, n)]
<1>1. Len(asked) \in Nat /\ last \in Nat \ {0} /\ Len(q) = last
  BY LenProperties
<1>2. \A i \in 1..last : q[i] = Text(asked, i)
  OBVIOUS
<1> HIDE DEF q
<1>3. PICK f : /\ f = [i \in 1..last |-> IF i = 1 THEN q[i] ELSE f[i - 1] \o q[i]]
               /\ FlattenSeq(q) = f[last]
  BY <1>1, Joined
<1>4. /\ \A i \in 1..last : i = 1 => f[i] = Text(asked, i)
      /\ \A i \in 1..last : i # 1 => f[i] = f[i - 1] \o Text(asked, i)
  BY <1>2, <1>3
<1> DEFINE S == {n \in Nat : n \in 1..last => f[n] \in Seq(Byte) /\ Whole(f[n], n, asked)}
<1>5. 0 \in S
  OBVIOUS
<1>6. ASSUME NEW n \in S PROVE n + 1 \in S
  <2>1. SUFFICES ASSUME n + 1 \in 1..last
                 PROVE  f[n + 1] \in Seq(Byte) /\ Whole(f[n + 1], n + 1, asked)
    OBVIOUS
  <2>2. n \in Nat /\ (n + 1) - 1 = n /\ n + 1 \in 1..Len(asked)
    BY <1>1, <2>1
  <2>3. CASE n = 0
    <3>1. << >> \in Seq(Byte) /\ Whole(<< >>, 0, asked)
      BY EmptySeq DEF Whole, Ordered
    <3>2. n + 1 = 1 /\ 1 \in 1..Len(asked) /\ 1 - 1 = 0
      BY <2>2, <2>3
    <3>3. /\ << >> \o Text(asked, 1) \in Seq(Byte)
          /\ Whole(<< >> \o Text(asked, 1), 1, asked)
      BY <3>1, <3>2, WholeNext
    <3>4. << >> \o Text(asked, 1) = Text(asked, 1)
      BY <3>2, TextIs, ConcatEmptySeq
    <3>. QED
      BY <1>4, <2>1, <3>2, <3>3, <3>4
  <2>4. CASE n # 0
    <3>1. n \in 1..last
      BY <1>1, <2>1, <2>2, <2>4
    <3>2. f[n] \in Seq(Byte) /\ Whole(f[n], n, asked)
      BY <3>1
    <3> HIDE DEF S
    <3>3. f[n + 1] = f[n] \o Text(asked, n + 1)
      <4>1. n + 1 # 1
        BY <2>2, <2>4
      <4>2. f[n + 1] = f[(n + 1) - 1] \o Text(asked, n + 1)
        BY <1>4, <2>1, <4>1
      <4>. QED
        BY <2>2, <4>2
    <3>. QED
      BY <2>2, <3>2, <3>3, WholeNext
  <2>. QED
    BY <2>3, <2>4
<1>7. S = Nat
  <2>1. S \in SUBSET Nat
    OBVIOUS
  <2> HIDE DEF S
  <2>. QED
    BY <1>5, <1>6, <2>1, Induction
<1>8. f[last] \in Seq(Byte) /\ Whole(f[last], last, asked)
  <2>1. last \in S /\ last \in 1..last
    BY <1>1, <1>7
  <2>. QED
    BY <2>1
<1>. QED
  BY <1>3, <1>8 DEF q

\* A beginning of the first n responses is one of the whole of at least as many.
LEMMA OrderedPrefix ==
  ASSUME NEW asked \in Seq(Request), NEW n \in Nat, NEW last \in 1..Len(asked), n <= last,
         NEW s \in Seq(Byte), Ordered(s, n, asked),
         NEW t \in Seq(Byte), Whole(t, last, asked)
  PROVE  IsPrefix(s, t)
<1> DEFINE S == {i \in Nat : i \in 1..Len(s) /\ i \in 1..Len(t) => s[i] = t[i]}
<1>1. Len(s) \in Nat /\ Len(t) \in Nat /\ last \in Nat
  BY LenProperties
<1>2. 0 \in S
  OBVIOUS
<1>3. ASSUME NEW i \in S PROVE i + 1 \in S
  <2>1. SUFFICES ASSUME i + 1 \in 1..Len(s), i + 1 \in 1..Len(t) PROVE s[i + 1] = t[i + 1]
    OBVIOUS
  <2>2. CASE i = 0
    <3>1. s # << >> /\ t # << >> /\ i + 1 = 1
      BY <1>1, <2>1, <2>2, EmptySeq
    <3>. QED
      BY <3>1 DEF Whole, Ordered
  <2>3. CASE i # 0
    <3>1. /\ i \in 1..(Len(s) - 1) /\ i \in 1..(Len(t) - 1)
          /\ i \in 1..Len(s) /\ i \in 1..Len(t)
      BY <1>1, <2>1, <2>3
    <3>2. s[i] = t[i]
      BY <3>1
    <3>3. s[i + 1] = NextByte(s[i], asked) /\ t[i + 1] = NextByte(t[i], asked)
      BY <3>1 DEF Whole, Ordered
    <3>. QED
      BY <3>2, <3>3
  <2>. QED
    BY <2>2, <2>3
<1>4. S = Nat
  <2>1. S \in SUBSET Nat
    OBVIOUS
  <2> HIDE DEF S
  <2>. QED
    BY <1>2, <1>3, <2>1, Induction
<1>5. \A i \in Nat : i \in 1..Len(s) /\ i \in 1..Len(t) => s[i] = t[i]
  BY <1>4
<1>6. Len(s) <= Len(t)
  <2>1. SUFFICES ASSUME Len(s) > Len(t) PROVE FALSE
    BY <1>1
  <2>2. last # 0 /\ t # << >> /\ t[Len(t)] = <<last, Size(asked, last)>>
    BY <1>1 DEF Whole
  <2>3. /\ Len(t) \in 1..Len(t) /\ Len(t) \in 1..Len(s) /\ Len(t) \in 1..(Len(s) - 1)
        /\ Len(t) + 1 \in 1..Len(s)
    BY <1>1, <2>1, <2>2, EmptySeq
  <2>4. s[Len(t)] = <<last, Size(asked, last)>>
    BY <1>1, <1>5, <2>2, <2>3
  <2>5. s[Len(t) + 1] = NextByte(s[Len(t)], asked) /\ s[Len(t) + 1][1] \in 1..n
    BY <2>3 DEF Ordered
  <2>6. NextByte(<<last, Size(asked, last)>>, asked) = <<last + 1, 0>>
    BY <1>1, TextIs DEF NextByte
  <2>. QED
    BY <1>1, <2>4, <2>5, <2>6
<1>7. SubSeq(s, 1, Len(s)) = SubSeq(t, 1, Len(s))
  <2>1. \A i \in 1..Len(s) : s[i] = t[i]
    BY <1>1, <1>5, <1>6
  <2> DEFINE u == SubSeq(t, 1, Len(s))
  <2>2. /\ u \in Seq(Byte) /\ Len(u) = IF 1 <= Len(s) THEN Len(s) - 1 + 1 ELSE 0
        /\ \A i \in 1..(Len(s) - 1 + 1) : u[i] = t[1 + i - 1]
    <3>1. \A i \in 1..Len(s) : t[i] \in Byte
      BY <2>1, ElementOfSeq
    <3>. QED
      BY <1>1, <3>1, SubSeqProperties
  <2> HIDE DEF u
  <2>3. Len(u) = Len(s)
    BY <1>1, <2>2
  <2>4. ASSUME NEW i \in 1..Len(s) PROVE u[i] = s[i]
    <3>1. i \in 1..(Len(s) - 1 + 1) /\ 1 + i - 1 = i
      BY <1>1
    <3>. QED
      BY <2>1, <2>2, <3>1
  <2>5. u = s
    BY <2>2, <2>3, <2>4, SeqEqual
  <2>. QED
    BY <2>5, SubSeqFull DEF u
<1>. QED
  BY <1>6, <1>7 DEF IsPrefix

\* Due is the number of a request without keep-alive, if there is one.
LEMMA DueIs ==
  ASSUME NEW c, Len(conn[c].asked) \in Nat, Due(c) # 0
  PROVE  Due(c) \in 1..Len(conn[c].asked) /\ ~conn[c].asked[Due(c)].keep
<1> DEFINE I == {i \in 1..Len(conn[c].asked) : ~conn[c].asked[i].keep}
<1>1. I # {} /\ Due(c) = CHOOSE x \in I : \A y \in I : x <= y
  BY DEF Due, SelectInSeq, Min
<1>2. \E x \in I : \A y \in I : x <= y
  <2> DEFINE S == {n \in Nat : \A i \in I : i > n}
  <2>1. \A i \in I : i \in Nat /\ i > 0
    OBVIOUS
  <2> HIDE DEF I
  <2>2. 0 \in S /\ S \in SUBSET Nat
    BY <2>1
  <2>3. S # Nat
    <3>1. PICK i \in I : TRUE
      BY <1>1
    <3>2. i \in Nat /\ ~(i > i)
      BY <2>1
    <3>. QED
      BY <3>2
  <2>4. PICK n \in S : n + 1 \notin S
    <3> HIDE DEF S
    <3>. QED
      BY <2>2, <2>3, Induction
  <2>5. PICK i \in I : ~(i > n + 1)
    BY <2>4
  <2>6. \A y \in I : i <= y
    BY <2>1, <2>4, <2>5
  <2>. QED
    BY <2>6
<1>3. Due(c) \in I
  <2> HIDE DEF I
  <2>. QED
    BY <1>1, <1>2
<1>. QED
  BY <1>3

\* What a client has got is a beginning of the whole responses to its requests, in their
\* order, up to the first that closes the connection.
THEOREM AnsweredAlways == Spec => []AnsweredInOrder
<1>1. ASSUME IInv PROVE AnsweredInOrder
  <2>1. SUFFICES ASSUME NEW c \in Clients, NEW last,
                        last = IF Due(c) = 0 THEN Len(conn[c].asked) ELSE Due(c)
                 PROVE  IsPrefix(conn[c].out, FlattenSeq([n \in 1..last |-> Message(c, n)]))
    BY DEF AnsweredInOrder
  <2>2. PICK a \in Phases, o \in Results, b \in Seq(Token), m \in Seq(Byte), n \in Nat,
             cn \in ConnType :
           /\ Holds(a, o, b, m, n, cn)
           /\ cn = conn[c]
    BY <1>1, Here
  <2>3. /\ cn.asked \in Seq(Request) /\ cn.out \in Seq(Byte) /\ Len(cn.asked) \in Nat
    BY ConnParts
  <2>4. n <= Len(cn.asked) /\ Ordered(cn.out, n, cn.asked)
        /\ \A i \in 1..(n - 1) : cn.asked[i].keep
    BY <2>2 DEF Holds, Unread
  <2>5. last \in 0..Len(cn.asked) /\ n <= last
    <3>1. CASE Due(c) = 0
      BY <2>1, <2>2, <2>3, <2>4, <3>1
    <3>2. CASE Due(c) # 0
      <4>1. last \in 1..Len(cn.asked) /\ ~cn.asked[last].keep
        BY <2>1, <2>2, <2>3, <3>2, DueIs
      <4>. QED
        BY <2>3, <2>4, <4>1
    <3>. QED
      BY <3>1, <3>2
  <2>6. [k \in 1..last |-> Message(c, k)] = [k \in 1..last |-> Text(cn.asked, k)]
    BY <2>2 DEF Message, Text, Answer, Size
  <2>7. CASE last = 0
    <3>1. FlattenSeq([k \in 1..last |-> Message(c, k)]) = << >>
      <4>1. [k \in 1..last |-> Message(c, k)] = << >>
        BY <2>7
      <4>. QED
        BY <4>1, EmptySeq DEF FlattenSeq
    <3>2. cn.out = << >>
      <4>1. Len(cn.out) = 0
        <5>1. ASSUME Len(cn.out) # 0 PROVE FALSE
          <6>1. 1 \in 1..Len(cn.out)
            BY <2>3, <5>1, LenProperties
          <6>2. cn.out[1][1] \in 1..n
            BY <2>4, <6>1 DEF Ordered
          <6>. QED
            BY <2>5, <2>7, <6>2
        <5>. QED
          BY <5>1
      <4>. QED
        BY <2>3, <4>1, EmptySeq
    <3>3. IsPrefix(<< >>, << >>)
      BY EmptySeq DEF IsPrefix
    <3>. QED
      BY <2>2, <3>1, <3>2, <3>3
  <2>8. CASE last # 0
    <3>1. last \in 1..Len(cn.asked)
      BY <2>3, <2>5, <2>8
    <3> DEFINE t == FlattenSeq([k \in 1..last |-> Text(cn.asked, k)])
    <3>2. t \in Seq(Byte) /\ Whole(t, last, cn.asked)
      BY <2>3, <3>1, WholeAnswers
    <3> HIDE DEF t
    <3>3. IsPrefix(cn.out, t)
      BY <2>3, <2>4, <2>5, <3>1, <3>2, OrderedPrefix
    <3>. QED
      BY <2>2, <2>6, <3>3 DEF t
  <2>. QED
    BY <2>7, <2>8
<1>. QED
  BY <1>1, Invariant, PTL
====
