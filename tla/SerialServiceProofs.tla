---- MODULE SerialServiceProofs ----
(***************************************************************************)
(* The timer and the port of SerialService have one operation each, and    *)
(* the display shows the numbers of the lines in their order, for every    *)
(* set of lines, every column limit and every bound.                       *)
(*                                                                         *)
(* What makes the first inductive is that before stop() the clock goes on: *)
(* the wait of the timer is in progress or complete, or its handler is     *)
(* about to start the next one (ClockRuns).  The second follows the lines  *)
(* through the wire (Before) and the buffer (Stage).                       *)
(***************************************************************************)
EXTENDS SerialService, FiniteSetTheorems, SequenceTheorems, WellFoundedInduction, TLAPS

TypeInv ==
    /\ con \in {"getchar", "cancelTimer", "cancelPort", "setStop", "ended"}
    /\ m_stop \in BOOLEAN
    /\ timer \in {"none", "waiting", "fired", "aborted"}
    /\ port \in {"none", "reading", "read", "failed"}
    /\ lost \in BOOLEAN
    /\ io \in {"idle", "tick", "line", "returned"}

\* Nothing but stop() ends the clock: until its cancel the timer is not aborted, and
\* until the end of stop() m_stop is not set.
ClockRuns ==
    /\ con # "ended" => ~m_stop
    /\ con \in {"getchar", "cancelTimer"} => timer \in {"waiting", "fired"} \/ io = "tick"

\* A read that is in progress, complete or about to be started: the chain of the port is
\* broken by the cancel and by the loss of the device, and by nothing else.
ChainRuns ==
    con \in {"getchar", "cancelTimer", "cancelPort"} /\ ~lost =>
        port \in {"reading", "read"} \/ io = "line"

IInv == TypeInv /\ ClockRuns /\ ChainRuns /\ OneOperation

\* The constructor arms the timer and starts the first read.
LEMMA InitInv == Init => IInv
BY DEF Init, IInv, TypeInv, ClockRuns, ChainRuns, OneOperation

\* The console thread cancels only what is in progress and starts nothing.
LEMMA ConsoleStep ==
  ASSUME IInv, ConsoleNext
  PROVE  IInv'
<1>1. CASE Key
  BY <1>1 DEF Key, device, IInv, TypeInv, ClockRuns, ChainRuns, OneOperation
<1>2. CASE CtrlC
  BY <1>2 DEF CtrlC, device, IInv, TypeInv, ClockRuns, ChainRuns, OneOperation
<1>3. CASE CancelTimer
  BY <1>3 DEF CancelTimer, device, IInv, TypeInv, ClockRuns, ChainRuns, OneOperation
<1>4. CASE CancelPort
  BY <1>4 DEF CancelPort, device, IInv, TypeInv, ClockRuns, ChainRuns, OneOperation
<1>5. CASE SetStop
  BY <1>5 DEF SetStop, device, IInv, TypeInv, ClockRuns, ChainRuns, OneOperation
<1>. QED
  BY <1>1, <1>2, <1>3, <1>4, <1>5 DEF ConsoleNext

\* The timer and its handler
LEMMA TimerStep ==
  ASSUME IInv, TimerFires \/ TimerExpired \/ RearmTimer
  PROVE  IInv'
<1>1. CASE TimerFires
  BY <1>1 DEF TimerFires, console, device, IInv, TypeInv, ClockRuns, ChainRuns, OneOperation
<1>2. CASE TimerExpired
  BY <1>2 DEF TimerExpired, console, device, IInv, TypeInv, ClockRuns, ChainRuns, OneOperation
<1>3. CASE RearmTimer
  BY <1>3 DEF RearmTimer, console, device, IInv, TypeInv, ClockRuns, ChainRuns, OneOperation
<1>. QED
  BY <1>1, <1>2, <1>3

\* The port and its handlers
LEMMA PortStep ==
  ASSUME IInv, PortRead \/ PortFails \/ PortEnds \/ PortMore \/ LineReceived \/ ReadLine
  PROVE  IInv'
<1>1. CASE PortRead
  BY <1>1 DEF PortRead, console, IInv, TypeInv, ClockRuns, ChainRuns, OneOperation
<1>2. CASE PortEnds
  BY <1>2 DEF PortEnds, console, device, IInv, TypeInv, ClockRuns, ChainRuns, OneOperation
<1>3. CASE PortMore
  BY <1>3 DEF PortMore, console, device, IInv, TypeInv, ClockRuns, ChainRuns, OneOperation
<1>4. CASE LineReceived
  BY <1>4 DEF LineReceived, console, device, IInv, TypeInv, ClockRuns, ChainRuns, OneOperation
<1>5. CASE ReadLine
  BY <1>5 DEF ReadLine, console, device, IInv, TypeInv, ClockRuns, ChainRuns, OneOperation
<1>6. CASE PortFails
  BY <1>6 DEF PortFails, console, device, IInv, TypeInv, ClockRuns, ChainRuns, OneOperation
<1>. QED
  BY <1>1, <1>2, <1>3, <1>4, <1>5, <1>6

\* Every step keeps the invariant.
LEMMA Inductive == IInv /\ [Next]_vars => IInv'
<1> SUFFICES ASSUME IInv, [Next]_vars PROVE IInv'
  OBVIOUS
<1>1. CASE ConsoleNext
  BY <1>1, ConsoleStep
<1>2. CASE TimerFires \/ TimerExpired \/ RearmTimer
  BY <1>2, TimerStep
<1>3. CASE PortRead \/ PortFails \/ PortEnds \/ PortMore \/ LineReceived \/ ReadLine
  BY <1>3, PortStep
<1>4. CASE SendLine \/ LoseDevice
  <2>1. UNCHANGED <<con, m_stop, timer, port, io>> /\ lost' \in BOOLEAN /\ (lost => lost')
    BY <1>4 DEF SendLine, LoseDevice, console, IInv, TypeInv
  <2>. QED
    BY <2>1 DEF IInv, TypeInv, ClockRuns, ChainRuns, OneOperation
<1>5. CASE InputHandler
  BY <1>5 DEF InputHandler, console, device, IInv, TypeInv, ClockRuns, ChainRuns, OneOperation
<1>6. CASE RunReturns
  BY <1>6 DEF RunReturns, console, device, IInv, TypeInv, ClockRuns, ChainRuns, OneOperation
<1>7. CASE UNCHANGED vars
  BY <1>7 DEF vars, IInv, TypeInv, ClockRuns, ChainRuns, OneOperation
<1>. QED
  BY <1>1, <1>2, <1>3, <1>4, <1>5, <1>6, <1>7 DEF Next, IoNext

\* The clock goes on until stop() and the chain of reads until stop() or the loss of the
\* device, one operation at a time: timerExpired and lineReceived return without starting
\* the next one for no other reason.
THEOREM Invariant == Spec => []IInv
BY InitInv, Inductive, PTL DEF Spec

\* No handler finds another operation of its object in progress, and ctx.run() returns
\* neither before Ctrl+C nor with an operation left.
THEOREM OneAlways == Spec => []OneOperation
<1>1. IInv => OneOperation
  BY DEF IInv
<1>. QED
  BY <1>1, Invariant, PTL

\* A set of natural numbers has a least one.
LEMMA Least ==
  ASSUME NEW T \in SUBSET Nat, T # {}
  PROVE  \E x \in T : \A y \in T : x <= y
<1>. DEFINE R == OpToRel(<, Nat)
<1>1. \A x, y \in Nat : y < x => <<y, x>> \in R
  BY DEF OpToRel
<1>2. IsWellFoundedOn(R, Nat)
  BY NatLessThanWellFounded
<1>. HIDE DEF R
<1>3. PICK x \in T : \A y \in T : ~(<<y, x>> \in R)
  BY <1>2, WFMin
<1>4. ASSUME NEW y \in T PROVE x <= y
  <2>1. x \in Nat /\ y \in Nat
    OBVIOUS
  <2>2. ~(y < x)
    BY <1>1, <1>3, <2>1
  <2>. QED
    BY <2>1, <2>2
<1>. QED
  BY <1>4

\* Leading counts as many tokens of S as there are.
LEMMA LeadingCount ==
  ASSUME NEW S, NEW b \in Seq(Token)
  PROVE  LET n == Leading(S, b)
         IN  /\ n \in 0..Len(b)
             /\ \A i \in 1..n : b[i] \in S
             /\ n < Len(b) => b[n + 1] \notin S
<1>. DEFINE T == {m \in 1..(Len(b) + 1) : m = Len(b) + 1 \/ b[m] \notin S}
            n == Leading(S, b)
<1>1. Len(b) \in Nat
  OBVIOUS
<1>2. T \in SUBSET Nat /\ Len(b) + 1 \in T
  BY <1>1
<1>3. PICK x \in T : \A y \in T : x <= y
  BY <1>2, Least
<1>4. /\ x - 1 \in 0..Len(b)
      /\ \A i \in 1..(x - 1) : b[i] \in S
      /\ x - 1 < Len(b) => b[(x - 1) + 1] \notin S
  BY <1>1, <1>3
<1>. QED
  BY <1>4 DEF Leading

Line(l) == /\ l \in Seq(Token) /\ l # << >>
           /\ \A i \in 1..Len(l) : l[i] = "nl" <=> i = Len(l)

\* What is left when the number is taken
Rest(b) == From(b, Len(Number(b)) + 1)

\* The rest of a buffer
LEMMA FromFacts ==
  ASSUME NEW b \in Seq(Token), NEW n \in 0..Len(b)
  PROVE  /\ From(b, n + 1) \in Seq(Token) /\ Len(From(b, n + 1)) = Len(b) - n
         /\ \A i \in 1..(Len(b) - n) : From(b, n + 1)[i] = b[n + i]
         /\ n = 0 => From(b, n + 1) = b
<1>1. Len(b) \in Nat
  OBVIOUS
<1>2. /\ From(b, n + 1) \in Seq(Token) /\ Len(From(b, n + 1)) = Len(b) - n
      /\ \A i \in 1..(Len(b) - n) : From(b, n + 1)[i] = b[n + i]
  BY <1>1, SubSeqProperties DEF From
<1>3. n = 0 => From(b, n + 1) = b
  BY <1>1, <1>2, SeqEqual
<1>. QED
  BY <1>2, <1>3

\* The number at the start of a buffer
LEMMA NumberFacts ==
  ASSUME NEW b \in Seq(Token)
  PROVE  /\ Number(b) \in Seq(Token) /\ Len(Number(b)) = Leading(Digit, b)
         /\ Number(b) = << >> <=> Leading(Digit, b) = 0
         /\ b = << >> \/ b[1] \notin Digit => Number(b) = << >>
<1>. DEFINE n == Leading(Digit, b)
<1>1. Len(b) \in Nat
  OBVIOUS
<1>2. n \in 0..Len(b) /\ \A i \in 1..n : b[i] \in Digit
  BY LeadingCount
<1>. HIDE DEF n
<1>3. Number(b) \in Seq(Token) /\ Len(Number(b)) = n
  <2>1. Number(b) = SubSeq(b, 1, n)
    BY DEF Number, n
  <2>. QED
    BY <1>1, <1>2, <2>1, SubSeqProperties
<1>4. Number(b) = << >> <=> n = 0
  BY <1>3
<1>5. b = << >> \/ b[1] \notin Digit => n = 0
  BY <1>1, <1>2
<1>. QED
  BY <1>3, <1>4, <1>5 DEF n

\* A newline is skipped, and nothing is left.
LEMMA SkipsLine ==
  ASSUME NEW l, Line(l)
  PROVE  /\ l[1] = "nl" => SkipBlank(l) = << >> /\ Number(l) = << >>
         /\ l[1] # "nl" => SkipBlank(l) = l
<1>. DEFINE n == Leading({"nl"}, l)
<1>1. l \in Seq(Token) /\ Len(l) \in Nat \ {0} /\ (l[1] = "nl" <=> Len(l) = 1)
  BY DEF Line
<1>2. /\ n \in 0..Len(l) /\ \A i \in 1..n : l[i] = "nl"
      /\ n < Len(l) => l[n + 1] # "nl"
  BY <1>1, LeadingCount
<1>3. SkipBlank(l) = From(l, n + 1)
  BY DEF SkipBlank
<1>. HIDE DEF n
<1>4. ASSUME l[1] = "nl" PROVE SkipBlank(l) = << >> /\ Number(l) = << >>
  <2>1. Len(l) = 1
    BY <1>1, <1>4
  <2>2. n # 0
    <3>1. n = 0 => l[1] # "nl"
      BY <1>2, <2>1
    <3>. QED
      BY <1>4, <3>1
  <2>3. n = 1 /\ n \in 0..Len(l)
    BY <1>2, <2>1, <2>2
  <2>4. /\ From(l, n + 1) \in Seq(Token)
        /\ Len(From(l, n + 1)) = Len(l) - n
    BY <1>1, <2>3, FromFacts
  <2>5. Len(SkipBlank(l)) = 0 /\ SkipBlank(l) \in Seq(Token)
    BY <1>3, <2>1, <2>3, <2>4
  <2>6. l[1] \notin Digit
    BY <1>4 DEF Digit
  <2>. QED
    BY <1>1, <2>5, <2>6, NumberFacts
<1>5. ASSUME l[1] # "nl" PROVE SkipBlank(l) = l
  <2>1. n = 0
    BY <1>1, <1>2, <1>5
  <2>. QED
    BY <1>1, <1>2, <1>3, <2>1, FromFacts
<1>. QED
  BY <1>4, <1>5

\* What is no number blocks the display.
LEMMA Blocks ==
  ASSUME NEW b \in Seq(Token), b # << >>, b[1] = "x"
  PROVE  SkipBlank(b) = b /\ Number(b) = << >> /\ Rest(b) = b
<1>. DEFINE n == Leading({"nl"}, b)
<1>1. Len(b) \in Nat \ {0} /\ 0 \in 0..Len(b) /\ "x" \notin Digit
  BY DEF Digit
<1>2. n \in 0..Len(b) /\ \A i \in 1..n : b[i] = "nl"
  BY LeadingCount
<1>3. SkipBlank(b) = From(b, n + 1)
  BY DEF SkipBlank
<1>. HIDE DEF n
<1>4. n = 0
  BY <1>1, <1>2
<1>5. From(b, 0 + 1) = b
  BY <1>1, FromFacts
<1>6. Number(b) = << >> /\ Len(Number(b)) = 0
  BY <1>1, NumberFacts
<1>. QED
  BY <1>3, <1>4, <1>5, <1>6 DEF Rest

\* An empty buffer stays empty.
LEMMA Empty == SkipBlank(<< >>) = << >> /\ Number(<< >>) = << >> /\ Rest(<< >>) = << >>
<1>. DEFINE n == Leading({"nl"}, << >>)
<1>1. << >> \in Seq(Token) /\ Len(<< >>) = 0
  OBVIOUS
<1>2. n \in 0..0
  BY <1>1, LeadingCount
<1>3. SkipBlank(<< >>) = From(<< >>, n + 1)
  BY DEF SkipBlank
<1>. HIDE DEF n
<1>4. From(<< >>, 0 + 1) = << >>
  <2>1. PICK e \in Seq(Token) : e = << >>
    BY <1>1
  <2>2. 0 \in 0..Len(e)
    BY <1>1, <2>1
  <2>3. From(e, 0 + 1) = e
    BY <2>2, FromFacts
  <2>. QED
    BY <2>1, <2>3
<1>5. Number(<< >>) = << >>
  BY <1>1, NumberFacts
<1>. QED
  BY <1>1, <1>2, <1>3, <1>4, <1>5 DEF Rest

Blocked(b) == /\ b \in Seq(Token) /\ b # << >> /\ b[1] = "x"
              /\ "nl" \in ToSet(b)

\* A number is taken from its line; its newline, or what blocks the display, is left.
LEMMA TakesNumber ==
  ASSUME NEW l, Line(l), l[1] \in Digit
  PROVE  /\ Number(l) # << >> /\ Number(l) # l
         /\ Rest(l) = <<"nl">> \/ Blocked(Rest(l))
<1>. DEFINE n == Leading(Digit, l)
            r == Rest(l)
<1>1. /\ l \in Seq(Token) /\ Len(l) \in Nat \ {0} /\ "nl" \notin Digit
      /\ l[Len(l)] = "nl"
  BY DEF Line, Digit
<1>2. /\ n \in 0..Len(l) /\ \A i \in 1..n : l[i] \in Digit
      /\ n < Len(l) => l[n + 1] \notin Digit
  BY <1>1, LeadingCount
<1>3. /\ Number(l) \in Seq(Token) /\ Len(Number(l)) = n
      /\ Number(l) = << >> <=> n = 0
  BY <1>1, NumberFacts
<1>. HIDE DEF n
<1>4. n \in 1..(Len(l) - 1)
  BY <1>1, <1>2
<1>5. Number(l) # << >> /\ Number(l) # l
  BY <1>1, <1>3, <1>4
<1>6. r = From(l, n + 1)
  BY <1>3 DEF Rest
<1>. HIDE DEF r
<1>7. /\ r \in Seq(Token) /\ Len(r) = Len(l) - n
      /\ \A i \in 1..(Len(l) - n) : r[i] = l[n + i]
  BY <1>1, <1>2, <1>6, FromFacts
<1>8. /\ Len(l) - n \in 1..(Len(l) - n) /\ 1 \in 1..(Len(l) - n) /\ n + (Len(l) - n) = Len(l)
      /\ n + 1 \in 1..Len(l)
  BY <1>1, <1>4
<1>9. r[1] = l[n + 1] /\ r[Len(r)] = "nl" /\ r # << >>
  BY <1>1, <1>7, <1>8
<1>10. CASE l[n + 1] = "nl"
  <2>1. n + 1 = Len(l)
    BY <1>8, <1>10 DEF Line
  <2>2. Len(r) = 1 /\ r[1] = "nl"
    BY <1>1, <1>4, <1>7, <1>9, <1>10, <2>1
  <2>3. r = <<"nl">>
    <3>1. <<"nl">> \in Seq(Token) /\ Len(<<"nl">>) = 1 /\ <<"nl">>[1] = "nl"
      BY DEF Token
    <3>2. PICK e \in Seq(Token) : e = <<"nl">> /\ Len(e) = 1 /\ e[1] = "nl"
      BY <3>1
    <3>3. r \in Seq(Token) /\ Len(r) = Len(e)
      BY <1>7, <2>2, <3>2
    <3>4. \A i \in 1..Len(r) : r[i] = e[i]
      BY <2>2, <3>2
    <3>5. r = e
      BY <3>3, <3>4, SeqEqual
    <3>. QED
      BY <3>2, <3>5
  <2>. QED
    BY <1>5, <2>3 DEF r
<1>11. CASE l[n + 1] # "nl"
  <2>1. l[n + 1] = "x"
    <3>1. l[n + 1] \in Token \ Digit
      BY <1>1, <1>2, <1>4, <1>8
    <3>. QED
      BY <1>11, <3>1 DEF Token, Digit
  <2>2. "nl" \in ToSet(r)
    BY <1>7, <1>8, <1>9 DEF ToSet
  <2>3. Blocked(r)
    BY <1>7, <1>9, <2>1, <2>2 DEF Blocked
  <2>. QED
    BY <1>5, <2>3 DEF r
<1>. QED
  BY <1>10, <1>11

\* The lines with a number, counted
LEMMA NumberedCount ==
  ASSUME NEW n \in Nat
  PROVE  /\ IsFiniteSet(Numbered(n)) /\ Cardinality(Numbered(n)) \in Nat
         /\ \A i \in Numbered(n) : Cardinality(Numbered(i)) \in 1..Cardinality(Numbered(n))
<1>1. ASSUME NEW i \in Nat PROVE IsFiniteSet(Numbered(i)) /\ Cardinality(Numbered(i)) \in Nat
  <2>1. IsFiniteSet(1..i)
    BY FS_Interval
  <2>2. Numbered(i) \in SUBSET (1..i)
    BY DEF Numbered
  <2>. QED
    BY <2>1, <2>2, FS_Subset, FS_CardinalityType
<1>2. ASSUME NEW i \in Numbered(n)
      PROVE  Cardinality(Numbered(i)) \in 1..Cardinality(Numbered(n))
  <2>1. i \in Nat /\ Numbered(i) \in SUBSET Numbered(n) /\ i \in Numbered(i)
    BY DEF Numbered
  <2>2. Cardinality(Numbered(i)) <= Cardinality(Numbered(n))
    BY <1>1, <2>1, FS_Subset
  <2>3. Cardinality(Numbered(i)) # 0
    BY <1>1, <2>1, FS_EmptySet
  <2>. QED
    BY <1>1, <2>1, <2>2, <2>3
<1>. QED
  BY <1>1, <1>2

\* One more line
LEMMA OneMoreLine ==
  ASSUME NEW n \in Nat
  PROVE  /\ Number(sent[n + 1]) = << >> => Numbered(n + 1) = Numbered(n)
         /\ Number(sent[n + 1]) # << >> =>
               /\ Numbered(n + 1) = Numbered(n) \cup {n + 1}
               /\ Cardinality(Numbered(n + 1)) = Cardinality(Numbered(n)) + 1
<1>1. \A i \in 1..(n + 1) : i \in 1..n \/ i = n + 1
  OBVIOUS
<1>2. Number(sent[n + 1]) = << >> => Numbered(n + 1) = Numbered(n)
  BY <1>1 DEF Numbered
<1>3. Number(sent[n + 1]) # << >> => Numbered(n + 1) = Numbered(n) \cup {n + 1}
  BY <1>1 DEF Numbered
<1>4. n + 1 \notin Numbered(n)
  BY DEF Numbered
<1>. QED
  BY <1>2, <1>3, <1>4, NumberedCount, FS_AddElement

\* The lines that are displayed stay so.
LEMMA StaysDisplayed ==
  ASSUME NEW n \in Nat, Displayed(n), shown' = shown, \A i \in 1..n : sent'[i] = sent[i]
  PROVE  Displayed(n)'
<1>1. ASSUME NEW i \in 0..n PROVE Numbered(i)' = Numbered(i)
  BY DEF Numbered
<1>2. Numbered(n)' = Numbered(n) /\ \A i \in Numbered(n) : i \in 1..n /\ Numbered(i)' = Numbered(i)
  BY <1>1 DEF Numbered
<1>3. \A i \in Numbered(n) : Number(sent[i])' = Number(sent[i])
  BY <1>2
<1>4. Len(shown') = Cardinality(Numbered(n)')
  BY <1>2 DEF Displayed
<1>5. ASSUME NEW i \in Numbered(n)' PROVE shown'[Cardinality(Numbered(i)')] = Number(sent'[i])
  BY <1>2, <1>3, <1>5 DEF Displayed
<1>. QED
  BY <1>4, <1>5 DEF Displayed

\* The number of the next line is displayed behind them.
LEMMA DisplaysNext ==
  ASSUME NEW n \in Nat, Displayed(n), shown \in Seq(Seq(Token)), sent' = sent,
         NEW v \in Seq(Token), v = Number(sent[n + 1]),
         shown' = IF v # << >> THEN Append(shown, v) ELSE shown
  PROVE  Displayed(n + 1)' /\ shown' \in Seq(Seq(Token))
<1>. DEFINE c == Cardinality(Numbered(n))
<1>1. \A i : Numbered(i)' = Numbered(i)
  BY DEF Numbered
<1>2. c \in Nat /\ Len(shown) = c /\ \A i \in Numbered(n) : Cardinality(Numbered(i)) \in 1..c
  BY NumberedCount DEF Displayed
<1>3. CASE v = << >>
  <2>1. Numbered(n + 1) = Numbered(n) /\ shown' = shown
    BY <1>3, OneMoreLine
  <2>. QED
    BY <1>1, <2>1 DEF Displayed
<1>4. CASE v # << >>
  <2>1. /\ Numbered(n + 1) = Numbered(n) \cup {n + 1}
        /\ Cardinality(Numbered(n + 1)) = c + 1
        /\ shown' = Append(shown, v)
    BY <1>4, OneMoreLine
  <2>2. shown' \in Seq(Seq(Token)) /\ Len(shown') = c + 1 /\ shown'[c + 1] = v
    BY <1>2, <2>1
  <2>3. ASSUME NEW i \in Numbered(n + 1) PROVE shown'[Cardinality(Numbered(i))] = Number(sent[i])
    <3>1. CASE i = n + 1
      BY <2>1, <2>2, <3>1
    <3>2. CASE i \in Numbered(n)
      <4>1. Cardinality(Numbered(i)) \in 1..Len(shown)
        BY <1>2, <3>2
      <4>2. shown'[Cardinality(Numbered(i))] = shown[Cardinality(Numbered(i))]
        BY <2>1, <4>1
      <4>. QED
        BY <3>2, <4>2 DEF Displayed
    <3>. QED
      BY <2>1, <3>1, <3>2
  <2>. QED
    BY <1>1, <2>1, <2>2, <2>3 DEF Displayed
<1>. QED
  BY <1>3, <1>4

\* The first k lines have been read; line i of the others ends at position p[i] of
\* the wire.
Before(k, p) ==
    /\ p[k] = 0 /\ Len(wire) = p[Len(sent)]
    /\ \A i, j \in k..Len(sent) : i <= j => p[i] <= p[j]
    /\ \A i \in (k + 1)..Len(sent) :
         /\ p[i] = p[i - 1] + Len(sent[i])
         /\ \A j \in 1..Len(sent[i]) : wire[p[i - 1] + j] = sent[i][j]

\* The lines are those of the device.
LEMMA AnyLine == ASSUME sent \in Seq(Lines), NEW i \in 1..Len(sent) PROVE Line(sent[i])
<1>1. sent[i] \in Lines
  OBVIOUS
<1>. QED
  BY <1>1, LinesAssumption DEF Line

\* One more line is sent.
LEMMA SendsBefore ==
  ASSUME sent \in Seq(Lines), wire \in Seq(Token), NEW k \in 0..Len(sent),
         NEW p \in [k..Len(sent) -> Nat], Before(k, p),
         NEW l, Line(l), sent' = Append(sent, l), wire' = wire \o l
  PROVE  \E q \in [k..Len(sent') -> Nat] : Before(k, q)'
<1>. DEFINE n == Len(sent)
<1>1. /\ n \in Nat /\ k \in 0..n /\ Len(wire) \in Nat
      /\ l \in Seq(Token) /\ Len(l) \in Nat
  BY DEF Line
<1>2. /\ Len(sent') = n + 1 /\ sent'[n + 1] = l /\ \A i \in 1..n : sent'[i] = sent[i]
  BY <1>1
<1>3. /\ Len(wire') = Len(wire) + Len(l)
      /\ \A i \in 1..Len(wire) : wire'[i] = wire[i]
      /\ \A i \in 1..Len(l) : wire'[Len(wire) + i] = l[i]
  BY <1>1
<1>4. PICK q \in [k..(n + 1) -> Nat] :
           /\ \A i \in k..n : q[i] = p[i] /\ p[i] \in Nat
           /\ q[n + 1] = Len(wire) + Len(l) /\ p[n] = Len(wire)
  <2>. DEFINE r == [i \in k..(n + 1) |-> IF i <= n THEN p[i] ELSE Len(wire) + Len(l)]
  <2>1. ASSUME NEW i \in k..n PROVE r[i] = p[i] /\ p[i] \in Nat
    <3>1. i \in k..(n + 1) /\ i <= n
      BY <1>1
    <3>. QED
      BY <3>1
  <2>2. r[n + 1] = Len(wire) + Len(l) /\ p[n] = Len(wire)
    BY <1>1 DEF Before
  <2>3. r \in [k..(n + 1) -> Nat]
    BY <1>1
  <2>. QED
    BY <2>1, <2>2, <2>3
<1>6. q[k] = 0 /\ Len(wire') = q[Len(sent')]
  BY <1>1, <1>2, <1>3, <1>4 DEF Before
<1>7. ASSUME NEW i \in k..(n + 1), NEW j \in k..(n + 1), i <= j PROVE q[i] <= q[j]
  <2>1. CASE j <= n
    <3>1. i \in k..n /\ j \in k..n
      BY <1>1, <1>7, <2>1
    <3>. QED
      BY <1>4, <1>7, <3>1 DEF Before
  <2>2. CASE j = n + 1 /\ i <= n
    <3>1. p[i] <= p[n]
      BY <1>1, <2>2 DEF Before
    <3>. QED
      BY <1>1, <1>4, <2>2, <3>1
  <2>3. CASE i = n + 1 /\ j = n + 1
    BY <1>1, <1>4, <2>3
  <2>. QED
    BY <1>1, <1>7, <2>1, <2>2, <2>3
<1>8. ASSUME NEW i \in (k + 1)..(n + 1)
      PROVE  /\ q[i] = q[i - 1] + Len(sent'[i])
             /\ \A j \in 1..Len(sent'[i]) : wire'[q[i - 1] + j] = sent'[i][j]
  <2>1. CASE i <= n
    <3>1. /\ i \in (k + 1)..n /\ i - 1 \in k..n /\ i \in k..n /\ i \in 1..n
      BY <1>1, <2>1
    <3>2. /\ p[i] = p[i - 1] + Len(sent[i]) /\ p[i] <= p[n]
          /\ \A j \in 1..Len(sent[i]) : wire[p[i - 1] + j] = sent[i][j]
      BY <1>1, <3>1 DEF Before
    <3>3. q[i] = p[i] /\ q[i - 1] = p[i - 1] /\ p[i] \in Nat /\ p[i - 1] \in Nat
      BY <1>4, <3>1
    <3>4. Len(sent[i]) \in Nat /\ sent'[i] = sent[i]
      BY <1>2, <3>1, AnyLine DEF Line
    <3>5. ASSUME NEW j \in 1..Len(sent[i]) PROVE wire'[p[i - 1] + j] = wire[p[i - 1] + j]
      <4>1. PICK a \in Nat, c \in Nat : a = p[i - 1] /\ c = Len(sent[i])
        BY <3>3, <3>4
      <4>2. a + c <= Len(wire) /\ j \in 1..c
        BY <1>4, <3>2, <4>1
      <4>3. a + j \in 1..Len(wire)
        BY <1>1, <4>2
      <4>. QED
        BY <1>3, <4>1, <4>3
    <3>. QED
      BY <3>2, <3>3, <3>4, <3>5
  <2>2. CASE i = n + 1
    <3>1. i - 1 = n /\ n \in k..n
      BY <1>1, <2>2
    <3>2. q[i - 1] = Len(wire) /\ q[i] = Len(wire) + Len(l) /\ sent'[i] = l
      BY <1>2, <1>4, <2>2, <3>1
    <3>. QED
      BY <1>3, <3>2
  <2>3. i <= n \/ i = n + 1
    BY <1>1
  <2>. QED
    BY <2>1, <2>2, <2>3
<1>9. Before(k, q)'
  <2>1. Len(sent') = n + 1
    BY <1>2
  <2>2. \A i, j \in k..Len(sent') : i <= j => q[i] <= q[j]
    BY <1>7, <2>1
  <2>3. \A i \in (k + 1)..Len(sent') :
           /\ q[i] = q[i - 1] + Len(sent'[i])
           /\ \A j \in 1..Len(sent'[i]) : wire'[q[i - 1] + j] = sent'[i][j]
    BY <1>8, <2>1
  <2>. QED
    BY <1>6, <2>2, <2>3 DEF Before
<1>. QED
  BY <1>2, <1>9

\* The next line is read, up to its newline.
LEMMA ReadsBefore ==
  ASSUME sent \in Seq(Lines), wire \in Seq(Token), NEW k \in 0..Len(sent),
         NEW p \in [k..Len(sent) -> Nat], Before(k, p),
         NEW n \in 1..Len(wire), wire[n] = "nl", \A i \in 1..(n - 1) : wire[i] # "nl",
         sent' = sent, wire' = SubSeq(wire, n + 1, Len(wire))
  PROVE  /\ k + 1 \in 1..Len(sent) /\ SubSeq(wire, 1, n) = sent[k + 1]
         /\ \E q \in [(k + 1)..Len(sent') -> Nat] : Before(k + 1, q)'
<1>. DEFINE m == Len(sent)
<1>0. PICK l : l = sent[k + 1]
  OBVIOUS
<1>1. m \in Nat /\ k \in 0..m /\ Len(wire) \in Nat /\ p[k] = 0 /\ Len(wire) = p[m]
  BY DEF Before
<1>2. k + 1 \in 1..m
  BY <1>1
<1>3. /\ k + 1 \in (k + 1)..m /\ (k + 1) - 1 = k /\ k + 1 \in k..m
      /\ \A i \in k..m : p[i] \in Nat /\ p[i] <= Len(wire)
  <2>1. k + 1 \in (k + 1)..m /\ (k + 1) - 1 = k /\ k + 1 \in k..m /\ m \in k..m
    BY <1>1, <1>2
  <2>2. ASSUME NEW i \in k..m PROVE p[i] \in Nat /\ p[i] <= Len(wire)
    <3>1. i <= m
      BY <1>1
    <3>2. p[i] <= p[m]
      BY <2>1, <3>1 DEF Before
    <3>. QED
      BY <1>1, <3>2
  <2>. QED
    BY <2>1, <2>2
<1>4. /\ p[k + 1] = Len(l) /\ \A j \in 1..Len(l) : wire[j] = l[j]
      /\ Line(l) /\ l \in Seq(Token) /\ Len(l) \in Nat \ {0}
  <2>1. p[k + 1] = p[k] + Len(l) /\ \A j \in 1..Len(l) : wire[p[k] + j] = l[j]
    <3>1. /\ p[k + 1] = p[(k + 1) - 1] + Len(sent[k + 1])
          /\ \A j \in 1..Len(sent[k + 1]) : wire[p[(k + 1) - 1] + j] = sent[k + 1][j]
      BY <1>3 DEF Before
    <3>. QED
      BY <1>0, <1>3, <3>1
  <2>2. Line(l) /\ l \in Seq(Token) /\ Len(l) \in Nat \ {0}
    BY <1>2, <1>0, AnyLine DEF Line
  <2>. QED
    BY <1>1, <2>1, <2>2
<1>5. n = Len(l)
  <2>1. l[Len(l)] = "nl" /\ \A j \in 1..(Len(l) - 1) : l[j] # "nl"
    BY <1>4 DEF Line
  <2>2. ~(n < Len(l))
    <3>1. n < Len(l) => n \in 1..(Len(l) - 1) /\ n \in 1..Len(l)
      BY <1>1, <1>4
    <3>. QED
      BY <1>4, <2>1, <3>1
  <2>3. ~(Len(l) < n)
    <3>1. Len(l) < n => Len(l) \in 1..(n - 1) /\ Len(l) \in 1..Len(l)
      BY <1>1, <1>4
    <3>. QED
      BY <1>4, <2>1, <3>1
  <2>. QED
    BY <1>1, <1>4, <2>2, <2>3
<1>6. SubSeq(wire, 1, n) = l
  <2>1. /\ SubSeq(wire, 1, n) \in Seq(Token) /\ Len(SubSeq(wire, 1, n)) = n
        /\ \A i \in 1..n : SubSeq(wire, 1, n)[i] = wire[i]
    BY <1>1, SubSeqProperties
  <2>. QED
    BY <1>4, <1>5, <2>1, SeqEqual
<1>7. /\ Len(wire') = Len(wire) - n
      /\ \A i \in 1..(Len(wire) - n) : wire'[i] = wire[n + i]
  BY <1>1
<1>8. ASSUME NEW i \in (k + 1)..m
      PROVE  p[i] \in Nat /\ n <= p[i] /\ p[i] <= Len(wire) /\ p[i] - n \in Nat
  <2>1. i \in k..m /\ k + 1 <= i
    BY <1>1
  <2>2. p[k + 1] <= p[i]
    BY <1>3, <2>1 DEF Before
  <2>3. p[i] \in Nat /\ n <= p[i] /\ p[i] <= Len(wire)
    BY <1>3, <1>4, <1>5, <2>1, <2>2
  <2>. QED
    BY <1>1, <2>3
<1>9. PICK q \in [(k + 1)..m -> Nat] : \A i \in (k + 1)..m : q[i] = p[i] - n
  <2>. DEFINE r == [i \in (k + 1)..m |-> p[i] - n]
  <2>1. r \in [(k + 1)..m -> Nat] /\ \A i \in (k + 1)..m : r[i] = p[i] - n
    BY <1>8
  <2>. QED
    BY <2>1
<1>10. q[k + 1] = 0 /\ Len(wire') = q[m]
  <2>1. m \in (k + 1)..m
    BY <1>1, <1>2
  <2>2. q[k + 1] = p[k + 1] - n /\ q[m] = p[m] - n
    BY <1>3, <1>9, <2>1
  <2>. QED
    BY <1>1, <1>4, <1>5, <1>7, <2>2
<1>11. ASSUME NEW i \in (k + 1)..m, NEW j \in (k + 1)..m, i <= j PROVE q[i] <= q[j]
  <2>1. i \in k..m /\ j \in k..m
    BY <1>1
  <2>2. p[i] <= p[j]
    BY <1>11, <2>1 DEF Before
  <2>3. p[i] \in Nat /\ p[j] \in Nat /\ q[i] = p[i] - n /\ q[j] = p[j] - n
    BY <1>8, <1>9
  <2>. QED
    BY <1>1, <2>2, <2>3
<1>12. ASSUME NEW i \in (k + 2)..m
       PROVE  /\ q[i] = q[i - 1] + Len(sent[i])
              /\ \A j \in 1..Len(sent[i]) : wire'[q[i - 1] + j] = sent[i][j]
  <2>1. i \in (k + 1)..m /\ i - 1 \in (k + 1)..m /\ i \in 1..m
    BY <1>1
  <2>2. /\ p[i] = p[i - 1] + Len(sent[i])
        /\ \A j \in 1..Len(sent[i]) : wire[p[i - 1] + j] = sent[i][j]
    BY <2>1 DEF Before
  <2>3. Len(sent[i]) \in Nat
    BY <2>1, AnyLine DEF Line
  <2>4. q[i] = p[i] - n /\ q[i - 1] = p[i - 1] - n /\ n <= p[i - 1] /\ p[i] <= Len(wire)
        /\ p[i - 1] \in Nat /\ p[i] \in Nat
    BY <1>8, <1>9, <2>1
  <2>5. ASSUME NEW j \in 1..Len(sent[i]) PROVE wire'[q[i - 1] + j] = wire[p[i - 1] + j]
    <3>1. PICK a \in Nat, c \in Nat : a = p[i - 1] /\ c = Len(sent[i])
      BY <2>3, <2>4
    <3>2. a + c <= Len(wire) /\ n <= a /\ q[i - 1] = a - n /\ j \in 1..c
      BY <2>2, <2>4, <3>1
    <3>3. q[i - 1] + j \in 1..(Len(wire) - n) /\ n + (q[i - 1] + j) = a + j
      BY <1>1, <3>2
    <3>. QED
      BY <1>7, <3>1, <3>3
  <2>6. q[i] = q[i - 1] + Len(sent[i])
    <3>1. PICK a \in Nat, c \in Nat, d \in Nat : a = p[i - 1] /\ c = Len(sent[i]) /\ d = n
      BY <1>1, <2>3, <2>4
    <3>2. q[i] = (a + c) - d /\ q[i - 1] = a - d
      BY <2>2, <2>4, <3>1
    <3>3. (a + c) - d = (a - d) + c
      BY <3>1
    <3>. QED
      BY <3>1, <3>2, <3>3
  <2>. QED
    BY <2>2, <2>5, <2>6
<1>13. (k + 1) + 1 = k + 2
  BY <1>1
<1>14. Before(k + 1, q)'
  <2>1. Len(sent') = m
    OBVIOUS
  <2>2. q[k + 1] = 0 /\ Len(wire') = q[Len(sent')]
    BY <1>10, <2>1
  <2>3. \A i, j \in (k + 1)..Len(sent') : i <= j => q[i] <= q[j]
    BY <1>11, <2>1
  <2>4. \A i \in ((k + 1) + 1)..Len(sent') :
           /\ q[i] = q[i - 1] + Len(sent'[i])
           /\ \A j \in 1..Len(sent'[i]) : wire'[q[i - 1] + j] = sent'[i][j]
    <3>1. ((k + 1) + 1)..Len(sent') = (k + 2)..m
      BY <1>13, <2>1
    <3>. QED
      BY <1>12, <3>1
  <2>. QED
    BY <2>2, <2>3, <2>4 DEF Before
<1>. QED
  BY <1>2, <1>6, <1>14, <1>0

\* What the buffer holds when k lines have been read: nothing, the newline behind a
\* number, what blocks the display, or the last of these lines.  A read starts
\* when it holds no newline.
Stage(k) ==
    \/ m_serialData = << >> /\ Displayed(k)
    \/ port # "reading" /\ m_serialData = <<"nl">> /\ Displayed(k)
    \/ port # "reading" /\ Blocked(m_serialData) /\ Displayed(k)
    \/ port = "read" /\ k >= 1 /\ m_serialData = sent[k] /\ Displayed(k - 1)

FlowInv ==
    whole =>
        /\ sent \in Seq(Lines) /\ wire \in Seq(Token) /\ shown \in Seq(Seq(Token))
        /\ \E k \in 0..Len(sent) :
             (\E p \in [k..Len(sent) -> Nat] : Before(k, p)) /\ Stage(k)

\* What the service starts with
LEMMA FlowInit == Init => FlowInv
<1>1. SUFFICES ASSUME Init PROVE FlowInv
  OBVIOUS
<1>2. sent = << >> /\ wire = << >> /\ shown = << >> /\ m_serialData = << >>
  BY <1>1 DEF Init
<1>3. Len(sent) = 0 /\ Len(wire) = 0 /\ Len(shown) = 0
  BY <1>2
<1>4. Displayed(0)
  <2>1. Numbered(0) = {}
    BY DEF Numbered
  <2>. QED
    BY <1>3, <2>1, FS_EmptySet DEF Displayed
<1>5. Stage(0)
  BY <1>2, <1>4 DEF Stage
<1>6. \E p \in [0..Len(sent) -> Nat] : Before(0, p)
  <2>. DEFINE p == [i \in 0..Len(sent) |-> 0]
  <2>1. p \in [0..Len(sent) -> Nat] /\ \A i \in 0..Len(sent) : p[i] = 0
    OBVIOUS
  <2>2. \A i \in (0 + 1)..Len(sent) : FALSE
    BY <1>3
  <2>3. Before(0, p)
    BY <1>3, <2>1, <2>2 DEF Before
  <2>. QED
    BY <2>1, <2>3
<1>7. 0 \in 0..Len(sent) /\ sent \in Seq(Lines) /\ wire \in Seq(Token) /\ shown \in Seq(Seq(Token))
  BY <1>2
<1>8. \E k \in 0..Len(sent) : (\E p \in [k..Len(sent) -> Nat] : Before(k, p)) /\ Stage(k)
  BY <1>5, <1>6, <1>7
<1>. QED
  BY <1>7, <1>8 DEF FlowInv

\* A whole line has its newline.
LEMMA LineHasLine ==
  /\ \A l : Line(l) => "nl" \in ToSet(l)
  /\ "nl" \in ToSet(<<"nl">>) /\ "nl" \notin ToSet(<< >>)
<1>1. ASSUME NEW l, Line(l) PROVE "nl" \in ToSet(l)
  <2>1. l \in Seq(Token) /\ Len(l) \in 1..Len(l) /\ l[Len(l)] = "nl"
    BY <1>1 DEF Line
  <2>. QED
    BY <2>1 DEF ToSet
<1>2. "nl" \in ToSet(<<"nl">>)
  <2>1. 1 \in DOMAIN <<"nl">> /\ <<"nl">>[1] = "nl"
    OBVIOUS
  <2>. QED
    BY <2>1 DEF ToSet
<1>3. "nl" \notin ToSet(<< >>)
  BY DEF ToSet
<1>. QED
  BY <1>1, <1>2, <1>3

\* The steps that leave the buffer alone
LEMMA FlowStays ==
  ASSUME FlowInv, UNCHANGED <<sent, wire, shown, m_serialData, whole>>,
         port' = "reading" => port = "reading" \/ ~HasLine,
         port = "read" => port' = "read" \/ ~HasLine
  PROVE  FlowInv'
<1>1. SUFFICES ASSUME whole PROVE FlowInv'
  BY DEF FlowInv
<1>2. PICK k \in 0..Len(sent) : (\E p \in [k..Len(sent) -> Nat] : Before(k, p)) /\ Stage(k)
  BY <1>1 DEF FlowInv
<1>3. \E p \in [k..Len(sent') -> Nat] : Before(k, p)'
  BY <1>2 DEF Before
<1>4. \A n : Displayed(n) => Displayed(n)'
  BY DEF Displayed, Numbered
<1>5. Stage(k)'
  <2>1. CASE m_serialData = << >> /\ Displayed(k)
    BY <1>4, <2>1 DEF Stage
  <2>2. CASE port # "reading" /\ m_serialData = <<"nl">> /\ Displayed(k)
    <3>1. HasLine
      BY <2>2, LineHasLine DEF HasLine
    <3>. QED
      BY <1>4, <2>2, <3>1 DEF Stage
  <2>3. CASE port # "reading" /\ Blocked(m_serialData) /\ Displayed(k)
    <3>1. HasLine /\ Blocked(m_serialData')
      BY <2>3 DEF HasLine, Blocked
    <3>. QED
      BY <1>4, <2>3, <3>1 DEF Stage
  <2>4. CASE port = "read" /\ k >= 1 /\ m_serialData = sent[k] /\ Displayed(k - 1)
    <3>1. Line(sent[k])
      <4>1. k \in 1..Len(sent)
        BY <1>2, <2>4
      <4>. QED
        BY <1>1, <4>1, AnyLine DEF FlowInv
    <3>2. HasLine
      BY <2>4, <3>1, LineHasLine DEF HasLine
    <3>. QED
      BY <1>4, <2>4, <3>2 DEF Stage
  <2>. QED
    BY <1>2, <2>1, <2>2, <2>3, <2>4 DEF Stage
<1>. QED
  BY <1>1, <1>2, <1>3, <1>5 DEF FlowInv

\* The device sends a line.
LEMMA FlowSends == ASSUME FlowInv, SendLine PROVE FlowInv'
<1>1. SUFFICES ASSUME whole PROVE FlowInv'
  BY DEF FlowInv, SendLine
<1>2. PICK l \in Lines : sent' = Append(sent, l) /\ wire' = wire \o l
  BY DEF SendLine
<1>3. UNCHANGED <<port, m_serialData, whole, shown>>
  BY DEF SendLine
<1>4. PICK k \in 0..Len(sent) : (\E p \in [k..Len(sent) -> Nat] : Before(k, p)) /\ Stage(k)
  BY <1>1 DEF FlowInv
<1>5. sent \in Seq(Lines) /\ wire \in Seq(Token) /\ shown \in Seq(Seq(Token)) /\ Line(l)
  BY <1>1, LinesAssumption DEF FlowInv, Line
<1>6. \E q \in [k..Len(sent') -> Nat] : Before(k, q)'
  BY <1>2, <1>4, <1>5, SendsBefore
<1>7. /\ sent' \in Seq(Lines) /\ wire' \in Seq(Token) /\ shown' \in Seq(Seq(Token))
      /\ k \in 0..Len(sent') /\ \A i \in 1..Len(sent) : sent'[i] = sent[i]
  BY <1>2, <1>3, <1>4, <1>5 DEF Line
<1>8. ASSUME NEW n \in 0..Len(sent), Displayed(n) PROVE Displayed(n)'
  <2>1. \A i \in 1..n : sent'[i] = sent[i]
    BY <1>5, <1>7
  <2>. QED
    BY <1>3, <1>8, <2>1, StaysDisplayed
<1>9. Stage(k)'
  <2>1. CASE /\ Displayed(k)
             /\ \/ m_serialData = << >>
                \/ port # "reading" /\ m_serialData = <<"nl">>
                \/ port # "reading" /\ Blocked(m_serialData)
    <3>1. Displayed(k)'
      BY <1>4, <1>8, <2>1
    <3>2. \/ m_serialData' = << >>
          \/ port' # "reading" /\ m_serialData' = <<"nl">>
          \/ port' # "reading" /\ Blocked(m_serialData)'
      BY <1>3, <2>1 DEF Blocked
    <3>. QED
      BY <3>1, <3>2 DEF Stage
  <2>2. CASE port = "read" /\ k >= 1 /\ m_serialData = sent[k] /\ Displayed(k - 1)
    <3>1. k - 1 \in 0..Len(sent) /\ k \in 1..Len(sent)
      BY <1>4, <1>5, <2>2
    <3>. QED
      BY <1>3, <1>7, <1>8, <2>2, <3>1 DEF Stage
  <2>. QED
    BY <1>4, <2>1, <2>2 DEF Stage
<1>. QED
  BY <1>6, <1>7, <1>9 DEF FlowInv

\* The port reads a line, up to its newline.
LEMMA FlowReads == ASSUME FlowInv, PortRead PROVE FlowInv'
<1>1. SUFFICES ASSUME whole PROVE FlowInv'
  BY DEF FlowInv, PortRead, device
<1>2. PICK n \in 1..Len(wire) :
         /\ wire[n] = "nl" /\ "nl" \notin ToSet(SubSeq(wire, 1, n - 1))
         /\ m_serialData' = m_serialData \o SubSeq(wire, 1, n)
         /\ wire' = SubSeq(wire, n + 1, Len(wire))
  BY <1>1 DEF PortRead
<1>3. port = "reading" /\ port' = "read" /\ UNCHANGED <<sent, shown, whole>>
  BY DEF PortRead
<1>4. sent \in Seq(Lines) /\ wire \in Seq(Token) /\ shown \in Seq(Seq(Token)) /\ Len(wire) \in Nat
  BY <1>1 DEF FlowInv
<1>5. PICK k \in 0..Len(sent) : (\E p \in [k..Len(sent) -> Nat] : Before(k, p)) /\ Stage(k)
  BY <1>1 DEF FlowInv
<1>6. PICK p \in [k..Len(sent) -> Nat] : Before(k, p)
  BY <1>5
<1>7. m_serialData = << >> /\ Displayed(k)
  BY <1>3, <1>5 DEF Stage
<1>8. ASSUME NEW i \in 1..(n - 1) PROVE wire[i] # "nl"
  <2>1. /\ Len(SubSeq(wire, 1, n - 1)) = n - 1 /\ SubSeq(wire, 1, n - 1)[i] = wire[i]
        /\ SubSeq(wire, 1, n - 1) \in Seq(Token)
    BY <1>4
  <2>2. i \in DOMAIN SubSeq(wire, 1, n - 1)
    BY <2>1
  <2>. QED
    BY <1>2, <2>1, <2>2 DEF ToSet
<1>9. /\ k + 1 \in 1..Len(sent) /\ SubSeq(wire, 1, n) = sent[k + 1]
      /\ \E q \in [(k + 1)..Len(sent') -> Nat] : Before(k + 1, q)'
  BY <1>2, <1>3, <1>4, <1>6, <1>8, ReadsBefore
<1>10. m_serialData' = sent'[k + 1]
  <2>1. SubSeq(wire, 1, n) \in Seq(Token)
    BY <1>4
  <2>. QED
    BY <1>2, <1>3, <1>7, <1>9, <2>1
<1>11. Displayed(k)'
  BY <1>3, <1>7 DEF Displayed, Numbered
<1>12. (k + 1) - 1 = k /\ k + 1 >= 1 /\ k + 1 \in 0..Len(sent')
  BY <1>3, <1>9
<1>13. Stage(k + 1)'
  BY <1>3, <1>10, <1>11, <1>12 DEF Stage
<1>14. wire' \in Seq(Token)
  BY <1>2, <1>4
<1>. QED
  BY <1>3, <1>4, <1>9, <1>12, <1>13, <1>14 DEF FlowInv

\* lineReceived takes the number of a line, the newline behind it, or nothing.
LEMMA FlowReceives == ASSUME FlowInv, LineReceived PROVE FlowInv'
<1>1. SUFFICES ASSUME whole PROVE FlowInv'
  BY DEF FlowInv, LineReceived, device
<1>. DEFINE d == m_serialData
            b == SkipBlank(m_serialData)
<1>2. /\ m_serialData' = Rest(b)
      /\ shown' = IF Good(b) THEN Append(shown, Number(b)) ELSE shown
  BY DEF LineReceived, Rest
<1>3. /\ port = "read" /\ port' = "none" /\ HasLine
      /\ UNCHANGED <<sent, wire, whole>>
  BY DEF LineReceived, device
<1>4. sent \in Seq(Lines) /\ wire \in Seq(Token) /\ shown \in Seq(Seq(Token))
  BY <1>1 DEF FlowInv
<1>5. PICK k \in 0..Len(sent) : (\E p \in [k..Len(sent) -> Nat] : Before(k, p)) /\ Stage(k)
  BY <1>1 DEF FlowInv
<1>6. \E p \in [k..Len(sent') -> Nat] : Before(k, p)'
  BY <1>3, <1>5 DEF Before
<1>7. Number(b) = << >> => shown' = shown
  BY <1>2 DEF Good
<1>8. shown' = shown /\ Displayed(k) => Displayed(k)'
  BY <1>3 DEF Displayed, Numbered
<1>9. SUFFICES Stage(k)' /\ shown' \in Seq(Seq(Token))
  BY <1>3, <1>4, <1>6 DEF FlowInv
<1>10. d # << >>
  BY <1>3, LineHasLine DEF HasLine
<1>11. CASE d = <<"nl">> /\ Displayed(k)
  <2>1. Line(<<"nl">>) /\ <<"nl">>[1] = "nl"
    <3>1. <<"nl">> \in Seq(Token) /\ <<"nl">> # << >> /\ Len(<<"nl">>) = 1 /\ <<"nl">>[1] = "nl"
      BY DEF Token
    <3>. QED
      BY <3>1 DEF Line
  <2>2. PICK l : l = <<"nl">> /\ Line(l) /\ l[1] = "nl"
    BY <2>1
  <2>3. b = << >>
    BY <1>11, <2>2, SkipsLine
  <2>4. m_serialData' = << >> /\ shown' = shown
    BY <1>2, <1>7, <2>3, Empty
  <2>. QED
    BY <1>4, <1>8, <1>11, <2>4 DEF Stage
<1>12. CASE Blocked(d) /\ Displayed(k)
  <2>1. b = d /\ Number(b) = << >> /\ Rest(b) = d
    BY <1>12, Blocks DEF Blocked
  <2>2. m_serialData' = d /\ shown' = shown
    BY <1>2, <1>7, <2>1
  <2>3. Blocked(m_serialData)'
    BY <1>12, <2>2 DEF Blocked
  <2>. QED
    BY <1>3, <1>4, <1>8, <1>12, <2>2, <2>3 DEF Stage
<1>13. CASE k >= 1 /\ d = sent[k] /\ Displayed(k - 1)
  <2>1. /\ k \in 1..Len(sent) /\ k - 1 \in Nat /\ (k - 1) + 1 = k /\ Len(sent) \in Nat
    BY <1>4, <1>13
  <2>2. Line(d) /\ d \in Seq(Token) /\ d # << >> /\ d[1] \in Token /\ "nl" \in ToSet(d)
    <3>1. Line(d)
      BY <1>4, <1>13, <2>1, AnyLine
    <3>. QED
      BY <3>1, LineHasLine DEF Line
  <2>3. PICK v \in Seq(Token) : v = Number(d)
    BY <2>2, NumberFacts
  <2>4. ASSUME shown' = IF v # << >> THEN Append(shown, v) ELSE shown
        PROVE  Displayed(k)' /\ shown' \in Seq(Seq(Token))
    BY <1>3, <1>4, <1>13, <2>1, <2>3, <2>4, DisplaysNext
  <2>5. CASE d[1] = "nl"
    <3>1. b = << >> /\ v = << >>
      BY <2>2, <2>3, <2>5, SkipsLine
    <3>2. m_serialData' = << >> /\ shown' = shown
      BY <1>2, <1>7, <3>1, Empty
    <3>. QED
      BY <2>4, <3>1, <3>2 DEF Stage
  <2>6. CASE d[1] = "x"
    <3>1. b = d /\ Number(d) = << >> /\ Rest(d) = d
      BY <2>2, <2>6, Blocks
    <3>2. m_serialData' = d /\ shown' = shown
      BY <1>2, <1>7, <3>1
    <3>3. Blocked(m_serialData)'
      BY <2>2, <2>6, <3>2 DEF Blocked
    <3>. QED
      BY <1>3, <2>3, <2>4, <3>1, <3>2, <3>3 DEF Stage
  <2>7. CASE d[1] \in Digit
    <3>1. b = d
      <4>1. d[1] # "nl"
        BY <2>7 DEF Digit
      <4>. QED
        BY <2>2, <4>1, SkipsLine
    <3>2. /\ Number(d) # << >> /\ Number(d) # d
          /\ Rest(d) = <<"nl">> \/ Blocked(Rest(d))
      BY <2>2, <2>7, TakesNumber
    <3>3. shown' = Append(shown, v) /\ v # << >>
      BY <1>2, <2>3, <3>1, <3>2 DEF Good
    <3>4. m_serialData' = <<"nl">> \/ Blocked(m_serialData')
      BY <1>2, <3>1, <3>2
    <3>5. m_serialData' = <<"nl">> \/ Blocked(m_serialData)'
      BY <3>4 DEF Blocked
    <3>. QED
      BY <1>3, <2>4, <3>3, <3>5 DEF Stage
  <2>. QED
    BY <2>2, <2>5, <2>6, <2>7 DEF Token, Digit
<1>. QED
  BY <1>5, <1>10, <1>11, <1>12, <1>13 DEF Stage

\* Every step keeps the flow of the lines.
LEMMA FlowStep == ASSUME IInv, FlowInv, [Next]_vars PROVE FlowInv'
<1>1. CASE UNCHANGED vars
  BY <1>1, FlowStays DEF vars
<1>2. CASE ConsoleNext
  BY <1>2, FlowStays DEF ConsoleNext, Key, CtrlC, CancelTimer, CancelPort, SetStop, device
<1>3. CASE TimerFires \/ InputHandler \/ TimerExpired \/ RearmTimer \/ RunReturns
  BY <1>3, FlowStays DEF TimerFires, InputHandler, TimerExpired, RearmTimer, RunReturns, console, device
<1>4. CASE PortFails \/ PortEnds \/ PortMore
  BY <1>4, FlowStays DEF PortFails, PortEnds, PortMore, console, device
<1>5. CASE ReadLine
  <2>1. port = "none"
    BY <1>5 DEF IInv, OneOperation, ReadLine
  <2>. QED
    BY <1>5, <2>1, FlowStays DEF ReadLine, console, device
<1>6. CASE LoseDevice
  BY <1>6, FlowStays DEF LoseDevice, console
<1>. QED
  BY <1>1, <1>2, <1>3, <1>4, <1>5, <1>6, FlowSends, FlowReads, FlowReceives DEF Next, IoNext

\* When lines arrive in one piece, lineReceived displays the numbers of the lines in the
\* order in which they were sent, each once, however stop() and the keys come between.
THEOREM InOrderAlways == Spec => []ShownInOrder
<1>1. FlowInv => ShownInOrder
  <2>1. SUFFICES ASSUME FlowInv, whole PROVE \E n \in 0..Len(sent) : Displayed(n)
    BY DEF ShownInOrder
  <2>2. PICK k \in 0..Len(sent) : Stage(k)
    BY <2>1 DEF FlowInv
  <2>3. Displayed(k) \/ (k >= 1 /\ Displayed(k - 1))
    BY <2>2 DEF Stage
  <2>4. k >= 1 => k - 1 \in 0..Len(sent)
    BY <2>1 DEF FlowInv
  <2>. QED
    BY <2>3, <2>4
<1>2. IInv /\ FlowInv /\ [Next]_vars => FlowInv'
  BY FlowStep
<1>. QED
  BY <1>1, <1>2, FlowInit, Invariant, Inductive, InitInv, PTL DEF Spec

====
