---- MODULE CooperativeProofs ----
(***************************************************************************)
(* The programs whose stacks give up control by themselves: the coroutines *)
(* of Coroutines, for every width of a char and every text and buffer, and *)
(* the fibers of Fibers, for every number of elements.                     *)
(*                                                                         *)
(* A value on its way from one stack to another is counted as seen         *)
(* (Passed), so that switching between the stacks changes nothing, and     *)
(* each coroutine has an invariant of its own about what was passed and    *)
(* how far it has read.  The fibers' queue and buffer are always in one of *)
(* four phases.                                                            *)
(***************************************************************************)
EXTENDS Coroutines, Fibers, SequenceTheorems, TLAPS

\* What is passed between the stacks: numbers, tokens and messages
Values == Int \cup [at : Nat, size : Nat] \cup [type : Int, at : Nat, size : Nat]

\* What the consumer has got or is about to get
Passed == IF value = << >> THEN seen ELSE Append(seen, value[1])

ValuesInv ==
    /\ seen \in Seq(Values)
    /\ value = << >> \/ \E v \in Values : value = <<v>>
    /\ i \in Nat /\ start \in Nat
    /\ life \in [{"coroutine", "output"} -> {"suspended", "returned", "unwound"}]

\* A pull_type: the coroutine has control, has passed a value with it, or has returned.
TurnInv ==
    prog \in Generators =>
        \/ turn = "coroutine" /\ value = << >> /\ life["coroutine"] = "suspended"
        \/ turn = "run" /\ value # << >> /\ life["coroutine"] = "suspended"
        \/ turn \in {"run", "over"} /\ value = << >> /\ life["coroutine"] = "returned"

Back == life["coroutine"] = "returned"

\* The first n values of a sequence
Series(f, n) == [k \in 1..n |-> f[k]]

Before == [k \in Nat |-> k - 1]
Itself == [k \in Nat |-> k]
Twice  == [k \in Nat |-> k * 2]

\* The generators count.
CountInv ==
    /\ prog = "demo_1" => i \in 0..5 /\ Passed = Series(Before, i) /\ (Back => i = 5)
    /\ prog = "state_machine" => i \in 0..3 /\ Passed = Series(Before, i) /\ (Back => i = 3)

\* The accumulator gets one number at a time.
SumInv ==
    prog = "consumer_demo" =>
        /\ i \in 0..3 /\ buf = <<1, 2, 3>>
        /\ \/ turn = "run" /\ value = << >> /\ seen = Series(Itself, i)
           \/ turn = "coroutine" /\ i > 0 /\ value = <<i>> /\ seen = Series(Itself, i - 1)
           \/ turn = "over" /\ i = 3 /\ value = << >> /\ seen = Series(Itself, i)

\* A number goes through transform to output, and control comes back the same way.
PipeInv ==
    prog = "pipeline" =>
        /\ i \in 0..3 /\ buf = <<1, 2, 3>>
        /\ \/ turn \in {"run", "coroutine"} /\ value = << >> /\ seen = Series(Twice, i)
           \/ turn = "coroutine" /\ i > 0 /\ value = <<i>> /\ seen = Series(Twice, i - 1)
           \/ turn = "output" /\ i > 0 /\ value = <<i * 2>> /\ seen = Series(Twice, i - 1)
           \/ turn = "over" /\ i = 3 /\ value = << >> /\ seen = Series(Twice, i)

\* The tokens that begin before start have been passed, in order; the next one begins
\* there and has no blank so far.
TokenInv ==
    prog = "token_parser" =>
        /\ buf \in Seq(Letter) /\ i \in 0..Len(buf) /\ start \in 0..i
        /\ start = 0 \/ start = Len(buf) \/ buf[start] = Blank
        /\ \A n \in start + 1..i : buf[n] # Blank
        /\ ToSet(Passed) = {t \in Tokens : t.at < start}
        /\ \A m, n \in DOMAIN Passed : m < n => Passed[m].at < Passed[n].at
        /\ Back => start = Len(buf)

\* Where the message behind the first n of ms begins
After(ms, n) == IF n = 0 THEN 0 ELSE ms[n].at + ms[n].size

\* The messages passed fill the buffer up to i; behind it, none is complete when the
\* parser has returned.
MessageInv ==
    prog = "binary_parser" =>
        /\ buf \in Seq(Char) /\ i \in 0..Len(buf) /\ i = After(Passed, Len(Passed))
        /\ \A n \in DOMAIN Passed : HeaderAt(Passed[n], After(Passed, n - 1))
        /\ Back => LET rest == Len(buf) - i
                   IN  rest < 2 \/ rest < 2 + Unsigned(buf[i + 2])

\* The coroutine of a push_type does not return.
SinkInv == prog \in Sinks => ~Back

DataInv == prog \in Generators \cup Sinks

Inv ==
    /\ DataInv /\ ValuesInv /\ TurnInv /\ SinkInv
    /\ CountInv /\ SumInv /\ PipeInv /\ TokenInv /\ MessageInv

\* A sequence and one more value
LEMMA OneMore ==
  ASSUME NEW S, NEW s \in Seq(S), NEW v \in S
  PROVE  /\ Append(s, v) \in Seq(S) /\ Len(Append(s, v)) = Len(s) + 1 /\ Len(s) \in Nat
         /\ Append(s, v)[Len(s) + 1] = v /\ \A k \in 1..Len(s) : Append(s, v)[k] = s[k]
         /\ DOMAIN s = 1..Len(s) /\ DOMAIN Append(s, v) = 1..(Len(s) + 1)
         /\ s \o <<v>> = Append(s, v) /\ s \o << >> = s
         /\ ToSet(Append(s, v)) = ToSet(s) \cup {v}
<1>. DEFINE u == Append(s, v)
<1>1. /\ u \in Seq(S) /\ Len(u) = Len(s) + 1 /\ Len(s) \in Nat
      /\ u[Len(s) + 1] = v /\ \A k \in 1..Len(s) : u[k] = s[k]
  BY AppendProperties
<1>2. DOMAIN s = 1..Len(s) /\ DOMAIN u = 1..(Len(s) + 1)
  BY <1>1
<1>3. s \o <<v>> = u
  BY AppendIsConcat
<1>4. s \o << >> = s
  BY ConcatEmptySeq
<1>5. ToSet(u) = ToSet(s) \cup {v}
  <2>. HIDE DEF u
  <2>1. \A c : c \in ToSet(u) <=> \E k \in 1..(Len(s) + 1) : u[k] = c
    BY <1>2 DEF ToSet
  <2>2. \A c : c \in ToSet(s) <=> \E k \in 1..Len(s) : s[k] = c
    BY <1>2 DEF ToSet
  <2>3. ASSUME NEW c \in ToSet(u) PROVE c \in ToSet(s) \cup {v}
    <3>1. PICK k \in 1..(Len(s) + 1) : u[k] = c
      BY <2>1
    <3>2. k \in 1..Len(s) \/ k = Len(s) + 1
      BY <1>1
    <3>. QED
      BY <1>1, <2>2, <3>1, <3>2
  <2>4. ASSUME NEW c \in ToSet(s) PROVE c \in ToSet(u)
    <3>1. PICK k \in 1..Len(s) : s[k] = c
      BY <2>2
    <3>2. k \in 1..(Len(s) + 1) /\ u[k] = c
      BY <1>1, <3>1
    <3>. QED
      BY <2>1, <3>2
  <2>5. v \in ToSet(u)
    <3>1. Len(s) + 1 \in 1..(Len(s) + 1)
      BY <1>1
    <3>. QED
      BY <1>1, <2>1, <3>1
  <2>. QED
    BY <2>3, <2>4, <2>5
<1>. HIDE DEF u
<1>. QED
  BY <1>1, <1>2, <1>3, <1>4, <1>5 DEF u

\* One value as a sequence
LEMMA OneValue == \A v : Len(<<v>>) = 1 /\ <<v>>[1] = v /\ <<v>> # << >> /\ DOMAIN <<v>> = {1}
  OBVIOUS

\* A coroutine yields a value.
LEMMA Yields ==
  ASSUME ValuesInv, value = << >>, NEW v \in Values, value' = <<v>>, seen' = seen
  PROVE  /\ Passed = seen /\ Passed' = Append(seen, v)
         /\ seen' \in Seq(Values) /\ value' # << >> /\ \E w \in Values : value' = <<w>>
<1>1. value' # << >> /\ value'[1] = v
  BY OneValue
<1>2. Passed = seen
  BY DEF Passed
<1>3. Passed' = Append(seen, v)
  BY <1>1 DEF Passed
<1>4. \E w \in Values : value' = <<w>>
  OBVIOUS
<1>. QED
  BY <1>1, <1>2, <1>3, <1>4 DEF ValuesInv

\* The loop takes it.
LEMMA Takes ==
  ASSUME ValuesInv, value # << >>, value' = << >>, seen' = seen \o value
  PROVE  Passed' = Passed /\ seen' \in Seq(Values)
<1>1. PICK v \in Values : value = <<v>>
  BY DEF ValuesInv
<1>2. seen' = Append(seen, v) /\ seen' \in Seq(Values)
  BY <1>1, OneMore DEF ValuesInv
<1>3. Passed' = seen'
  BY DEF Passed
<1>4. Passed = Append(seen, v)
  BY <1>1, OneValue DEF Passed
<1>. QED
  BY <1>2, <1>3, <1>4

\* Counting on
LEMMA SeriesGrows ==
  ASSUME NEW f \in [Nat -> Int], NEW n \in Nat
  PROVE  Append(Series(f, n), f[n + 1]) = Series(f, n + 1) /\ Series(f, n) \in Seq(Int)
<1>1. Series(f, n) \in Seq(Int) /\ Len(Series(f, n)) = n /\ f[n + 1] \in Int
  BY DEF Series
<1>2. /\ Series(f, n + 1) \in Seq(Int) /\ Len(Series(f, n + 1)) = n + 1
      /\ \A k \in 1..(n + 1) : Series(f, n + 1)[k] = f[k]
  BY DEF Series
<1>3. PICK u : u = Append(Series(f, n), f[n + 1])
  OBVIOUS
<1>4. /\ u \in Seq(Int) /\ Len(u) = n + 1 /\ u[n + 1] = f[n + 1]
      /\ \A k \in 1..n : u[k] = Series(f, n)[k]
  BY <1>1, <1>3, OneMore
<1>5. \A k \in 1..(n + 1) : u[k] = f[k]
  <2>1. ASSUME NEW k \in 1..(n + 1) PROVE u[k] = f[k]
    <3>1. k \in 1..n \/ k = n + 1
      OBVIOUS
    <3>2. k \in 1..n => Series(f, n)[k] = f[k]
      BY DEF Series
    <3>. QED
      BY <1>4, <3>1, <3>2
  <2>. QED
    BY <2>1
<1>6. u = Series(f, n + 1)
  BY <1>2, <1>4, <1>5, SeqEqual
<1>. QED
  BY <1>1, <1>3, <1>6

\* The three of them
LEMMA ThreeSeries ==
  /\ Before \in [Nat -> Int] /\ \A n \in Nat : Before[n + 1] = n
  /\ Itself \in [Nat -> Int] /\ \A n \in Nat : Itself[n + 1] = n + 1
  /\ Twice \in [Nat -> Int] /\ \A n \in Nat : Twice[n + 1] = (n + 1) * 2
  /\ \A f : Series(f, 0) = << >>
<1>1. Before \in [Nat -> Int] /\ \A n \in Nat : Before[n + 1] = n
  BY DEF Before
<1>2. Itself \in [Nat -> Int] /\ \A n \in Nat : Itself[n + 1] = n + 1
  BY DEF Itself
<1>3. Twice \in [Nat -> Int] /\ \A n \in Nat : Twice[n + 1] = (n + 1) * 2
  BY DEF Twice
<1>4. \A f : Series(f, 0) = << >>
  BY DEF Series
<1>. QED
  BY <1>1, <1>2, <1>3, <1>4

\* The signed char as a number
LEMMA Unsigneds == ASSUME NEW c \in Int PROVE Unsigned(c) \in Nat
  BY WidthAssumption DEF Unsigned

\* run() takes a value, or ends: nothing changes for the coroutine.
LEMMA Quiet ==
  ASSUME Inv, prog \in Generators, LoopBody \/ LoopEnds \/ UNCHANGED vars
  PROVE  /\ ValuesInv' /\ TurnInv' /\ Passed' = Passed /\ (Back' <=> Back)
         /\ UNCHANGED <<prog, buf, i, start>>
<1>1. CASE LoopBody
  <2>1. /\ value # << >> /\ value' = << >> /\ seen' = seen \o value /\ turn = "run" /\ turn' = "coroutine"
        /\ UNCHANGED <<prog, buf, i, start, life>>
    BY <1>1 DEF LoopBody
  <2>2. Passed' = Passed /\ seen' \in Seq(Values)
    BY <2>1, Takes DEF Inv
  <2>3. TurnInv'
    BY <2>1 DEF TurnInv, Inv
  <2>. QED
    BY <2>1, <2>2, <2>3 DEF Inv, ValuesInv, Back
<1>2. CASE LoopEnds
  BY <1>2 DEF LoopEnds, Inv, ValuesInv, TurnInv, Passed, Back
<1>3. CASE UNCHANGED vars
  BY <1>3 DEF vars, Inv, ValuesInv, TurnInv, Passed, Back
<1>. QED
  BY <1>1, <1>2, <1>3

\* The coroutine passes a value.
LEMMA PassesOn ==
  ASSUME Inv, prog \in Generators, turn = "coroutine", NEW v \in Values, Yield(v),
         UNCHANGED <<prog, buf, seen>>, i' \in Nat, start' \in Nat
  PROVE  ValuesInv' /\ TurnInv' /\ Passed' = Append(Passed, v) /\ ~Back /\ ~Back' /\ Passed \in Seq(Values)
<1>1. value = << >> /\ life["coroutine"] = "suspended"
  BY DEF Inv, TurnInv
<1>2. value' = <<v>> /\ turn' = "run" /\ life' = life
  BY DEF Yield
<1>3. /\ Passed = seen /\ Passed' = Append(seen, v)
      /\ seen' \in Seq(Values) /\ value' # << >> /\ \E w \in Values : value' = <<w>>
  BY <1>1, <1>2, Yields DEF Inv
<1>4. TurnInv'
  BY <1>1, <1>2, <1>3 DEF TurnInv
<1>. QED
  BY <1>1, <1>2, <1>3, <1>4 DEF Back, ValuesInv, Inv

\* The coroutine returns.
LEMMA ComesBack ==
  ASSUME Inv, prog \in Generators, turn = "coroutine", Return, UNCHANGED <<prog, buf, seen>>
  PROVE  ValuesInv' /\ TurnInv' /\ Passed' = Passed /\ UNCHANGED <<i, start>>
<1>1. value = << >> /\ life["coroutine"] = "suspended"
  BY DEF Inv, TurnInv
<1>2. /\ turn' = "run" /\ UNCHANGED <<i, start, value>>
      /\ life' = [life EXCEPT !["coroutine"] = "returned"]
  BY DEF Return
<1>0. life \in [{"coroutine", "output"} -> {"suspended", "returned", "unwound"}]
  BY DEF Inv, ValuesInv
<1>4. /\ life' \in [{"coroutine", "output"} -> {"suspended", "returned", "unwound"}]
      /\ life'["coroutine"] = "returned"
  BY <1>0, <1>2
<1>3. TurnInv'
  BY <1>1, <1>2, <1>4 DEF TurnInv
<1>. QED
  BY <1>1, <1>2, <1>3, <1>4 DEF ValuesInv, Inv, Passed

\* What does not change for the coroutine does not change for its data.
LEMMA StaysCounted ==
  ASSUME Inv, Passed' = Passed, Back' => Back, UNCHANGED <<prog, buf, i, start>>
  PROVE  CountInv' /\ TokenInv' /\ MessageInv'
<1>1. CountInv'
  BY DEF Inv, CountInv, Series
<1>2. TokenInv'
  BY DEF Inv, TokenInv, Tokens
<1>3. MessageInv'
  BY DEF Inv, MessageInv, HeaderAt, After, Unsigned
<1>. QED
  BY <1>1, <1>2, <1>3

\* A generator yields its next number, or returns when there are no more.
LEMMA CountStep ==
  ASSUME Inv, Generate, NEW p \in {"demo_1", "state_machine"}, prog = p
  PROVE  Inv'
<1>. DEFINE m == IF p = "demo_1" THEN 5 ELSE 3
<1>1. /\ i \in 0..m /\ Passed = Series(Before, i) /\ m \in Nat
  BY DEF Inv, CountInv
<1>2. /\ turn = "coroutine" /\ UNCHANGED <<prog, buf, seen>>
      /\ \/ i < m /\ Yield(i) /\ i' = i + 1 /\ start' = start
         \/ i = m /\ Return
  BY DEF Generate, producer, state_machine
<1>3. prog \in Generators /\ prog \notin Sinks /\ prog' = p
  BY <1>2 DEF Generators, Sinks
<1>. HIDE DEF m
<1>4. /\ ValuesInv' /\ TurnInv' /\ i' \in 0..m /\ Passed' = Series(Before, i')
      /\ (Back' => i' = m)
  <2>1. CASE i < m /\ Yield(i) /\ i' = i + 1 /\ start' = start
    <3>1. i \in Values /\ i' \in Nat /\ start' \in Nat /\ i' \in 0..m
      BY <1>1, <2>1 DEF Values, Inv, ValuesInv
    <3>2. ValuesInv' /\ TurnInv' /\ Passed' = Append(Passed, i) /\ ~Back'
      BY <1>2, <1>3, <2>1, <3>1, PassesOn
    <3>3. Append(Series(Before, i), i) = Series(Before, i + 1)
      <4>1. i \in Nat /\ Before[i + 1] = i /\ Before \in [Nat -> Int]
        BY <1>1, ThreeSeries
      <4>2. Append(Series(Before, i), Before[i + 1]) = Series(Before, i + 1)
        BY <4>1, SeriesGrows
      <4>. QED
        BY <4>1, <4>2
    <3>. QED
      BY <1>1, <2>1, <3>1, <3>2, <3>3
  <2>2. CASE i = m /\ Return
    BY <1>1, <1>2, <1>3, <2>2, ComesBack
  <2>. QED
    BY <1>2, <2>1, <2>2
<1>5. CountInv'
  BY <1>3, <1>4 DEF CountInv, m
<1>. QED
  BY <1>3, <1>4, <1>5 DEF Inv, DataInv, SinkInv, SumInv, PipeInv, TokenInv, MessageInv

\* The coroutine of a push_type goes on, or is destroyed.
LEMMA SinkStays ==
  ASSUME Inv, prog \in Sinks, Push \/ LeaveScope \/ accumulator \/ multiply \/ output
  PROVE  SinkInv'
<1>1. life \in [{"coroutine", "output"} -> {"suspended", "returned", "unwound"}] /\ ~Back
  BY DEF Inv, ValuesInv, SinkInv
<1>2. \/ life' = life
      \/ \E s \in {"coroutine", "output"} : life' = [life EXCEPT ![s] = "unwound"]
  BY DEF Push, LeaveScope, accumulator, multiply, output
<1>. QED
  BY <1>1, <1>2 DEF SinkInv, Back

\* The three numbers of the loop of run()
LEMMA ThreeNumbers ==
  ASSUME buf = <<1, 2, 3>>, NEW k \in 0..2
  PROVE  Len(buf) = 3 /\ buf[k + 1] = k + 1
<1>1. Len(buf) = 3 /\ buf[1] = 1 /\ buf[2] = 2 /\ buf[3] = 3
  OBVIOUS
<1>2. k + 1 = 1 \/ k + 1 = 2 \/ k + 1 = 3
  OBVIOUS
<1>. QED
  BY <1>1, <1>2

\* run() pushes a number.
LEMMA Pushes ==
  ASSUME Inv, Push, NEW p \in Sinks, prog = p
  PROVE  /\ ValuesInv' /\ prog' = p /\ buf' = <<1, 2, 3>> /\ i' \in 1..3 /\ i \in 0..2 /\ i' - 1 = i
         /\ turn = "run" /\ turn' = "coroutine" /\ value' = <<i'>> /\ seen' = seen
<1>1. /\ turn = "run" /\ i < Len(buf) /\ value' = <<buf[i + 1]>> /\ i' = i + 1 /\ turn' = "coroutine"
      /\ UNCHANGED <<prog, buf, start, seen, life>>
  BY DEF Push
<1>2. buf = <<1, 2, 3>> /\ i \in 0..3
  BY DEF Inv, SumInv, PipeInv, Sinks
<1>3. i \in 0..2
  BY <1>1, <1>2
<1>4. buf[i + 1] = i + 1
  BY <1>2, <1>3, ThreeNumbers
<1>5. i' \in 1..3 /\ i' - 1 = i /\ i' \in Values /\ i' \in Nat /\ value' = <<i'>>
  BY <1>1, <1>3, <1>4 DEF Values
<1>6. \E v \in Values : value' = <<v>>
  BY <1>5
<1>. QED
  BY <1>1, <1>2, <1>3, <1>5, <1>6 DEF Inv, ValuesInv

\* run() ends and destroys its coroutines.
LEMMA Leaves ==
  ASSUME Inv, LeaveScope, NEW p \in Sinks, prog = p
  PROVE  /\ ValuesInv' /\ prog' = p /\ buf' = <<1, 2, 3>> /\ i' = i /\ i = 3
         /\ turn = "run" /\ turn' \in {"run", "over"} /\ value' = value /\ seen' = seen
<1>1. /\ turn = "run" /\ i = Len(buf) /\ turn' \in {"run", "over"} /\ UNCHANGED <<prog, buf, i, start, value, seen>>
      /\ life' \in [{"coroutine", "output"} -> {"suspended", "returned", "unwound"}]
  <2>1. life \in [{"coroutine", "output"} -> {"suspended", "returned", "unwound"}]
    BY DEF Inv, ValuesInv
  <2>2. /\ turn = "run" /\ i = Len(buf) /\ UNCHANGED <<prog, buf, i, start, value, seen>>
        /\ turn' \in {turn, "over"}
        /\ \E s \in {"coroutine", "output"} : life' = [life EXCEPT ![s] = "unwound"]
    BY DEF LeaveScope
  <2>. QED
    BY <2>1, <2>2
<1>2. buf = <<1, 2, 3>>
  BY DEF Inv, SumInv, PipeInv, Sinks
<1>3. Len(buf) = 3
  BY <1>2
<1>. QED
  BY <1>1, <1>2, <1>3 DEF Inv, ValuesInv

\* Two sums, one number further
LEMMA NextNumber ==
  ASSUME NEW n \in Nat, n > 0
  PROVE  /\ Series(Itself, n - 1) \o <<n>> = Series(Itself, n)
         /\ Series(Twice, n - 1) \o <<n * 2>> = Series(Twice, n)
<1>1. n - 1 \in Nat /\ (n - 1) + 1 = n
  OBVIOUS
<1>2. /\ Itself[(n - 1) + 1] = n /\ Itself \in [Nat -> Int]
      /\ Twice[(n - 1) + 1] = n * 2 /\ Twice \in [Nat -> Int]
  BY <1>1, ThreeSeries
<1>3. /\ Append(Series(Itself, n - 1), Itself[(n - 1) + 1]) = Series(Itself, (n - 1) + 1)
      /\ Series(Itself, n - 1) \in Seq(Int)
  BY <1>1, <1>2, SeriesGrows
<1>4. /\ Append(Series(Twice, n - 1), Twice[(n - 1) + 1]) = Series(Twice, (n - 1) + 1)
      /\ Series(Twice, n - 1) \in Seq(Int)
  BY <1>1, <1>2, SeriesGrows
<1>5. PICK a \in Int, b \in Int : a = n /\ b = n * 2
  OBVIOUS
<1>6. Series(Itself, n - 1) \o <<a>> = Append(Series(Itself, n - 1), a)
  BY <1>3, OneMore
<1>7. Series(Twice, n - 1) \o <<b>> = Append(Series(Twice, n - 1), b)
  BY <1>4, OneMore
<1>. QED
  BY <1>1, <1>2, <1>3, <1>4, <1>5, <1>6, <1>7

\* The consumer gets a value, or control without one.
LEMMA Consumes ==
  ASSUME Inv, seen' = seen \o value, value' = << >>, UNCHANGED <<i, start, life>>
  PROVE  ValuesInv' /\ (value = << >> => seen' = seen)
<1>1. CASE value = << >>
  <2>1. seen' = seen
    BY <1>1, ConcatEmptySeq DEF Inv, ValuesInv
  <2>. QED
    BY <2>1 DEF Inv, ValuesInv
<1>2. CASE value # << >>
  <2>1. seen' \in Seq(Values)
    BY <1>2, Takes DEF Inv
  <2>. QED
    BY <1>2, <2>1 DEF Inv, ValuesInv
<1>. QED
  BY <1>1, <1>2

\* The accumulator
LEMMA SumStep ==
  ASSUME Inv, Push \/ LeaveScope \/ accumulator, prog = "consumer_demo"
  PROVE  Inv'
<1>1. prog \in Sinks /\ prog \notin Generators /\ prog # "pipeline"
  BY DEF Sinks, Generators
<1>2. prog' = prog /\ ValuesInv' /\ SumInv'
  <2>1. CASE Push
    <3>1. /\ ValuesInv' /\ prog' = prog /\ buf' = <<1, 2, 3>> /\ i' \in 1..3 /\ i \in 0..2 /\ i' - 1 = i
          /\ turn = "run" /\ turn' = "coroutine" /\ value' = <<i'>> /\ seen' = seen
      BY <1>1, <2>1, Pushes
    <3>2. seen = Series(Itself, i)
      BY <3>1 DEF Inv, SumInv
    <3>3. seen' = Series(Itself, i' - 1) /\ i' \in 0..3 /\ i' > 0
      <4>1. i' \in 0..3 /\ i' > 0
        BY <3>1
      <4>2. i' - 1 = i /\ seen' = seen
        BY <3>1
      <4>3. seen' = Series(Itself, i' - 1)
        BY <3>2, <4>2, Zenon
      <4>. QED
        BY <4>1, <4>3
    <3>. QED
      BY <3>1, <3>3 DEF SumInv
  <2>2. CASE LeaveScope
    <3>1. /\ ValuesInv' /\ prog' = prog /\ buf' = <<1, 2, 3>> /\ i' = i /\ i = 3
          /\ turn = "run" /\ turn' \in {"run", "over"} /\ value' = value /\ seen' = seen
      BY <1>1, <2>2, Leaves
    <3>2. seen = Series(Itself, i) /\ value = << >>
      BY <3>1 DEF Inv, SumInv
    <3>. QED
      BY <3>1, <3>2 DEF SumInv
  <2>3. CASE accumulator
    <3>1. /\ turn = "coroutine" /\ seen' = seen \o value /\ value' = << >> /\ turn' = "run"
          /\ UNCHANGED <<prog, buf, i, start, life>>
      BY <2>3 DEF accumulator
    <3>2. i \in 0..3 /\ buf = <<1, 2, 3>> /\ i > 0 /\ value = <<i>> /\ seen = Series(Itself, i - 1)
      BY <3>1 DEF Inv, SumInv
    <3>3. seen' = Series(Itself, i)
      <4>1. i \in Nat /\ i > 0
        BY <3>2
      <4>2. Series(Itself, i - 1) \o value = Series(Itself, i)
        BY <3>2, <4>1, NextNumber
      <4>. QED
        BY <3>1, <3>2, <4>2
    <3>4. ValuesInv'
      BY <3>1, Consumes
    <3>. QED
      BY <3>1, <3>2, <3>3, <3>4 DEF SumInv
  <2>. QED
    BY <2>1, <2>2, <2>3
<1>. QED
  BY <1>1, <1>2, SinkStays DEF Inv, DataInv, TurnInv, CountInv, PipeInv, TokenInv, MessageInv

\* What multiply does to a value
LEMMA Doubles ==
  ASSUME NEW n \in Nat
  PROVE  [k \in DOMAIN <<n>> |-> <<n>>[k] * 2] = <<n * 2>> /\ [k \in DOMAIN << >> |-> << >>[k] * 2] = << >>
<1>1. [k \in DOMAIN << >> |-> << >>[k] * 2] = << >>
  OBVIOUS
<1>2. PICK s : s = [k \in DOMAIN <<n>> |-> <<n>>[k] * 2]
  OBVIOUS
<1>3. s = [k \in 1..1 |-> n * 2]
  BY <1>2
<1>4. s \in Seq(Int) /\ Len(s) = 1 /\ s[1] = n * 2
  BY <1>3
<1>5. <<n * 2>> \in Seq(Int) /\ Len(<<n * 2>>) = 1 /\ <<n * 2>>[1] = n * 2
  OBVIOUS
<1>6. \A k \in 1..Len(s) : s[k] = <<n * 2>>[k]
  BY <1>4, <1>5
<1>7. s = <<n * 2>>
  BY <1>4, <1>5, <1>6, SeqEqual
<1>. QED
  BY <1>1, <1>2, <1>7

\* The pipeline
LEMMA PipeStep ==
  ASSUME Inv, Push \/ LeaveScope \/ multiply \/ output, prog = "pipeline"
  PROVE  Inv'
<1>1. prog \in Sinks /\ prog \notin Generators /\ prog # "consumer_demo"
  BY DEF Sinks, Generators
<1>2. prog' = prog /\ ValuesInv' /\ PipeInv'
  <2>1. CASE Push
    <3>1. /\ ValuesInv' /\ prog' = prog /\ buf' = <<1, 2, 3>> /\ i' \in 1..3 /\ i \in 0..2 /\ i' - 1 = i
          /\ turn = "run" /\ turn' = "coroutine" /\ value' = <<i'>> /\ seen' = seen
      BY <1>1, <2>1, Pushes
    <3>2. seen = Series(Twice, i)
      BY <3>1 DEF Inv, PipeInv
    <3>3. seen' = Series(Twice, i' - 1) /\ i' \in 0..3 /\ i' > 0
      <4>1. i' \in 0..3 /\ i' > 0
        BY <3>1
      <4>2. i' - 1 = i /\ seen' = seen
        BY <3>1
      <4>3. seen' = Series(Twice, i' - 1)
        BY <3>2, <4>2, Zenon
      <4>. QED
        BY <4>1, <4>3
    <3>. QED
      BY <3>1, <3>3 DEF PipeInv
  <2>2. CASE LeaveScope
    <3>1. /\ ValuesInv' /\ prog' = prog /\ buf' = <<1, 2, 3>> /\ i' = i /\ i = 3
          /\ turn = "run" /\ turn' \in {"run", "over"} /\ value' = value /\ seen' = seen
      BY <1>1, <2>2, Leaves
    <3>2. seen = Series(Twice, i) /\ value = << >>
      BY <3>1 DEF Inv, PipeInv
    <3>. QED
      BY <3>1, <3>2 DEF PipeInv
  <2>3. CASE multiply
    <3>1. /\ turn = "coroutine" /\ UNCHANGED <<prog, buf, i, start, seen, life>>
          /\ value' = [n \in DOMAIN value |-> value[n] * 2]
          /\ turn' = IF value # << >> THEN "output" ELSE "run"
      BY <2>3 DEF multiply
    <3>2. /\ i \in 0..3 /\ buf = <<1, 2, 3>>
          /\ \/ value = << >> /\ seen = Series(Twice, i)
             \/ i > 0 /\ value = <<i>> /\ seen = Series(Twice, i - 1)
      BY <3>1 DEF Inv, PipeInv
    <3>3. CASE value = << >> /\ seen = Series(Twice, i)
      <4>1. value' = << >> /\ turn' = "run"
        BY <3>1, <3>3, Doubles
      <4>. QED
        BY <3>1, <3>2, <3>3, <4>1 DEF PipeInv, Inv, ValuesInv
    <3>4. CASE i > 0 /\ value = <<i>> /\ seen = Series(Twice, i - 1)
      <4>1. value' = <<i * 2>> /\ turn' = "output"
        BY <3>1, <3>2, <3>4, Doubles, OneValue
      <4>2. i * 2 \in Values
        BY <3>2 DEF Values
      <4>3. \E v \in Values : value' = <<v>>
        BY <4>1, <4>2
      <4>. QED
        BY <3>1, <3>2, <3>4, <4>1, <4>3 DEF PipeInv, Inv, ValuesInv
    <3>. QED
      BY <3>2, <3>3, <3>4
  <2>4. CASE output
    <3>1. /\ turn = "output" /\ seen' = seen \o value /\ value' = << >> /\ turn' = "coroutine"
          /\ UNCHANGED <<prog, buf, i, start, life>>
      BY <2>4 DEF output
    <3>2. i \in 0..3 /\ buf = <<1, 2, 3>> /\ i > 0 /\ value = <<i * 2>> /\ seen = Series(Twice, i - 1)
      BY <3>1 DEF Inv, PipeInv
    <3>3. seen' = Series(Twice, i)
      <4>1. i \in Nat /\ i > 0
        BY <3>2
      <4>2. Series(Twice, i - 1) \o value = Series(Twice, i)
        BY <3>2, <4>1, NextNumber
      <4>. QED
        BY <3>1, <3>2, <4>2
    <3>4. ValuesInv'
      BY <3>1, Consumes
    <3>. QED
      BY <3>1, <3>2, <3>3, <3>4 DEF PipeInv
  <2>. QED
    BY <2>1, <2>2, <2>3, <2>4
<1>. QED
  BY <1>1, <1>2, SinkStays DEF Inv, DataInv, TurnInv, CountInv, SumInv, TokenInv, MessageInv

\* A complete message, or the end
LEMMA MessageStep ==
  ASSUME Inv, Generate, prog = "binary_parser"
  PROVE  Inv'
<1>. DEFINE u == Unsigned(buf[i + 2])
            whole == i + 2 <= Len(buf) /\ i + 2 + u <= Len(buf)
<1>1. /\ turn = "coroutine" /\ UNCHANGED <<prog, buf, seen>>
      /\ \/ whole /\ Yield(Message(i)) /\ i' = i + 2 + u /\ start' = start
         \/ ~whole /\ Return
  BY DEF Generate, binary_parser
<1>2. prog \in Generators /\ prog \notin Sinks
  BY DEF Generators, Sinks
<1>3. /\ buf \in Seq(Char) /\ i \in 0..Len(buf) /\ Len(buf) \in Nat /\ i = After(Passed, Len(Passed))
      /\ \A n \in DOMAIN Passed : HeaderAt(Passed[n], After(Passed, n - 1))
      /\ start \in Nat
  BY DEF Inv, MessageInv, ValuesInv
<1>4. ValuesInv' /\ TurnInv' /\ MessageInv'
  <2>1. CASE whole /\ Yield(Message(i)) /\ i' = i + 2 + u /\ start' = start
    <3>1. i + 1 \in 1..Len(buf) /\ i + 2 \in 1..Len(buf)
      BY <1>3, <2>1
    <3>2. buf[i + 1] \in Char /\ buf[i + 2] \in Char
      BY <1>3, <3>1
    <3>3. Char \subseteq Int
      BY WidthAssumption DEF Char
    <3>4. u \in Nat /\ Unsigned(buf[i + 1]) \in Nat
      BY <3>2, <3>3, Unsigneds
    <3>. HIDE DEF u
    <3>5. PICK m : m = Message(i)
      OBVIOUS
    <3>6. m.type = Unsigned(buf[i + 1]) /\ m.at = i + 2 /\ m.size = u
      BY <3>5 DEF Message, u
    <3>7. m \in Values
      BY <1>3, <3>4, <3>5 DEF Message, Values, u
    <3>8. i' \in 0..Len(buf) /\ i' \in Nat /\ start' \in Nat /\ i' = m.at + m.size
      BY <1>3, <2>1, <3>4, <3>6
    <3>9. Yield(m)
      BY <2>1, <3>5
    <3>10. ValuesInv' /\ TurnInv' /\ Passed' = Append(Passed, m) /\ ~Back' /\ Passed \in Seq(Values)
      BY <1>1, <1>2, <3>7, <3>8, <3>9, PassesOn
    <3>11. HeaderAt(m, i)
      BY <1>3, <2>1, <3>4, <3>6, <3>8 DEF HeaderAt, u
    <3>12. PICK s \in Seq(Values), t \in Seq(Values) : s = Passed /\ t = Passed' /\ t = Append(s, m)
      BY <3>7, <3>10, OneMore
    <3>13. /\ Len(t) = Len(s) + 1 /\ Len(s) \in Nat /\ t[Len(s) + 1] = m
           /\ \A k \in 1..Len(s) : t[k] = s[k]
           /\ DOMAIN s = 1..Len(s) /\ DOMAIN t = 1..(Len(s) + 1)
      BY <3>7, <3>12, OneMore
    <3>14. \A k \in 0..Len(s) : After(t, k) = After(s, k)
      <4>1. ASSUME NEW k \in 0..Len(s) PROVE After(t, k) = After(s, k)
        <5>1. k # 0 => t[k] = s[k]
          BY <3>13
        <5>. QED
          BY <5>1 DEF After
      <4>. QED
        BY <4>1
    <3>15. After(t, Len(t)) = i'
      BY <3>8, <3>13 DEF After
    <3>16. ASSUME NEW n \in DOMAIN t PROVE HeaderAt(t[n], After(t, n - 1))
      <4>1. CASE n \in 1..Len(s)
        <5>1. n - 1 \in 0..Len(s) /\ t[n] = s[n] /\ n \in DOMAIN s
          BY <3>13, <4>1
        <5>2. HeaderAt(s[n], After(s, n - 1))
          BY <1>3, <3>12, <5>1
        <5>. QED
          BY <3>14, <5>1, <5>2
      <4>2. CASE n = Len(s) + 1
        <5>1. n - 1 = Len(s) /\ t[n] = m
          BY <3>13, <4>2
        <5>2. After(t, n - 1) = i
          BY <1>3, <3>12, <3>13, <3>14, <5>1
        <5>. QED
          BY <3>11, <5>1, <5>2
      <4>. QED
        BY <3>13, <4>1, <4>2
    <3>17. \A n \in DOMAIN t : HeaderAt(t[n], After(t, n - 1))'
      BY <1>1, <3>16 DEF HeaderAt, Unsigned, After
    <3>. QED
      BY <1>1, <1>3, <3>8, <3>10, <3>12, <3>15, <3>17 DEF MessageInv, After
  <2>2. CASE ~whole /\ Return
    <3>1. ValuesInv' /\ TurnInv' /\ Passed' = Passed /\ UNCHANGED <<i, start>>
      BY <1>1, <1>2, <2>2, ComesBack
    <3>2. LET rest == Len(buf) - i IN rest < 2 \/ rest < 2 + u
      <4>1. CASE i + 2 <= Len(buf)
        <5>1. i + 2 \in 1..Len(buf)
          BY <1>3, <4>1
        <5>2. buf[i + 2] \in Char /\ Char \subseteq Int
          BY <1>3, <5>1, WidthAssumption DEF Char
        <5>3. u \in Nat
          BY <5>2, Unsigneds
        <5>. HIDE DEF u
        <5>. QED
          BY <1>3, <2>2, <4>1, <5>3
      <4>2. CASE ~(i + 2 <= Len(buf))
        BY <1>3, <4>2
      <4>. QED
        BY <4>1, <4>2
    <3>. QED
      BY <1>1, <1>3, <3>1, <3>2 DEF MessageInv, HeaderAt, After, Unsigned
  <2>. QED
    BY <1>1, <2>1, <2>2
<1>. QED
  BY <1>1, <1>2, <1>4 DEF Inv, DataInv, SinkInv, CountInv, SumInv, PipeInv, TokenInv

\* A blank ends the token that begins at start.
LEMMA BlankEnds ==
  ASSUME buf \in Seq(Letter), i \in 0..Len(buf), start \in 0..i, i < Len(buf), buf[i + 1] = Blank,
         start = 0 \/ buf[start] = Blank, \A n \in start + 1..i : buf[n] # Blank
  PROVE  /\ {t \in Tokens : t.at < i + 1} = {t \in Tokens : t.at < start} \cup {Token(start, i)}
         /\ Token(start, i).at = start
<1>1. Len(buf) \in Nat /\ i \in Nat /\ start \in Nat /\ start <= i
  OBVIOUS
<1>. DEFINE k == Token(start, i)
<1>2. /\ k.at = start /\ k.size = i - start /\ k.at + k.size = i
      /\ k \in [at : 0..Len(buf), size : 0..Len(buf)]
  BY <1>1 DEF Token
<1>3. k \in Tokens
  <2>1. i <= Len(buf) /\ i # Len(buf)
    BY <1>1
  <2>. QED
    BY <1>2, <2>1 DEF Tokens
<1>4. ASSUME NEW t \in Tokens, t.at < i + 1, ~(t.at < start) PROVE t = k
  <2>1. /\ t \in [at : 0..Len(buf), size : 0..Len(buf)]
        /\ t.at + t.size <= Len(buf) /\ (t.at = 0 \/ buf[t.at] = Blank)
        /\ t.at + t.size # Len(buf) => buf[t.at + t.size + 1] = Blank
        /\ \A n \in t.at + 1..t.at + t.size : buf[n] # Blank
    BY <1>4 DEF Tokens
  <2>2. PICK a \in Nat, z \in Nat : a = t.at /\ z = t.size
    BY <2>1
  <2>3. a <= i /\ start <= a /\ a + z <= Len(buf)
    BY <1>1, <1>4, <2>1, <2>2
  <2>4. a = start
    <3>1. CASE a = 0
      BY <1>1, <2>3, <3>1
    <3>2. CASE a # 0
      <4>1. ~(a \in start + 1..i)
        BY <2>1, <2>2, <3>2
      <4>. QED
        BY <1>1, <2>3, <4>1
    <3>. QED
      BY <3>1, <3>2
  <2>5. ~(a + z > i)
    <3>1. SUFFICES ASSUME a + z > i PROVE FALSE
      OBVIOUS
    <3>2. i + 1 \in a + 1..a + z
      BY <1>1, <2>3, <3>1
    <3>. QED
      BY <2>1, <2>2, <3>2
  <2>6. ~(a + z < i)
    <3>1. SUFFICES ASSUME a + z < i PROVE FALSE
      OBVIOUS
    <3>2. a + z # Len(buf) /\ a + z + 1 \in start + 1..i
      BY <1>1, <2>4, <3>1
    <3>. QED
      BY <2>1, <2>2, <3>2
  <2>7. z = i - start
    BY <1>1, <2>2, <2>4, <2>5, <2>6
  <2>8. t = [at |-> t.at, size |-> t.size]
    BY <2>1
  <2>. QED
    BY <2>2, <2>4, <2>7, <2>8 DEF Token
<1>5. \A t \in Tokens : t.at < start => t.at < i + 1
  BY <1>1 DEF Tokens
<1>. HIDE DEF k
<1>. QED
  BY <1>1, <1>2, <1>3, <1>4, <1>5 DEF k

\* The end of the text ends the last one.
LEMMA TextEnds ==
  ASSUME buf \in Seq(Letter), start \in 0..Len(buf), start < Len(buf),
         start = 0 \/ buf[start] = Blank, \A n \in start + 1..Len(buf) : buf[n] # Blank
  PROVE  /\ {t \in Tokens : t.at < Len(buf)} = {t \in Tokens : t.at < start} \cup {Token(start, Len(buf))}
         /\ Token(start, Len(buf)).at = start
<1>1. Len(buf) \in Nat /\ start \in Nat
  OBVIOUS
<1>. DEFINE k == Token(start, Len(buf))
<1>2. /\ k.at = start /\ k.size = Len(buf) - start /\ k.at + k.size = Len(buf) /\ k.size > 0
      /\ k \in [at : 0..Len(buf), size : 0..Len(buf)]
  BY <1>1 DEF Token
<1>3. k \in Tokens
  BY <1>1, <1>2 DEF Tokens
<1>4. ASSUME NEW t \in Tokens, t.at < Len(buf), ~(t.at < start) PROVE t = k
  <2>1. /\ t \in [at : 0..Len(buf), size : 0..Len(buf)]
        /\ t.at + t.size <= Len(buf) /\ (t.at = 0 \/ buf[t.at] = Blank)
        /\ t.at + t.size # Len(buf) => buf[t.at + t.size + 1] = Blank
    BY <1>4 DEF Tokens
  <2>2. PICK a \in Nat, z \in Nat : a = t.at /\ z = t.size
    BY <2>1
  <2>3. start <= a /\ a < Len(buf) /\ a + z <= Len(buf)
    BY <1>1, <1>4, <2>1, <2>2
  <2>4. a = start
    <3>1. CASE a = 0
      BY <1>1, <2>3, <3>1
    <3>2. CASE a # 0
      <4>1. ~(a \in start + 1..Len(buf))
        BY <2>1, <2>2, <3>2
      <4>. QED
        BY <1>1, <2>3, <4>1
    <3>. QED
      BY <3>1, <3>2
  <2>5. ~(a + z < Len(buf))
    <3>1. SUFFICES ASSUME a + z < Len(buf) PROVE FALSE
      OBVIOUS
    <3>2. a + z # Len(buf) /\ a + z + 1 \in start + 1..Len(buf)
      BY <1>1, <2>4, <3>1
    <3>. QED
      BY <2>1, <2>2, <3>2
  <2>6. a + z = Len(buf)
    BY <1>1, <2>2, <2>3, <2>5
  <2>7. z = Len(buf) - start
    <3>1. PICK c \in Nat, b \in Nat : c = Len(buf) /\ b = start
      BY <1>1
    <3>2. a + z = c /\ a = b
      BY <2>4, <2>6, <3>1
    <3>3. z = c - b
      BY <2>2, <3>1, <3>2
    <3>. QED
      BY <3>1, <3>3
  <2>8. t = [at |-> t.at, size |-> t.size]
    BY <2>1
  <2>. QED
    BY <2>2, <2>4, <2>7, <2>8 DEF Token
<1>5. \A t \in Tokens : t.at < start => t.at < Len(buf)
  BY <1>1 DEF Tokens
<1>. HIDE DEF k
<1>. QED
  BY <1>1, <1>2, <1>3, <1>4, <1>5 DEF k

\* Another token behind those that were passed
LEMMA InOrderStill ==
  ASSUME NEW s \in Seq(Values), NEW k \in Values, NEW b, ToSet(s) = {t \in Tokens : t.at < b},
         k.at = b, \A m, n \in DOMAIN s : m < n => s[m].at < s[n].at
  PROVE  \A m, n \in DOMAIN Append(s, k) : m < n => Append(s, k)[m].at < Append(s, k)[n].at
<1>. DEFINE u == Append(s, k)
<1>1. /\ Len(s) \in Nat /\ u[Len(s) + 1] = k /\ (\A j \in 1..Len(s) : u[j] = s[j])
      /\ DOMAIN s = 1..Len(s) /\ DOMAIN u = 1..(Len(s) + 1)
  BY OneMore
<1>. HIDE DEF u
<1>2. \A j \in 1..Len(s) : s[j].at < b
  <2>1. ASSUME NEW j \in 1..Len(s) PROVE s[j].at < b
    <3>1. s[j] \in ToSet(s)
      BY <1>1 DEF ToSet
    <3>. QED
      BY <3>1
  <2>. QED
    BY <2>1
<1>3. ASSUME NEW m \in DOMAIN u, NEW n \in DOMAIN u, m < n PROVE u[m].at < u[n].at
  <2>1. m \in 1..Len(s)
    BY <1>1, <1>3
  <2>2. CASE n \in 1..Len(s)
    BY <1>1, <1>3, <2>1, <2>2
  <2>3. CASE n = Len(s) + 1
    BY <1>1, <1>2, <2>1, <2>3
  <2>. QED
    BY <1>1, <2>2, <2>3
<1>. QED
  BY <1>3 DEF u

\* A token is passed.
LEMMA TokenPassed ==
  ASSUME Inv, prog = "token_parser", turn = "coroutine", UNCHANGED <<prog, buf, seen>>,
         NEW k \in Values, k.at = start, Yield(k), i' \in 0..Len(buf), start' \in 0..i',
         {t \in Tokens : t.at < start'} = {t \in Tokens : t.at < start} \cup {k},
         start' = Len(buf) \/ buf[start'] = Blank, \A n \in start' + 1..i' : buf[n] # Blank
  PROVE  ValuesInv' /\ TurnInv' /\ TokenInv'
<1>1. /\ prog \in Generators /\ i' \in Nat /\ start' \in Nat
      /\ buf \in Seq(Letter) /\ Len(buf) \in Nat
  <2>1. buf \in Seq(Letter)
    BY DEF Inv, TokenInv
  <2>2. Len(buf) \in Nat
    BY <2>1
  <2>. QED
    BY <2>1, <2>2 DEF Generators
<1>2. ValuesInv' /\ TurnInv' /\ Passed' = Append(Passed, k) /\ ~Back' /\ Passed \in Seq(Values)
  BY <1>1, PassesOn
<1>3. PICK s \in Seq(Values) : s = Passed
  BY <1>2
<1>4. /\ ToSet(s) = {t \in Tokens : t.at < start}
      /\ \A m, n \in DOMAIN s : m < n => s[m].at < s[n].at
  BY <1>3 DEF Inv, TokenInv
<1>5. ToSet(Append(s, k)) = {t \in Tokens : t.at < start'}
  BY <1>4, OneMore
<1>6. \A m, n \in DOMAIN Append(s, k) : m < n => Append(s, k)[m].at < Append(s, k)[n].at
  BY <1>4, InOrderStill
<1>7. Tokens' = Tokens
  BY DEF Tokens
<1>8. /\ ToSet(Passed') = {t \in Tokens' : t.at < start'}
      /\ \A m, n \in DOMAIN Passed' : m < n => Passed'[m].at < Passed'[n].at
  BY <1>2, <1>3, <1>5, <1>6, <1>7
<1>9. TokenInv'
  BY <1>1, <1>2, <1>8 DEF TokenInv
<1>. QED
  BY <1>2, <1>9

\* A character, the rest, or the end
LEMMA TokenStep ==
  ASSUME Inv, Generate, prog = "token_parser"
  PROVE  Inv'
<1>1. turn = "coroutine" /\ UNCHANGED <<prog, buf, seen>> /\ token_parser
  BY DEF Generate
<1>2. prog \in Generators /\ prog \notin Sinks
  BY DEF Generators, Sinks
<1>3. /\ buf \in Seq(Letter) /\ i \in 0..Len(buf) /\ start \in 0..i /\ Len(buf) \in Nat
      /\ start = 0 \/ start = Len(buf) \/ buf[start] = Blank
      /\ \A n \in start + 1..i : buf[n] # Blank
  BY DEF Inv, TokenInv
<1>4. \A a, b \in Nat : a <= b => Token(a, b) \in Values
  BY DEF Token, Values
<1>5. ValuesInv' /\ TurnInv' /\ TokenInv'
  <2>1. CASE i < Len(buf) /\ i' = i + 1 /\ buf[i + 1] = Blank /\ Yield(Token(start, i)) /\ start' = i + 1
    <3>1. start = 0 \/ buf[start] = Blank
      BY <1>3, <2>1
    <3>2. /\ {t \in Tokens : t.at < i + 1} = {t \in Tokens : t.at < start} \cup {Token(start, i)}
          /\ Token(start, i).at = start
      BY <1>3, <2>1, <3>1, BlankEnds
    <3>3. PICK k \in Values : k = Token(start, i)
      BY <1>3, <1>4
    <3>4. i' \in 0..Len(buf) /\ start' \in 0..i' /\ buf[start'] = Blank
      BY <1>3, <2>1
    <3>5. \A n \in start' + 1..i' : buf[n] # Blank
      BY <1>3, <2>1
    <3>6. {t \in Tokens : t.at < start'} = {t \in Tokens : t.at < start} \cup {k} /\ k.at = start /\ Yield(k)
      BY <2>1, <3>2, <3>3
    <3>. QED
      BY <1>1, <3>4, <3>5, <3>6, TokenPassed
  <2>2. CASE i < Len(buf) /\ i' = i + 1 /\ buf[i + 1] # Blank /\ UNCHANGED <<turn, value, life, start>>
    <3>1. ValuesInv' /\ TurnInv' /\ Passed' = Passed /\ (Back' <=> Back) /\ Tokens' = Tokens
      BY <1>1, <1>3, <2>2 DEF Inv, ValuesInv, TurnInv, Passed, Back, Tokens
    <3>2. i' \in 0..Len(buf) /\ start' \in 0..i'
      BY <1>3, <2>2
    <3>3. \A n \in start' + 1..i' : buf[n] # Blank
      <4>1. ASSUME NEW n \in start + 1..i + 1 PROVE buf[n] # Blank
        <5>1. n \in start + 1..i \/ n = i + 1
          BY <1>3
        <5>. QED
          BY <1>3, <2>2, <5>1
      <4>. QED
        BY <2>2, <4>1
    <3>. QED
      BY <1>1, <1>3, <2>2, <3>1, <3>2, <3>3 DEF TokenInv, Inv
  <2>3. CASE /\ i = Len(buf) /\ start < Len(buf) /\ Yield(Token(start, Len(buf)))
             /\ start' = Len(buf) /\ i' = i
    <3>1. start = 0 \/ buf[start] = Blank
      BY <1>3, <2>3
    <3>2. \A n \in start + 1..Len(buf) : buf[n] # Blank
      BY <1>3, <2>3
    <3>3. start \in 0..Len(buf)
      BY <1>3, <2>3
    <3>4. /\ {t \in Tokens : t.at < Len(buf)} = {t \in Tokens : t.at < start} \cup {Token(start, Len(buf))}
          /\ Token(start, Len(buf)).at = start
      BY <1>3, <2>3, <3>1, <3>2, <3>3, TextEnds
    <3>5. PICK k \in Values : k = Token(start, Len(buf))
      BY <1>3, <1>4, <2>3
    <3>6. i' \in 0..Len(buf) /\ start' \in 0..i'
      BY <1>3, <2>3
    <3>7. \A n \in start' + 1..i' : buf[n] # Blank
      BY <1>3, <2>3
    <3>8. {t \in Tokens : t.at < start'} = {t \in Tokens : t.at < start} \cup {k} /\ k.at = start /\ Yield(k)
      BY <2>3, <3>4, <3>5
    <3>. QED
      BY <1>1, <2>3, <3>6, <3>7, <3>8, TokenPassed
  <2>4. CASE i = Len(buf) /\ start >= Len(buf) /\ Return
    <3>1. ValuesInv' /\ TurnInv' /\ Passed' = Passed /\ UNCHANGED <<i, start>>
      BY <1>1, <1>2, <2>4, ComesBack
    <3>2. Tokens' = Tokens /\ start' = Len(buf)
      BY <1>1, <1>3, <2>4, <3>1 DEF Tokens
    <3>. QED
      BY <1>1, <1>3, <3>1, <3>2 DEF TokenInv, Inv
  <2>. QED
    BY <1>1, <2>1, <2>2, <2>3, <2>4 DEF token_parser
<1>. QED
  BY <1>1, <1>2, <1>5 DEF Inv, DataInv, SinkInv, CountInv, SumInv, PipeInv, MessageInv

\* A step of any program
LEMMA InvStep == Inv /\ [Next]_vars => Inv'
<1>1. SUFFICES ASSUME Inv, [Next]_vars PROVE Inv'
  OBVIOUS
<1>2. CASE prog \in Generators /\ (LoopBody \/ LoopEnds \/ UNCHANGED vars)
  <2>1. /\ ValuesInv' /\ TurnInv' /\ Passed' = Passed /\ (Back' <=> Back)
        /\ UNCHANGED <<prog, buf, i, start>>
    BY <1>1, <1>2, Quiet
  <2>2. CountInv' /\ TokenInv' /\ MessageInv'
    BY <1>1, <2>1, StaysCounted
  <2>3. prog \notin Sinks
    BY <1>2 DEF Generators, Sinks
  <2>4. SumInv' /\ PipeInv' /\ DataInv' /\ SinkInv'
    BY <1>2, <2>1, <2>3 DEF SumInv, PipeInv, DataInv, SinkInv, Sinks
  <2>. QED
    BY <2>1, <2>2, <2>4 DEF Inv
<1>3. CASE Generate
  <2>1. prog \in {"demo_1", "state_machine", "token_parser", "binary_parser"}
    BY <1>3 DEF Generate
  <2>. QED
    BY <1>1, <1>3, <2>1, CountStep, TokenStep, MessageStep
<1>4. CASE prog \in Sinks /\ UNCHANGED vars
  <2>1. prog \notin Generators
    BY <1>4 DEF Generators, Sinks
  <2>2. ValuesInv' /\ SinkInv' /\ SumInv' /\ PipeInv'
    BY <1>1, <1>4 DEF vars, Inv, ValuesInv, SinkInv, SumInv, PipeInv, Series, Back
  <2>. QED
    BY <1>4, <2>1, <2>2 DEF vars, Inv, DataInv, TurnInv, CountInv, TokenInv, MessageInv, Generators, Sinks
<1>5. CASE Push \/ LeaveScope
  <2>1. prog \in {"consumer_demo", "pipeline"}
    BY <1>5 DEF Push, LeaveScope, Sinks
  <2>. QED
    BY <1>1, <1>5, <2>1, SumStep, PipeStep
<1>6. CASE accumulator
  BY <1>1, <1>6, SumStep DEF accumulator
<1>7. CASE multiply \/ output
  <2>1. prog = "pipeline"
    <3>1. multiply => prog = "pipeline"
      BY DEF multiply
    <3>2. CASE output
      <4>1. turn = "output"
        BY <3>2 DEF output
      <4>2. prog \in Generators \cup Sinks
        BY <1>1 DEF Inv, DataInv
      <4>3. prog \notin Generators
        BY <1>1, <4>1 DEF Inv, TurnInv
      <4>4. prog # "consumer_demo"
        BY <1>1, <4>1 DEF Inv, SumInv
      <4>. QED
        BY <4>2, <4>3, <4>4 DEF Sinks
    <3>. QED
      BY <1>7, <3>1, <3>2
  <2>. QED
    BY <1>1, <1>7, <2>1, PipeStep
<1>8. (LoopBody => prog \in Generators) /\ prog \in Generators \cup Sinks
  BY <1>1 DEF LoopBody, Inv, DataInv
<1>9. CASE LoopEnds /\ prog \in Sinks
  <2>1. FALSE
    BY <1>1, <1>9 DEF LoopEnds, Inv, SinkInv, Back
  <2>. QED
    BY <2>1
<1>. QED
  BY <1>1, <1>2, <1>3, <1>4, <1>5, <1>6, <1>7, <1>8, <1>9 DEF Next

\* What every program starts with
LEMMA InvInit == Init => Inv
<1>1. SUFFICES ASSUME Init PROVE Inv
  OBVIOUS
<1>2. /\ prog \in Generators \cup Sinks /\ buf \in Data(prog) /\ i = 0 /\ start = 0
      /\ value = << >> /\ seen = << >>
      /\ life = [s \in {"coroutine", "output"} |-> "suspended"]
      /\ turn = IF prog \in Generators THEN "coroutine" ELSE "run"
  BY <1>1 DEF Init
<1>3. DataInv /\ ValuesInv /\ TurnInv /\ SinkInv /\ ~Back
  BY <1>2 DEF DataInv, ValuesInv, TurnInv, SinkInv, Back
<1>4. Passed = << >> /\ Len(Passed) = 0 /\ DOMAIN Passed = {} /\ ToSet(Passed) = {}
  <2>1. Passed = << >>
    BY <1>2 DEF Passed
  <2>. QED
    BY <2>1 DEF ToSet
<1>5. \A f : Series(f, 0) = << >>
  BY ThreeSeries
<1>6. CountInv
  BY <1>2, <1>3, <1>4, <1>5 DEF CountInv
<1>7. prog \in Sinks => buf = <<1, 2, 3>> /\ turn = "run"
  BY <1>2 DEF Data, Generators, Sinks
<1>8. SumInv /\ PipeInv
  BY <1>2, <1>5, <1>7 DEF SumInv, PipeInv, Sinks
<1>9. \A S, m : SeqOf(S, m) \subseteq Seq(S)
  BY DEF SeqOf
<1>10. TokenInv
  <2>1. SUFFICES ASSUME prog = "token_parser" PROVE TokenInv
    BY DEF TokenInv
  <2>2. buf \in SeqOf(Letter, TextLen)
    <3>1. Data("token_parser") = SeqOf(Letter, TextLen)
      BY DEF Data, Sinks
    <3>. QED
      BY <1>2, <2>1, <3>1
  <2>3. buf \in Seq(Letter) /\ Len(buf) \in Nat
    <3>1. buf \in Seq(Letter)
      BY <1>9, <2>2
    <3>. QED
      BY <3>1
  <2>4. {t \in Tokens : t.at < start} = {}
    BY <1>2, <2>3 DEF Tokens
  <2>. QED
    BY <1>2, <1>3, <1>4, <2>3, <2>4 DEF TokenInv
<1>11. MessageInv
  <2>1. SUFFICES ASSUME prog = "binary_parser" PROVE MessageInv
    BY DEF MessageInv
  <2>2. buf \in SeqOf(Char, RawLen)
    <3>1. Data("binary_parser") = SeqOf(Char, RawLen)
      BY DEF Data, Sinks
    <3>. QED
      BY <1>2, <2>1, <3>1
  <2>3. buf \in Seq(Char) /\ Len(buf) \in Nat
    <3>1. buf \in Seq(Char)
      BY <1>9, <2>2
    <3>. QED
      BY <3>1
  <2>. QED
    BY <1>2, <1>3, <1>4, <2>3 DEF MessageInv, After
<1>. QED
  BY <1>3, <1>6, <1>8, <1>10, <1>11 DEF Inv

\* A number of values written out
LEMMA Written ==
  /\ Series(Before, 5) = <<0, 1, 2, 3, 4>> /\ Series(Before, 3) = <<0, 1, 2>>
  /\ Series(Itself, 3) = <<1, 2, 3>> /\ Series(Twice, 3) = <<2, 4, 6>>
<1>1. Series(Before, 5) = <<0, 1, 2, 3, 4>>
  <2>1. PICK s : s = Series(Before, 5)
    OBVIOUS
  <2>2. s \in Seq(Int) /\ Len(s) = 5 /\ s[1] = 0 /\ s[2] = 1 /\ s[3] = 2 /\ s[4] = 3 /\ s[5] = 4
    BY <2>1 DEF Series, Before
  <2>3. PICK t : t = <<0, 1, 2, 3, 4>>
    OBVIOUS
  <2>4. t \in Seq(Int) /\ Len(t) = 5 /\ t[1] = 0 /\ t[2] = 1 /\ t[3] = 2 /\ t[4] = 3 /\ t[5] = 4
    BY <2>3
  <2>5. \A k \in 1..5 : s[k] = t[k]
    <3>1. \A k \in 1..5 : k = 1 \/ k = 2 \/ k = 3 \/ k = 4 \/ k = 5
      OBVIOUS
    <3>. QED
      BY <2>2, <2>4, <3>1
  <2>6. s = t
    BY <2>2, <2>4, <2>5, SeqEqual
  <2>. QED
    BY <2>1, <2>3, <2>6
<1>2. ASSUME NEW f \in [Nat -> Int], NEW a, NEW b, NEW c, f[1] = a, f[2] = b, f[3] = c
      PROVE  Series(f, 3) = <<a, b, c>>
  <2>1. PICK s : s = Series(f, 3)
    OBVIOUS
  <2>2. s \in Seq(Int) /\ Len(s) = 3 /\ s[1] = a /\ s[2] = b /\ s[3] = c
    BY <1>2, <2>1 DEF Series
  <2>3. PICK t : t = <<a, b, c>>
    OBVIOUS
  <2>4. a \in Int /\ b \in Int /\ c \in Int
    BY <1>2
  <2>5. t \in Seq(Int) /\ Len(t) = 3 /\ t[1] = a /\ t[2] = b /\ t[3] = c
    BY <2>3, <2>4
  <2>6. \A k \in 1..3 : s[k] = t[k]
    <3>1. \A k \in 1..3 : k = 1 \/ k = 2 \/ k = 3
      OBVIOUS
    <3>. QED
      BY <2>2, <2>5, <3>1
  <2>7. s = t
    BY <2>2, <2>5, <2>6, SeqEqual
  <2>. QED
    BY <2>1, <2>3, <2>7
<1>3. /\ Before \in [Nat -> Int] /\ Before[1] = 0 /\ Before[2] = 1 /\ Before[3] = 2
      /\ Itself \in [Nat -> Int] /\ Itself[1] = 1 /\ Itself[2] = 2 /\ Itself[3] = 3
      /\ Twice \in [Nat -> Int] /\ Twice[1] = 2 /\ Twice[2] = 4 /\ Twice[3] = 6
  BY DEF Before, Itself, Twice
<1>. QED
  BY <1>1, <1>2, <1>3

\* For every width of a char, every text and every buffer, of any length: what the
\* consumers see is what the data say.
THEOREM DecodedAlways == Spec => []Decoded
<1>1. Inv => Decoded
  <2>1. SUFFICES ASSUME Inv PROVE Decoded
    OBVIOUS
  <2>2. /\ seen \in Seq(Values) /\ DOMAIN seen = 1..Len(seen) /\ Len(seen) \in Nat
        /\ value = << >> \/ \E v \in Values : value = <<v>>
    BY <2>1 DEF Inv, ValuesInv
  <2>3. /\ DOMAIN seen \subseteq DOMAIN Passed /\ \A n \in DOMAIN seen : Passed[n] = seen[n]
        /\ value = << >> => Passed = seen
    <3>1. CASE value = << >>
      BY <3>1 DEF Passed
    <3>2. CASE value # << >>
      <4>1. PICK v \in Values : value = <<v>>
        BY <2>2, <3>2
      <4>2. Passed = Append(seen, v)
        BY <3>2, <4>1, OneValue DEF Passed
      <4>3. /\ DOMAIN seen = 1..Len(seen) /\ DOMAIN Append(seen, v) = 1..(Len(seen) + 1)
            /\ \A k \in 1..Len(seen) : Append(seen, v)[k] = seen[k]
        BY <2>2, OneMore
      <4>4. 1..Len(seen) \subseteq 1..(Len(seen) + 1)
        BY <2>2
      <4>. QED
        BY <3>2, <4>2, <4>3, <4>4
    <3>. QED
      BY <3>1, <3>2
  <2>4. prog \in Generators /\ turn = "over" => value = << >> /\ Back
    BY <2>1 DEF Inv, TurnInv, Back
  <2>5. ASSUME prog = "binary_parser"
        PROVE  /\ \A n \in DOMAIN seen : HeaderAt(seen[n], Begin(n - 1))
               /\ turn = "over" => LET rest == Len(buf) - Begin(Len(seen))
                                   IN  rest < 2 \/ rest < 2 + Unsigned(buf[Begin(Len(seen)) + 2])
    <3>1. ASSUME NEW n \in 0..Len(seen) PROVE After(Passed, n) = Begin(n)
      <4>1. n # 0 => Passed[n] = seen[n]
        BY <2>2, <2>3
      <4>. QED
        BY <4>1 DEF After, Begin
    <3>2. ASSUME NEW n \in DOMAIN seen PROVE HeaderAt(seen[n], Begin(n - 1))
      <4>1. n - 1 \in 0..Len(seen) /\ n \in DOMAIN Passed /\ Passed[n] = seen[n]
        BY <2>2, <2>3
      <4>2. HeaderAt(Passed[n], After(Passed, n - 1))
        BY <2>1, <2>5, <4>1 DEF Inv, MessageInv
      <4>. QED
        BY <3>1, <4>1, <4>2
    <3>3. ASSUME turn = "over"
          PROVE  LET rest == Len(buf) - Begin(Len(seen))
                 IN  rest < 2 \/ rest < 2 + Unsigned(buf[Begin(Len(seen)) + 2])
      <4>1. Passed = seen /\ Back
        BY <2>3, <2>4, <2>5, <3>3 DEF Generators
      <4>2. Len(seen) \in 0..Len(seen)
        BY <2>2
      <4>3. After(Passed, Len(seen)) = Begin(Len(seen))
        BY <3>1, <4>2
      <4>4. i = Begin(Len(seen))
        BY <2>1, <2>5, <4>1, <4>3 DEF Inv, MessageInv
      <4>5. LET rest == Len(buf) - i IN rest < 2 \/ rest < 2 + Unsigned(buf[i + 2])
        BY <2>1, <2>5, <4>1 DEF Inv, MessageInv
      <4>. QED
        BY <4>4, <4>5
    <3>. QED
      BY <3>2, <3>3
  <2>6. ASSUME prog = "token_parser"
        PROVE  /\ ToSet(seen) \subseteq Tokens
               /\ \A m, n \in DOMAIN seen : m < n => seen[m].at < seen[n].at
               /\ turn = "over" => Tokens \subseteq ToSet(seen)
    <3>1. /\ buf \in Seq(Letter) /\ ToSet(Passed) = {t \in Tokens : t.at < start}
          /\ \A m, n \in DOMAIN Passed : m < n => Passed[m].at < Passed[n].at
          /\ Back => start = Len(buf)
      BY <2>1, <2>6 DEF Inv, TokenInv
    <3>2. ToSet(seen) \subseteq ToSet(Passed)
      BY <2>3 DEF ToSet
    <3>3. ASSUME NEW m \in DOMAIN seen, NEW n \in DOMAIN seen, m < n PROVE seen[m].at < seen[n].at
      <4>1. m \in DOMAIN Passed /\ n \in DOMAIN Passed /\ Passed[m] = seen[m] /\ Passed[n] = seen[n]
        BY <2>3
      <4>. QED
        BY <3>1, <3>3, <4>1
    <3>4. ASSUME turn = "over", NEW t \in Tokens PROVE t \in ToSet(seen)
      <4>1. Passed = seen /\ start = Len(buf)
        BY <2>3, <2>4, <2>6, <3>1, <3>4 DEF Generators
      <4>2. t.at < Len(buf)
        <5>1. /\ t.at \in 0..Len(buf) /\ t.size \in 0..Len(buf) /\ t.at + t.size <= Len(buf)
              /\ t.at + t.size = Len(buf) => t.size > 0
          BY DEF Tokens
        <5>2. Len(buf) \in Nat
          BY <3>1
        <5>. QED
          BY <5>1, <5>2
      <4>. QED
        BY <3>1, <4>1, <4>2
    <3>. QED
      BY <3>1, <3>2, <3>3, <3>4
  <2>7. ASSUME turn = "over"
        PROVE  /\ prog = "demo_1" => seen = <<0, 1, 2, 3, 4>>
               /\ prog = "state_machine" => seen = <<0, 1, 2>>
               /\ prog = "consumer_demo" => seen = <<1, 2, 3>>
               /\ prog = "pipeline" => seen = <<2, 4, 6>>
    <3>1. ASSUME prog \in {"demo_1", "state_machine"} PROVE Passed = seen /\ Back
      BY <2>3, <2>4, <2>7, <3>1 DEF Generators
    <3>2. prog = "demo_1" => seen = Series(Before, 5)
      BY <2>1, <3>1 DEF Inv, CountInv
    <3>3. prog = "state_machine" => seen = Series(Before, 3)
      BY <2>1, <3>1 DEF Inv, CountInv
    <3>4. prog = "consumer_demo" => seen = Series(Itself, 3)
      BY <2>1, <2>7 DEF Inv, SumInv
    <3>5. prog = "pipeline" => seen = Series(Twice, 3)
      BY <2>1, <2>7 DEF Inv, PipeInv
    <3>. QED
      BY <3>2, <3>3, <3>4, <3>5, Written, Zenon
  <2>8. turn = "over" => CASE prog = "demo_1"        -> seen = <<0, 1, 2, 3, 4>>
                           [] prog = "state_machine" -> seen = <<0, 1, 2>>
                           [] prog = "consumer_demo" -> seen = <<1, 2, 3>>
                           [] prog = "pipeline"      -> seen = <<2, 4, 6>>
                           [] OTHER                  -> TRUE
    BY <2>7
  <2>. QED
    BY <2>5, <2>6, <2>8 DEF Decoded
<1>. QED
  BY <1>1, InvInit, InvStep, PTL DEF Spec

(* The fibers                                                              *)

UpTo(n) == [k \in 1..n |-> k - 1]

\* The producer is next, the consumer is next, the consumer is alone, the end.
ProducerTurn ==
    /\ ready = <<"producer", "consumer">> /\ ended = {}
    /\ ~done /\ buffer = << >> /\ consumed = UpTo(pushed)

ConsumerTurn ==
    /\ ready = <<"consumer", "producer">> /\ ended = {}
    /\ ~done /\ pushed > 0 /\ buffer = <<pushed - 1>> /\ consumed = UpTo(pushed - 1)

ConsumerAlone ==
    /\ ready = <<"consumer">> /\ ended = {"producer"}
    /\ done /\ pushed = N /\ buffer = << >> /\ consumed = UpTo(N)

Finished ==
    /\ ready = << >> /\ ended = {"producer", "consumer"}
    /\ done /\ pushed = N /\ buffer = << >> /\ consumed = UpTo(N)

Phases ==
    /\ pushed \in 0..N
    /\ ProducerTurn \/ ConsumerTurn \/ ConsumerAlone \/ Finished

\* Counting one element further
LEMMA UpToAppend ==
  ASSUME NEW n \in Nat
  PROVE  Append(UpTo(n), n) = UpTo(n + 1)
<1>1. UpTo(n) \in Seq(Int) /\ Len(UpTo(n)) = n
  BY DEF UpTo
<1>2. UpTo(n + 1) \in Seq(Int) /\ Len(UpTo(n + 1)) = n + 1
  BY DEF UpTo
<1>3. Append(UpTo(n), n) \in Seq(Int) /\ Len(Append(UpTo(n), n)) = n + 1
  BY <1>1, AppendProperties
<1>4. \A k \in 1..(n + 1) : Append(UpTo(n), n)[k] = UpTo(n + 1)[k]
  BY <1>1, AppendProperties DEF UpTo
<1>. QED
  BY <1>2, <1>3, <1>4, SeqEqual

\* The empty count is the empty sequence.
LEMMA UpToZero == UpTo(0) = << >>
  BY DEF UpTo

\* A fiber that yields goes behind the other one.
LEMMA Rotate ==
  ASSUME NEW S, NEW a \in S, NEW b \in S
  PROVE  Append(Tail(<<a, b>>), a) = <<b, a>>
<1>1. <<a, b>> \in Seq(S) /\ Len(<<a, b>>) = 2 /\ <<a, b>> # << >>
  OBVIOUS
<1>2. PICK t \in Seq(S) : t = Tail(<<a, b>>)
  BY <1>1, HeadTailProperties
<1>3. Len(t) = 1 /\ t[1] = b
  BY <1>1, <1>2, HeadTailProperties
<1>4. t = <<b>>
  BY <1>3
<1>5. Append(<<b>>, a) = <<b, a>>
  <2>1. /\ Append(<<b>>, a) \in Seq(S) /\ Len(Append(<<b>>, a)) = 2
        /\ Append(<<b>>, a)[1] = b /\ Append(<<b>>, a)[2] = a
    OBVIOUS
  <2>2. /\ <<b, a>> \in Seq(S) /\ Len(<<b, a>>) = 2
        /\ <<b, a>>[1] = b /\ <<b, a>>[2] = a
    OBVIOUS
  <2>3. \A k \in 1..2 : Append(<<b>>, a)[k] = <<b, a>>[k]
    BY <2>1, <2>2
  <2>. QED
    BY <2>1, <2>2, <2>3, SeqEqual
<1>. QED
  BY <1>2, <1>4, <1>5, Zenon

\* The two fibers take turns.
LEMMA Turns ==
  /\ Append(Tail(<<"producer", "consumer">>), "producer")
       = <<"consumer", "producer">>
  /\ Append(Tail(<<"consumer", "producer">>), "consumer")
       = <<"producer", "consumer">>
<1>. DEFINE S == {"producer", "consumer"}
<1>1. "producer" \in S /\ "consumer" \in S
  OBVIOUS
<1>. HIDE DEF S
<1>. QED
  BY <1>1, Rotate

\* The phases are an inductive invariant.
LEMMA PhasesInductive == Phases /\ [FibersNext]_fiberVars => Phases'
<1>. SUFFICES ASSUME Phases, [FibersNext]_fiberVars PROVE Phases'
  OBVIOUS
<1>. USE NAssumption
<1>1. CASE Produce
  <2>1. ProducerTurn /\ pushed < N /\ pushed \in Nat
    BY <1>1 DEF Produce, Runs, Phases, ProducerTurn, ConsumerTurn,
                ConsumerAlone, Finished
  <2>2. /\ ready' = <<"consumer", "producer">> /\ ended' = {}
        /\ buffer' = <<pushed>> /\ pushed' = pushed + 1
        /\ consumed' = UpTo(pushed) /\ done' = done /\ ~done
    <3>1. ready' = Append(Tail(ready), "producer") /\ ended' = ended
      BY <1>1 DEF Produce, FiberYields
    <3>2. ready' = <<"consumer", "producer">>
      BY <2>1, <3>1, Turns DEF ProducerTurn
    <3>3. buffer' = Append(<< >>, pushed)
      BY <1>1, <2>1 DEF Produce, ProducerTurn
    <3>4. buffer' = <<pushed>>
      BY <3>3
    <3>. QED
      BY <1>1, <2>1, <3>1, <3>2, <3>4 DEF Produce, ProducerTurn
  <2>3. pushed' > 0 /\ pushed' \in 0..N /\ pushed' - 1 = pushed
    BY <2>1, <2>2
  <2>4. ConsumerTurn'
    BY <2>2, <2>3 DEF ConsumerTurn
  <2>. QED
    BY <2>3, <2>4 DEF Phases
<1>2. CASE Finish
  <2>1. ProducerTurn
    BY <1>2 DEF Finish, Runs, Phases, ProducerTurn, ConsumerTurn,
                ConsumerAlone, Finished
  <2>2. ConsumerAlone'
    BY <1>2, <2>1 DEF Finish, FiberReturns, ProducerTurn, ConsumerAlone
  <2>. QED
    BY <1>2, <2>2 DEF Finish, Phases
<1>3. CASE Consume
  <2>1. ConsumerTurn /\ pushed \in 1..N
    BY <1>3 DEF Consume, Runs, Phases, ProducerTurn, ConsumerTurn,
                ConsumerAlone, Finished
  <2>2. /\ ready' = <<"producer", "consumer">> /\ ended' = {}
        /\ buffer' = << >> /\ pushed' = pushed /\ done' = done /\ ~done
        /\ consumed' = Append(UpTo(pushed - 1), pushed - 1)
    <3>1. ready' = Append(Tail(ready), "consumer") /\ ended' = ended
      BY <1>3 DEF Consume, FiberYields
    <3>2. ready' = <<"producer", "consumer">>
      BY <2>1, <3>1, Turns DEF ConsumerTurn
    <3>3. Head(buffer) = pushed - 1 /\ Len(buffer) = 1
      BY <2>1 DEF ConsumerTurn
    <3>4. buffer' = SubSeq(buffer, 1, 0)
      BY <1>3, <3>3 DEF Consume
    <3>5. buffer' = << >>
      BY <3>4, SubSeqEmpty
    <3>6. consumed' = Append(UpTo(pushed - 1), pushed - 1)
      BY <1>3, <2>1, <3>3 DEF Consume, ConsumerTurn
    <3>. QED
      BY <1>3, <2>1, <3>1, <3>2, <3>5, <3>6 DEF Consume, ConsumerTurn
  <2>3. consumed' = UpTo(pushed')
    <3>1. pushed - 1 \in Nat /\ (pushed - 1) + 1 = pushed
      BY <2>1
    <3>2. Append(UpTo(pushed - 1), pushed - 1) = UpTo((pushed - 1) + 1)
      BY <3>1, UpToAppend
    <3>. QED
      BY <2>2, <3>1, <3>2
  <2>4. ProducerTurn'
    BY <2>2, <2>3 DEF ProducerTurn
  <2>. QED
    BY <2>1, <2>2, <2>4 DEF Phases
<1>4. CASE Leave
  <2>1. ConsumerAlone
    BY <1>4 DEF Leave, Runs, Phases, ProducerTurn, ConsumerTurn,
                ConsumerAlone, Finished
  <2>2. Finished'
    BY <1>4, <2>1 DEF Leave, FiberReturns, ConsumerAlone, Finished
  <2>. QED
    BY <1>4, <2>2 DEF Leave, Phases
<1>5. CASE UNCHANGED fiberVars
  BY <1>5 DEF fiberVars, Phases, ProducerTurn, ConsumerTurn, ConsumerAlone, Finished
<1>. QED
  BY <1>1, <1>2, <1>3, <1>4, <1>5 DEF FibersNext

\* They hold always.
LEMMA PhasesInvariant == FibersSpec => []Phases
<1>1. FibersInit => Phases
  BY NAssumption, UpToZero DEF FibersInit, Phases, ProducerTurn
<1>. QED
  BY <1>1, PhasesInductive, PTL DEF FibersSpec

\* front() and pop_back() are never called on an empty vector, for every N.
THEOREM FrontIsSafe == FibersSpec => []NeverEmpty
<1>1. Phases => NeverEmpty
  <2>1. ProducerTurn => ~Runs("consumer")
    BY DEF ProducerTurn, Runs
  <2>2. ConsumerTurn => buffer # << >>
    BY DEF ConsumerTurn
  <2>3. ConsumerAlone \/ Finished => done
    BY DEF ConsumerAlone, Finished
  <2>. QED
    BY <2>1, <2>2, <2>3 DEF Phases, NeverEmpty
<1>. QED
  BY <1>1, PhasesInvariant, PTL

\* The consumer takes the elements in order, each once, for every N.
THEOREM InOrder == FibersSpec => []ConsumedInOrder
<1>1. Phases => ConsumedInOrder
  <2>. SUFFICES ASSUME Phases PROVE ConsumedInOrder
    OBVIOUS
  <2>1. PICK n \in Nat : consumed = UpTo(n)
    <3>1. pushed \in Nat /\ (pushed > 0 => pushed - 1 \in Nat)
      BY NAssumption DEF Phases
    <3>. QED
      BY <3>1, NAssumption DEF Phases, ProducerTurn, ConsumerTurn,
                               ConsumerAlone, Finished
  <2>2. Len(consumed) = n
    BY <2>1 DEF UpTo
  <2>3. Len(buffer) <= 1
    <3>1. buffer = << >> \/ buffer = <<pushed - 1>>
      BY DEF Phases, ProducerTurn, ConsumerTurn, ConsumerAlone, Finished
    <3>2. CASE buffer = << >>
      BY <3>2
    <3>3. CASE buffer = <<pushed - 1>>
      BY <3>3
    <3>. QED
      BY <3>1, <3>2, <3>3
  <2>4. consumed = [k \in 1..Len(consumed) |-> k - 1]
    BY <2>1, <2>2 DEF UpTo
  <2>. QED
    BY <2>3, <2>4 DEF ConsumedInOrder
<1>. QED
  BY <1>1, PhasesInvariant, PTL

\* When both fibers have returned, all N elements were consumed.
THEOREM NothingLeft == FibersSpec => []AllConsumed
<1>1. Phases => AllConsumed
  <2>1. Len(UpTo(N)) = N
    BY NAssumption DEF UpTo
  <2>. QED
    BY <2>1 DEF Phases, ProducerTurn, ConsumerTurn, ConsumerAlone, Finished,
                AllConsumed
<1>. QED
  BY <1>1, PhasesInvariant, PTL
====
