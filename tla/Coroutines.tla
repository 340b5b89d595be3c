---- MODULE Coroutines ----
(***************************************************************************)
(* src/Coroutines/main.cpp: parsers, a state machine and a pipeline on     *)
(* Boost.Coroutine2.                                                       *)
(*                                                                         *)
(* One stack runs at a time (turn).  A pull_type starts its coroutine when *)
(* it is constructed and passes it control for every further value; the    *)
(* coroutine gives a value and control back with yield().  A push_type     *)
(* passes a value with control, and its coroutine waits for the next one:  *)
(* it is never told that there is none.  At the end of the scope it is     *)
(* destroyed, and its stack unwound, in the middle of its loop.            *)
(*                                                                         *)
(* The parsers do not copy: what they yield points into the buffer.        *)
(***************************************************************************)
EXTENDS Integers, Sequences, SequencesExt

CONSTANTS Width,       \* the number of values of an unsigned char (256 in the code)
          TextLen,     \* bound: length of a text
          RawLen       \* bound: length of a binary buffer

ASSUME WidthAssumption == Width \in Nat /\ Width > 0 /\ Width % 2 = 0
ASSUME BoundAssumption == TextLen \in Nat /\ RawLen \in Nat

VARIABLES
    prog,    \* the namespace whose run() is called
    buf,     \* its data
    turn,    \* the stack that runs: "run", "coroutine", "output"; "over" at the end
    i,       \* the loop variable of the coroutine; of run(), when that pushes
    start,   \* of token_parser
    value,   \* the value that is being passed, if any
    seen,    \* the values the consumer's loop has been executed with
    life     \* the stacks: "suspended" or running, "returned" or "unwound"

vars == <<prog, buf, turn, i, start, value, seen, life>>

Generators == {"demo_1", "state_machine", "token_parser", "binary_parser"}
Sinks      == {"consumer_demo", "pipeline"}

\* char is signed.
Char   == -(Width \div 2)..(Width \div 2 - 1)
Blank  == " "
Letter == {Blank, "a"}

Data(p) ==
    CASE p = "token_parser"  -> SeqOf(Letter, TextLen)
      [] p = "binary_parser" -> SeqOf(Char, RawLen)
      [] p \in Sinks         -> {<<1, 2, 3>>}
      [] OTHER               -> {<< >>}

Init ==
    /\ prog \in Generators \cup Sinks
    /\ buf \in Data(prog)
    /\ turn = IF prog \in Generators THEN "coroutine" ELSE "run"
    /\ i = 0
    /\ start = 0
    /\ value = << >>
    /\ seen = << >>
    /\ life = [s \in {"coroutine", "output"} |-> "suspended"]

(* The coroutines that yield.                                              *)

Yield(v) == value' = <<v>> /\ turn' = "run" /\ UNCHANGED life

Return ==
    /\ life' = [life EXCEPT !["coroutine"] = "returned"]
    /\ turn' = "run"
    /\ UNCHANGED <<i, start, value>>

producer ==
    \/ i < 5 /\ Yield(i) /\ i' = i + 1 /\ UNCHANGED start
    \/ i = 5 /\ Return

state_machine ==
    \/ i < 3 /\ Yield(i) /\ i' = i + 1 /\ UNCHANGED start
    \/ i = 3 /\ Return

Token(from, to) == [at |-> from, size |-> to - from]

\* mutant: the rest is yielded although it is empty
token_parser_empty ==
    \/ /\ i < Len(buf)
       /\ i' = i + 1
       /\ IF buf[i + 1] = Blank THEN Yield(Token(start, i)) /\ start' = i + 1
          ELSE UNCHANGED <<turn, value, life, start>>
    \/ /\ i = Len(buf)
       /\ i' = i + 1
       /\ Yield(Token(start, Len(buf))) /\ start' = Len(buf)
    \/ i > Len(buf) /\ Return

\* One action per character, one for what is left after the last.
token_parser ==
    \/ /\ i < Len(buf)
       /\ i' = i + 1
       /\ IF buf[i + 1] = Blank THEN Yield(Token(start, i)) /\ start' = i + 1
          ELSE UNCHANGED <<turn, value, life, start>>
    \/ /\ i = Len(buf) /\ start < Len(buf)
       /\ Yield(Token(start, Len(buf))) /\ start' = Len(buf)
       /\ UNCHANGED i
    \/ i = Len(buf) /\ start >= Len(buf) /\ Return

\* The conversion of a char to unsigned char
Unsigned(c) == c % Width

Message(from) ==
    [type |-> Unsigned(buf[from + 1]), at |-> from + 2, size |-> Unsigned(buf[from + 2])]

\* mutant: continue for break, when a message is not complete
binary_parser_continue ==
    LET fits == i + 2 <= Len(buf)
    IN  \/ /\ fits /\ i + 2 + Unsigned(buf[i + 2]) <= Len(buf)
           /\ Yield(Message(i))
           /\ i' = i + 2 + Unsigned(buf[i + 2])
           /\ UNCHANGED start
        \/ fits /\ i + 2 + Unsigned(buf[i + 2]) > Len(buf)
           /\ UNCHANGED <<i, start, value, turn, life>>
        \/ ~fits /\ Return

\* A message that is not complete is dropped, and all that follows it.
binary_parser ==
    LET whole == i + 2 <= Len(buf) /\ i + 2 + Unsigned(buf[i + 2]) <= Len(buf)
    IN  \/ /\ whole
           /\ Yield(Message(i))
           /\ i' = i + 2 + Unsigned(buf[i + 2])
           /\ UNCHANGED start
        \/ ~whole /\ Return

Generate ==
    /\ turn = "coroutine"
    /\ \/ prog = "demo_1" /\ producer
       \/ prog = "state_machine" /\ state_machine
       \/ prog = "token_parser" /\ token_parser
       \/ prog = "binary_parser" /\ binary_parser
    /\ UNCHANGED <<prog, buf, seen>>

(* run() of a pull_type: for (v : source).                                 *)

LoopBody ==
    /\ turn = "run" /\ prog \in Generators /\ value # << >>
    /\ seen' = seen \o value
    /\ value' = << >>
    /\ turn' = "coroutine"
    /\ UNCHANGED <<prog, buf, i, start, life>>

LoopEnds ==
    /\ turn = "run" /\ life["coroutine"] = "returned" /\ value = << >>
    /\ turn' = "over"
    /\ UNCHANGED <<prog, buf, i, start, value, seen, life>>

(* run() of a push_type: sink(1), sink(2), sink(3).                        *)

Push ==
    /\ turn = "run" /\ prog \in Sinks /\ i < Len(buf)
    /\ value' = <<buf[i + 1]>>
    /\ i' = i + 1
    /\ turn' = "coroutine"
    /\ UNCHANGED <<prog, buf, start, seen, life>>

\* What follows the loop of accumulator, the output of the sum, is not executed.
\* transform is destroyed before output, to which it holds a reference.
LeaveScope ==
    /\ turn = "run" /\ prog \in Sinks /\ i = Len(buf)
    /\ IF life["coroutine"] = "suspended"
       THEN life' = [life EXCEPT !["coroutine"] = "unwound"] /\ UNCHANGED turn
       ELSE life' = [life EXCEPT !["output"] = "unwound"] /\ turn' = "over"
    /\ UNCHANGED <<prog, buf, i, start, value, seen>>

accumulator ==
    /\ turn = "coroutine" /\ prog = "consumer_demo"
    /\ seen' = seen \o value
    /\ value' = << >>
    /\ turn' = "run"
    /\ UNCHANGED <<prog, buf, i, start, life>>

\* out(v * 2) runs output and comes back here; then the next value is waited for.
multiply ==
    /\ turn = "coroutine" /\ prog = "pipeline"
    /\ value' = [n \in DOMAIN value |-> value[n] * 2]
    /\ turn' = IF value # << >> THEN "output" ELSE "run"
    /\ UNCHANGED <<prog, buf, i, start, seen, life>>

output ==
    /\ turn = "output"
    /\ seen' = seen \o value
    /\ value' = << >>
    /\ turn' = "coroutine"
    /\ UNCHANGED <<prog, buf, i, start, life>>

Next ==
    \/ Generate \/ LoopBody \/ LoopEnds
    \/ Push \/ LeaveScope \/ accumulator \/ multiply \/ output

\* There is one thread, and it runs.
Spec == Init /\ [][Next]_vars /\ WF_vars(Next)

(* Properties.                                                             *)

\* The tokens of a text, by their definition: what is between two blanks, or the
\* ends of the text, empty tokens included but for the one at the end.
Tokens ==
    {t \in [at : 0..Len(buf), size : 0..Len(buf)] :
        LET end == t.at + t.size
        IN  /\ end <= Len(buf)
            /\ t.at = 0 \/ buf[t.at] = Blank
            /\ IF end = Len(buf) THEN t.size > 0 ELSE buf[end + 1] = Blank
            /\ \A n \in t.at + 1..end : buf[n] # Blank}

\* The messages stand in the buffer one behind the other: where the one behind the
\* first n begins
Begin(n) == IF n = 0 THEN 0 ELSE seen[n].at + seen[n].size

\* A message whose two header bytes are the first ones behind the place from
HeaderAt(m, from) ==
    /\ m.at = from + 2 /\ m.at + m.size <= Len(buf)
    /\ m.type = Unsigned(buf[from + 1]) /\ m.size = Unsigned(buf[from + 2])

\* What the consumers see is what the data say.  The messages of binary_parser are
\* the data, without a gap, up to the first that is incomplete; token_parser finds
\* every token once and in its place.  No payload leaves the buffer, and a value is
\* never passed twice or lost between two stacks.
Decoded ==
    /\ prog = "binary_parser" =>
          /\ \A n \in DOMAIN seen : HeaderAt(seen[n], Begin(n - 1))
          /\ turn = "over" =>
                LET rest == Len(buf) - Begin(Len(seen))
                IN  rest < 2 \/ rest < 2 + Unsigned(buf[Begin(Len(seen)) + 2])
    /\ prog = "token_parser" =>
          /\ ToSet(seen) \subseteq Tokens
          /\ \A m, n \in DOMAIN seen : m < n => seen[m].at < seen[n].at
          /\ turn = "over" => Tokens \subseteq ToSet(seen)
    /\ turn = "over" =>
          CASE prog = "demo_1"        -> seen = <<0, 1, 2, 3, 4>>
            [] prog = "state_machine" -> seen = <<0, 1, 2>>
            [] prog = "consumer_demo" -> seen = <<1, 2, 3>>
            [] prog = "pipeline"      -> seen = <<2, 4, 6>>
            [] OTHER                  -> TRUE

\* Every parser comes to the end of every buffer.  A coroutine that yields returns
\* by itself; one that is pushed never gets behind its loop.
CoroutineEnds ==
    /\ <>(turn = "over")
    /\ []((turn = "over") =>
            life["coroutine"] = IF prog \in Generators THEN "returned" ELSE "unwound")
====
