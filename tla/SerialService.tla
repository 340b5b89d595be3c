---- MODULE SerialService ----
(***************************************************************************)
(* src/Serial/Serial.cpp: a thread runs ctx.run() for a clock (a timer     *)
(* that is re-armed every second), a serial port that is read line by line *)
(* and the console input that a second thread posts to it.  Ctrl+C makes   *)
(* the second thread call Service::stop(), which touches the timer, the    *)
(* port and m_stop without a lock.  The device may be lost (unplugged, or  *)
(* hung up); the read that meets it fails, and no handler starts another.  *)
(***************************************************************************)
EXTENDS Integers, Sequences, FiniteSets, SequencesExt

CONSTANTS Lines,    \* the lines the device may send, each a sequence of tokens
          MaxLines, \* bound: lines the device sends
          MaxKeys,  \* bound: keys typed before Ctrl+C
          LineMax   \* the last column index of the input echo (60)

ASSUME BoundAssumption == {MaxLines, MaxKeys, LineMax} \subseteq Nat

\* A token is a digit, a character that is no part of a number, or a newline.
Token == {"d1", "d2", "x", "nl"}
Digit == {"d1", "d2"}

\* A line ends with its one newline.
ASSUME LinesAssumption ==
    \A l \in Lines : /\ l \in Seq(Token) /\ l # << >>
                     /\ \A i \in 1..Len(l) : l[i] = "nl" <=> i = Len(l)

VARIABLES
    con,        \* the console thread: what it does next
    typed,      \* keys typed
    posted,     \* input handlers posted and not yet run
    m_charCount,
    m_stop,
    timer,      \* m_timer: "none", "waiting", or a completion "fired"/"aborted"
    port,       \* the read of m_port: "none", "reading", or a completion that
                \* is queued: "read", "failed" (cancelled, or an error of the device)
    m_serialData,
    wire,       \* what the device sent and the port has not read
    sent,       \* history: the lines the device sent
    lost,       \* the device is gone
    whole,      \* every line arrives in one piece
    shown,      \* history: the numbers displayed
    io          \* the thread of ctx.run(): "idle", inside a handler, "returned"

vars == <<con, typed, posted, m_charCount, m_stop, timer, port, m_serialData,
          wire, sent, lost, whole, shown, io>>

console == <<con, typed, m_stop>>
device  == <<wire, sent, lost, whole>>

\* The constructor arms the timer; openSerialPort starts the first read.
Init ==
    /\ con = "getchar"
    /\ typed = 0
    /\ posted = 0
    /\ m_charCount = 0
    /\ m_stop = FALSE
    /\ timer = "waiting"
    /\ port = "reading"
    /\ m_serialData = << >>
    /\ wire = << >>
    /\ sent = << >>
    /\ lost = FALSE
    /\ whole \in BOOLEAN
    /\ shown = << >>
    /\ io = "idle"

(* The console thread.                                                     *)

\* A key other than Ctrl+C is posted to the context.
Key ==
    /\ con = "getchar"
    /\ typed < MaxKeys
    /\ typed' = typed + 1
    /\ posted' = posted + 1
    /\ UNCHANGED <<con, m_charCount, m_stop, timer, port, m_serialData, device,
                   shown, io>>

CtrlC ==
    /\ con = "getchar"
    /\ con' = "cancelTimer"
    /\ UNCHANGED <<typed, posted, m_charCount, m_stop, timer, port,
                   m_serialData, device, shown, io>>

\* stop() is three steps of the console thread: cancel the wait of the timer,
\* cancel the read of the port, set m_stop.  A cancel finds only what is waiting
\* at that moment.
CancelTimer ==
    /\ con = "cancelTimer"
    /\ con' = "cancelPort"
    /\ timer' = IF timer = "waiting" THEN "aborted" ELSE timer
    /\ UNCHANGED <<typed, posted, m_charCount, m_stop, port, m_serialData,
                   device, shown, io>>

CancelPort ==
    /\ con = "cancelPort"
    /\ con' = "setStop"
    /\ port' = IF port = "reading" THEN "failed" ELSE port
    /\ UNCHANGED <<typed, posted, m_charCount, m_stop, timer, m_serialData,
                   device, shown, io>>

\* mutant: stop() does not set m_stop
SetStop_forget ==
    /\ con = "setStop"
    /\ con' = "ended"
    /\ UNCHANGED <<typed, posted, m_charCount, m_stop, timer, port,
                   m_serialData, device, shown, io>>

SetStop ==
    /\ con = "setStop"
    /\ con' = "ended"
    /\ m_stop' = TRUE
    /\ UNCHANGED <<typed, posted, m_charCount, timer, port, m_serialData,
                   device, shown, io>>

(* The device.  The port hands over what has arrived, not whole lines.     *)

SendLine ==
    /\ ~lost
    /\ Len(sent) < MaxLines
    /\ \E l \in Lines :
         /\ sent' = Append(sent, l)
         /\ wire' = wire \o l
    /\ UNCHANGED <<console, posted, m_charCount, timer, port, m_serialData,
                   lost, whole, shown, io>>

LoseDevice ==
    /\ ~lost
    /\ lost' = TRUE
    /\ UNCHANGED <<console, posted, m_charCount, timer, port, m_serialData,
                   wire, sent, whole, shown, io>>

HasLine == "nl" \in ToSet(m_serialData)

\* One read of async_read_until.
PortRead ==
    /\ port = "reading"
    /\ wire # << >>
    /\ \E n \in 1..Len(wire) :
         /\ whole => wire[n] = "nl" /\ "nl" \notin ToSet(SubSeq(wire, 1, n - 1))
         /\ m_serialData' = m_serialData \o SubSeq(wire, 1, n)
         /\ wire' = SubSeq(wire, n + 1, Len(wire))
    /\ port' = "read"
    /\ UNCHANGED <<console, posted, m_charCount, timer, sent, lost, whole,
                   shown, io>>

\* The end of the device is an error, which may come before all it sent was read.
PortFails ==
    /\ port = "reading"
    /\ lost
    /\ port' = "failed"
    /\ UNCHANGED <<console, posted, m_charCount, timer, m_serialData, device,
                   shown, io>>

TimerFires ==
    /\ timer = "waiting"
    /\ timer' = "fired"
    /\ UNCHANGED <<console, posted, m_charCount, port, m_serialData, device,
                   shown, io>>

(* The handlers, run by ctx.run().                                         *)

InputHandler ==
    /\ io = "idle"
    /\ posted > 0
    /\ posted' = posted - 1
    /\ m_charCount' = (IF m_charCount > LineMax THEN 0 ELSE m_charCount) + 1
    /\ UNCHANGED <<console, timer, port, m_serialData, device, shown, io>>

\* timerExpired returns on an error or when m_stop is set ...
TimerExpired ==
    /\ io = "idle"
    /\ timer \in {"fired", "aborted"}
    /\ timer' = "none"
    /\ io' = IF timer = "aborted" \/ m_stop THEN "idle" ELSE "tick"
    /\ UNCHANGED <<console, posted, m_charCount, port, m_serialData, device,
                   shown>>

\* ... and otherwise waits for another second; stop() may run in between.
RearmTimer ==
    /\ io = "tick"
    /\ io' = "idle"
    /\ timer' = "waiting"
    /\ UNCHANGED <<console, posted, m_charCount, port, m_serialData, device,
                   shown>>

\* How many tokens of S the sequence b starts with
Leading(S, b) ==
    CHOOSE n \in 0..Len(b) :
        /\ \A i \in 1..n : b[i] \in S
        /\ n < Len(b) => b[n + 1] \notin S

From(b, i) == SubSeq(b, i, Len(b))

\* str >> value skips white space and takes the digits, if there are any; the
\* number is good when it does not reach the end of the buffer.
SkipBlank(b) == From(b, Leading({"nl"}, b) + 1)
Number(b)    == SubSeq(b, 1, Leading(Digit, b))
Good(b)      == Number(b) # << >> /\ Number(b) # b

\* lineReceived and the intermediate handler of async_read_until: a read that was
\* cancelled or met an error of the device ends the chain, with nothing said and the
\* clock going on; a read without a newline goes on reading.
PortEnds ==
    /\ io = "idle"
    /\ port = "failed"
    /\ port' = "none"
    /\ UNCHANGED <<console, posted, m_charCount, timer, m_serialData, device,
                   shown, io>>

PortMore ==
    /\ io = "idle"
    /\ port = "read"
    /\ ~HasLine
    /\ port' = "reading"
    /\ UNCHANGED <<console, posted, m_charCount, timer, m_serialData, device,
                   shown, io>>

\* mutant: the number stays in the buffer
LineReceived_peek ==
    /\ io = "idle"
    /\ port = "read"
    /\ HasLine
    /\ LET b == SkipBlank(m_serialData)
       IN  /\ m_serialData' = b
           /\ shown' = IF Good(b) THEN Append(shown, Number(b)) ELSE shown
    /\ port' = "none"
    /\ io' = "line"
    /\ UNCHANGED <<console, posted, m_charCount, timer, device>>

\* mutant: the next read is started before the line is read
LineReceived_early ==
    /\ io = "idle"
    /\ port = "read"
    /\ HasLine
    /\ port' = "reading"
    /\ io' = "line"
    /\ UNCHANGED <<console, posted, m_charCount, timer, m_serialData, device,
                   shown>>

LineReceived ==
    /\ io = "idle"
    /\ port = "read"
    /\ HasLine
    /\ LET b == SkipBlank(m_serialData)
       IN  /\ m_serialData' = From(b, Len(Number(b)) + 1)
           /\ shown' = IF Good(b) THEN Append(shown, Number(b)) ELSE shown
    /\ port' = "none"
    /\ io' = "line"
    /\ UNCHANGED <<console, posted, m_charCount, timer, device>>

\* lineReceived ends with the next read, whether or not stop() has run; a line
\* that is still in the buffer completes it at once.
ReadLine ==
    /\ io = "line"
    /\ io' = "idle"
    /\ port' = IF HasLine THEN "read" ELSE "reading"
    /\ UNCHANGED <<console, posted, m_charCount, timer, m_serialData, device,
                   shown>>

RunReturns ==
    /\ io = "idle"
    /\ timer = "none" /\ port = "none" /\ posted = 0
    /\ io' = "returned"
    /\ UNCHANGED <<console, posted, m_charCount, timer, port, m_serialData,
                   device, shown>>

ConsoleNext == Key \/ CtrlC \/ CancelTimer \/ CancelPort \/ SetStop
IoNext ==
    \/ TimerFires \/ PortRead \/ PortFails
    \/ InputHandler \/ TimerExpired \/ RearmTimer
    \/ PortEnds \/ PortMore \/ LineReceived \/ ReadLine \/ RunReturns
Next == ConsoleNext \/ SendLine \/ LoseDevice \/ IoNext

Spec == Init /\ [][Next]_vars

\* stop() runs to its end, every handler that is due runs, and the second passes;
\* keys, Ctrl+C and the device are not promised.
Fairness ==
    /\ WF_vars(CancelTimer) /\ WF_vars(CancelPort) /\ WF_vars(SetStop)
    /\ WF_vars(TimerFires) /\ WF_vars(PortRead) /\ WF_vars(PortFails)
    /\ SF_vars(InputHandler) /\ SF_vars(TimerExpired) /\ WF_vars(RearmTimer)
    /\ SF_vars(PortEnds) /\ SF_vars(PortMore) /\ SF_vars(LineReceived) /\ WF_vars(ReadLine)
    /\ WF_vars(RunReturns)

FairSpec == Spec /\ Fairness

(* Properties.                                                             *)

\* At most one read and one wait are in progress: a handler that is about to
\* start the next one never finds another, so m_serialData has one reader.
OneOperation ==
    /\ io = "line" => port = "none"
    /\ io = "tick" => timer = "none"
    /\ io = "returned" => timer = "none" /\ port = "none" /\ con # "getchar"

\* Those of the first n lines that start with a number
Numbered(n) == {i \in 1..n : Number(sent[i]) # << >>}

\* The display shows the numbers of the first n lines, each once and in this order.
Displayed(n) ==
    /\ Len(shown) = Cardinality(Numbered(n))
    /\ \A i \in Numbered(n) : shown[Cardinality(Numbered(i))] = Number(sent[i])

\* When lines arrive in one piece, the display shows the numbers in the order in
\* which they were sent, each once and none in between, although the newline of
\* a line stays in the buffer and is read as a line of its own.
ShownInOrder == whole => \E n \in 0..Len(sent) : Displayed(n)

\* After stop() the clock stops: a cancel that comes too early, between two waits,
\* is made good by m_stop.
ClockStops == (con = "ended") ~> [](timer = "none")

\* After stop(), ctx.run() returns unless a read was started after the cancel.
ReturnsUnlessReading ==
    (con = "ended" /\ port \in {"none", "failed"} /\ io # "line")
        ~> (io = "returned")

\* A read that was started after the cancel ends with the device, and ctx.run() with
\* it, unless a line that cannot be read completes the read for ever.
ReturnsWithoutDevice ==
    (con = "ended" /\ lost) ~> (io = "returned" \/ []HasLine)

\* stop() ends the service, from the console thread and between any two handlers:
\* all of the above.
StopEnds == ClockStops /\ ReturnsUnlessReading /\ ReturnsWithoutDevice
====
