# BoostProjects in TLA+

The repository is a collection of C++ programs that use Boost: servers, clients,
timers and serial ports on Boost.Asio, HTTP and WebSocket servers on Boost.Beast,
threads, fibers, coroutines, and demonstrations of smaller libraries. Each
directory is an executable of its own; inside of one, `main.cpp` calls the
`TestAll()` of its parts. They share no state, so the modules below are separate
models, one for each program (or for the variants of one program in one file), and
a module is composed with another only where two programs of the repository talk
to each other.

## 1. Inventory

State, operations, interactions, and what is hard, for every part of `src/`.

### Servers and clients on Boost.Asio

- **`Asio_TcpServer`** (`main.cpp`, `docs/impl.md`). A single-threaded TCP echo
  server that allocates nothing after start-up. State: `SessionPool::sessions`
  (an array of `optional<Session>`), in each `Session` the socket, the receive
  buffer `rx` with `rx_used`, the send buffer `tx`; the accept operation of
  `Server`. Operations: `acquire`, `release`, `do_accept`, `do_read`, `on_data`,
  `do_write`, `close`. Everything runs in handlers of one `io.run()`. Hard: the
  handlers capture raw pointers to slots; a read is re-armed while a write of the
  single `tx` may be in progress; sends may be short; the peer may stop reading,
  close or reset at any time; slots are given back in one case only. Correct when
  no handler meets a slot of another life, every open session is reading, bytes
  are neither invented nor lost in number, sessions whose peer has gone drain, and
  the pool is accounted for.
- **`Networking/TCPEchoServerClient.cpp`**. An echo server whose sessions are kept
  alive by the `shared_ptr` in their pending handler, with one member socket for
  all accepts, and a blocking client. Hard: ownership of a connection between queue,
  member socket and session; destruction by starting no operation; partial reads
  and sends. Correct when it is an echo, and each client gets its own answer.
- **`Networking/UDPEchoServerClient.cpp`**. One socket, one buffer and one sender
  endpoint for all clients; a client that waits without a timeout. Hard: lost,
  duplicated and reordered datagrams. Correct when an answer goes to the sender of
  its request.
- **`Networking/SSL_TCPServer.cpp`**. `SSL1`: asynchronous TLS sessions that
  `delete this`. `SSL2`: an acceptor thread with blocking calls, one connection at
  a time, and `Server::stop()`. Hard: one owner of a session, exceptions of
  destructors (after a failed handshake, too), a stop that waits for a blocked `accept()`.
- **`Networking/HTTPServer.cpp`, `Beast/http/HTTPServer.cpp`**. One request of one
  connection at a time; an exception ends the server. Hard: what raises one, a client
  that has left as well as one that stays and sends what `http::read` does not take.
- **`Networking/Networking.cpp`**. Daytime server and client, an HTTP GET, and
  examples of single socket calls: resolve, connect, the write loop of
  `write_to_socket`, `read_some` for a reply. Hard: what a short read or write does,
  which exception is caught where.
- **`Asio/ExceptionHandling`**. A thread in `io_context.run()`, a timer with
  `use_future`, a cancel after two seconds. Hard: `run()` may return before the wait
  is started; the cancel races with the expiry.
- **`Asio/IO_Context`, `Asio/BackgroundTasks`, `Asio/Threading`**. Posts, strands,
  work guards and pools of threads over one `io_context`. Hard: what runs when
  `run()` may return; mutual exclusion and order on a strand.
- **`Asio/Timer`, `Asio/Timeouts`, `Timer`**. Timers that re-arm themselves; the
  number of invocations, errors that are ignored.
- **`Asio/Coroutines`**. Coroutine echo servers; one accepts in a blocking loop and
  never runs the `io_context` its coroutines live on. Hard: whether an error ends the
  session, the listener or the server.
- **`Asio/Experiments`, `Asio/Utils`**. Timers, a daytime server and its client.
- **`Serial`**. A clock, a serial port read by lines and a console in one
  `io_context`, and a second thread that reads keys and calls `Service::stop()`.
  State: `m_timer`, `m_port`, `m_serialData`, `m_charCount`, `m_stop`. Hard: two
  threads use timer, port and `m_stop` without a lock; a cancel finds only what is
  waiting; an error of the device ends the chain of reads and nothing else; what
  `str >> value` leaves in the buffer.

### Boost.Beast

- **`Beast/http/HTTPS_Server.cpp`**. `handle_request`, an asynchronous server
  (listener, sessions on strands, four threads, a 30 s timer) and a synchronous one
  (a detached thread per connection). State of a session: phase of its chain of
  operations, buffer, request. Hard: pipelined requests, the size of a file in
  sixteen bits, responses to HEAD, a body that fails while it is sent, stalled
  peers, threads that are never joined. Correct when every request is answered
  once and in order, the framing is right, and every session ends.
- **`Beast/web_sockets/WebSocketServers.cpp`**. An asynchronous server and two
  synchronous ones that send each message back. Hard: a text that is destroyed
  while it is written, a handler that goes on after an error, the pings and timeouts
  of the stream, an accept loop that never ends.
- **`Beast/http/Client.cpp`, `Networking/Beast.cpp`,
  `Beast/web_sockets/WebSocketClients.cpp`**. Clients: resolve, connect, handshake,
  write, read, shutdown, as blocking calls, handlers, coroutines. Hard: which error
  ends the chain, which operations a deadline covers (none of the blocking ones, and
  not the read of the WebSocket client), what becomes of an answer when a later
  operation fails. Correct when a normal end means a whole answer, an answer that was
  read is shown, and a peer that stalls does not hold a client.
- **`Beast/common`**, certificates: data.

### Threads and the rest

- **`Threads/Fibers.cpp`**. A producer and a consumer fiber share a vector and a
  flag. Hard: nothing but the scheduler's turns keeps the consumer from an empty
  vector, and taking the front while erasing the back is right for one element only.
- **`Threads/Threads.cpp`, `Experiments/main.cpp`**. Thread pools, what `join` waits
  for, a mutex in the tasks; a timer that counts its invocations.
- **`Coroutines/main.cpp`**. Stackful coroutines: a token and a message parser, a state
  machine, an accumulator, a pipeline. Hard: signed bytes, messages that are cut off,
  what becomes of a coroutine that still waits when it is destroyed.
- **`Communication`** (a shared memory segment in one process), **`Collections`,
  `SmartPointers`, `Json`, `Spirit`, `Tokenizer`, `Logging`, `DateTime`, `Math`,
  `Uuid`, `Describe`, `ProgramOptions`**. Calls of a library, one after the other,
  that print results. They have no state and no control of their own, and are left
  out for good.

`PROJECT.json` lists every part with its status, and every hazard of the code at its
line with the properties that would catch it.

## 2. What is modelled

Conventions. A handler runs to its end in one thread, or on its strand, and is
therefore one action with every call it makes. The reactor (the system calls of
asynchronous operations), timers, peers and other threads are actions of their own
and interleave with the handlers. Definitions keep the source's names where they
have one. Libraries and peers, marked `external` in the map, do what the code relies
on: reads deliver any part of what has arrived, sends take any part, connections end
at any time. Bytes are named by their position in the stream. An operator called
`X_something` after a comment `mutant:` is a faulty variant of `X` that some property
must catch; no specification uses it.

| module | source | state | actions |
|---|---|---|---|
| `TcpServer` | `Asio_TcpServer/main.cpp` | `sessions` and `ses` are the pool and the sessions in it (`rx`, `tx`, the read, the queue of writes), `acc` the accept, `conn` and `backlog` the network | one for each handler (`OnAccepted`, `OnAcceptFailed`, `ReadHandler`, `WriteHandler`), system call (`ReadReady`, `SendSome`, ...) and peer action; the methods of `Session` are operators on its record (`OnData`, `DoRead`, `Close`, ...) that the handlers compose in the order of the code |
| `TcpServerEcho` | the same | extends `TcpServer` | what happens to the bytes of a stream |
| `TcpServerProofs` | the same | | theorems about `TcpServer` and `TcpServerEcho` |
| `EchoStream` | | what was sent to an echo server and what came back | the abstract specification of an echo |
| `TcpEcho` | `Networking/TCPEchoServerClient.cpp` | `acc` and `socket` of the server, `op` and `data` of a session | handlers, system calls, peers |
| `TcpEchoProofs` | the same | | theorems about `TcpEcho` and `TcpEchoClient`, and the step simulation of `EchoStream` |
| `TcpEchoClient` | the same, `client()` | extends `TcpEcho`: `pc` and `reply` of blocking clients | the blocking calls of `client()` |
| `IoContext` | `Asio/IO_Context`, `BackgroundTasks`, `Threading`, `Timer`, `Timeouts`, `ExceptionHandling`, the timers of `Asio/Experiments`, `Timer/`, `Threads/Threads.cpp`, pools and callbacks of `Experiments/main.cpp` | `todo` holds the calls each thread has still to make; `ctx` is the `io_context` (queue, outstanding work, guard, stopped), `strand`, `timer`, `mutex`, `fut` and `now` the rest | a program is a table of calls, for its main thread, the threads it starts and its handlers; one action for each call (`PostHandler`, `StartWait`, `JoinThread`, ...), for `run()` taking a handler or returning, for expiry and time |
| `SerialService`, `MCSerialService` | `Serial/Serial.cpp` | the members of `Service`, the console thread, the wire | keys, the three steps of `stop()`, the handlers; a handler that starts an operation at its end is split there, because `stop()` may run in between |
| `HttpsServer`, `MCHttpsServer` | `Beast/http/HTTPS_Server.cpp` | `at` and `op` are the operation of a session, `buffer` and `msg` what it has read and has to send; `mode` chooses the server | `on_run` ... `on_shutdown`, `on_accept`, `accept_loop`, operations, clients; `handle_request` is an operator |
| `WebSocketServer` | `Beast/web_sockets/WebSocketServers.cpp` | as above, with `copied` (the part of an answer that outlives `on_read`) and `pinging` | `on_read`, `on_write`, `write_back`, ..., operations, clients |
| `Servers` | `Networking/HTTPServer.cpp`, `SSL_TCPServer.cpp`, `UDPEchoServerClient.cpp`, the servers of `Networking/Networking.cpp`, `Beast/http/HTTPServer.cpp`, `Asio/Coroutines`, the daytime server of `Asio/Experiments` | `up`, `listening`, `stopping` for the server, `at` and `buf` for its sessions, `udp` for the buffer and the endpoint of `ServerAsync`, `queue` and `conn` for the network | a TCP server is a table: the operations on a connection and what the error of each ends; `AcceptOne`, `AcceptFails`, `Stop`, `Handshake`, `Read`, `Write`, `SessionFails` perform any table; `UdpReceive` and `UdpSend` are the handlers of `ServerAsync` |
| `Coroutines` | `Coroutines/main.cpp` | `turn` is the stack that runs, `i` and `start` the locals of the coroutine, `value` what is being passed, `seen` what the consumer got | each coroutine between two switches, the loops and calls of each `run()`, the end of the scope |
| `NetClients` | `Beast/http/Client.cpp`, `Networking/Beast.cpp`, `Beast/web_sockets/WebSocketClients.cpp`, the clients of `Networking/Networking.cpp`, `UDPEchoServerClient.cpp`, `Asio/Experiments` and `Asio/IO_Context` | `client` is the function that runs, `pc` and `op` its operation and the result, `timed` the deadline, `got` and `shown` the answer | each client is a table of operations with its deadlines and the results after which it goes on; `Launch`, `Proceed`, `Finish`, `RejectAnswer` and `Fail` are what its handlers, or the statements between two blocking calls, do with a result |
| `CooperativeProofs` | `Threads/Fibers.cpp`, `Coroutines/main.cpp` | | theorems about `Fibers` and `Coroutines` |
| `ServersProofs`, `WebSocketServerProofs`, `HttpsServerProofs`, `SerialServiceProofs`, `IoContextProofs` | as the module they are named for | | theorems about that module |
| `Fibers` | `Threads/Fibers.cpp` | the scheduler's queue, `buffer`, `done` | one turn of a fiber |

Abstractions. A request of `HttpsServer` is the kind of resource it asks for and the
size of the file; a message is a sequence of named pieces; a line of the serial port
is a sequence of tokens (digits, newline, anything else). MIME types, texts, colours,
cursor positions, log output and socket options are left out. The C++ data race on
`m_stop` in `Serial` is modelled as the interleaving of the threads' steps, not as a
torn value. `IoContext` counts seconds up to `MaxNow`, which is never before the last
expiry a property looks at; the 30 s of `HttpsServer` and the timeouts
of `WebSocketServer` are a `Timeout` that may come at any time and, if nothing else
happens, does. What a client of `Servers` sends is in order, or, from some point on
(`Garble`), what the server cannot take: a malformed or too large request, a handshake or
record that is not TLS; which of these it is makes no difference to the code. The device of
`SerialService` may be lost at any time (`LoseDevice`), and the read that meets it fails,
perhaps before all that was sent has been read; where there is no device at all,
`openSerialPort` throws and the program ends. `Coroutines` has what the consumers
are given, not what their loops print (see section 5). `shutdown()` of a TCP socket has
one error, `not_connected`, which the clients of `NetClients` ignore.

A program that finds wrong files (certificates) or a port in use ends before the models
begin, with two exceptions: the asynchronous listeners of `HttpsServer` and
`WebSocketServer` report the failed `bind` and accept all the same. The former is the initial
state with `listening` false, and its loop ends with the first error. The latter
accepts again after every error, for ever; in `WebSocketServer` this is a behaviour in which
no client arrives and `AcceptError` repeats.

## 3. What the runs check

Every run is in `PROJECT.json`. Bounds are the constants marked `bound:` in the
modules.

- **`TcpServer_pool`** (two slots, three connections, two bytes each, buffers of one
  byte): no handler is outstanding on an empty slot (`NoDanglingHandler`), an open
  session is reading and into an empty `rx` (`ReadOutstanding`), used slots are
  accepted connections plus the slot of the accept (`AcceptBudget`), a session with a
  connection is never constructed again (`StartedSessionStays`). Three connections for
  two slots let the pool run out; failed accepts are unbounded.
- **`TcpServer_echo`** (one slot, four bytes, `rx` of two, `tx` of three): the echo is
  exact unless data was handled while a write was in progress
  (`EchoUnlessOverlapped`); nothing is lost or added in number
  (`EchoLengthConserved`); a session whose peer has gone drains and closes
  (`GoneSessionDrains`; that `io.run()` returns only when the pool is spent and every
  session closed is the theorem `ReturnsSpent`). Four bytes and two per read give two
  messages that overlap, each of which may be sent in two parts. Sessions share
  nothing but the pool, so one slot is enough for the bytes.
- **`TcpServer_doc_echo`** finds the overlap: `docs/impl.md` presents `on_data` as an
  echo, and it is not one when a peer sends faster than it reads.
- **`TcpEcho`** (a blocking client and an arbitrary peer, three bytes, a buffer of
  two): a connection has one owner (`ConnectionHasOneOwner`), is dropped only for an
  error of its own (`DroppedOnlyOnError`), the server implements `EchoStream` including
  its liveness (`ImplementsEcho`), and `client()` ends (`ClientEnds`) with its own
  request as the reply (`ReplyIsRequest`). Three bytes make two reads of the server.
- **`SerialService`** (two lines of three kinds, each with its newline at the end and
  nowhere else, two keys, a device that may be lost at any time): one reader and one wait at
  a time (`OneOperation`); lines that arrive whole are shown in order and once
  (`ShownInOrder`); the clock stops whatever `stop()` interrupts, and `ctx.run()`
  returns unless a line was being handled when the port was cancelled (`StopEnds`), in
  which case it waits for the device: it returns when that is lost, unless a line that is
  no number completes every read at once, for ever. `LineMax` is 0, so that two keys reach the end of
  the line.
- **`HttpsServer`** (both servers, one client, two requests of seven kinds, `Width`
  1): the client reads the whole answers to its requests in their order
  (`AnsweredInOrder`), finds their ends where they are except in two named cases
  (`FramedUnless`: a file of 2^Width bytes or more, an error response to a HEAD), an
  orderly close follows a whole answer (`OrderlyClose`), and every asynchronous session ends
  (`SessionEnds`). `Width` stands for the 16 bits of `size`; 1 makes files of one
  and two bytes fall on both sides of it. Two requests are the smallest pipeline.
- **`WebSocketServer`** (the three servers, one client, two messages of one or two
  pieces, one of which is copied in time): one answer for each message, in order, and
  none after an error (`AnswersMatch`); only bytes behind the copied ones, or of an
  answer that met a ping, may be lost (`IntactUnlessLate`); failed sessions end and
  messages are answered (`SessionProgress`).
- **`NetClients`** (no bounds: one request, one answer of two parts): a client that
  ends normally has the whole answer, but for those that swallow the error of the read,
  read up to the end of the stream, or take one piece or one datagram for it
  (`DoneMeansAnswered`); what was read is shown even if the close fails, but by the
  WebSocket clients, which print after the close (`AnswerShown`); the asynchronous HTTP
  clients end although the peer stalls, the others at least when it closes, the UDP
  client when a datagram arrives (`ClientEnds`).
- **`IoContext`** (twenty-six programs; five handlers on a strand and three threads as
  in the code; pools of three threads with four tasks, for the ten and a hundred there,
  so that tasks queue behind busy threads): nothing that was a variable of a function is used after its return
  (`NoDanglingContext`); `run()` does not return while the guard is held (`GuardHolds`);
  every handler posted before the guard was given up is executed (`NothingForgotten`);
  the strand serialises and keeps the order (`StrandSerial`, what the comments at
  `IoContext.cpp:111` to `:117` promise); timers keep their pace and their number
  (`TimerPace`); a cancel in time is never reported as an expiry (`CancelInTimeFails`),
  although the pause may last longer than the timer; programs end (`ProgramEnds`) but
  the two that re-arm for ever and the future whose thread found nothing to do.
- **`Servers`** (eleven servers, two clients with two messages, or datagrams, each):
  nobody gets another client's data, echoes are exact, an answer follows a request
  (`AnswersOwn`); what may end a server, from nothing (the echo over UDP) to one client
  that closes early or stays and sends what is no request or no TLS (the HTTP servers and
  `SSL1`), and at most one client after `stop()` (`ServerLife`); the concurrent servers answer a client whatever the others do, the
  sequential ones unless a client before it stays for ever, and `stop()` returns when
  the next client has been served (`Served`). Two clients let one hold up, outlive or
  be confused with the other; two datagrams of each may be reordered, lost, doubled.
- **`Coroutines`** (`Width` 4 for the 256 values of a byte; all texts of up to six
  characters, blank or not, and all buffers of up to six bytes): tokens and messages are
  what their definitions say, and in the buffer (`Decoded`); every parser ends, and a
  coroutine that is pushed never gets behind its loop (`CoroutineEnds`), so that
  `accumulator` does not print its sum. Six bytes hold three messages, or one whose size
  is negative as a signed char.
- **`Fibers`** (60 elements): the vector is never empty when the consumer looks
  (`NeverEmpty`), elements come in order (`ConsumedInOrder`).

`CHECK_DEADLOCK FALSE` is set where the program, or the traffic within the bounds,
ends.

### Fairness

- Handlers: weak fairness. `io_context::run()` takes every queued handler in the end.
  `SerialService` has strong fairness for handlers of its single thread, because a
  line that cannot be read completes the read again and again; the queue of the
  `io_context` is first in, first out, so the other handlers get their turn.
- Reactor: weak fairness for what it reports about a socket, or a serial port whose device
  is gone (`PortFails`); that the device is lost is not assumed. For `AcceptReady` strong
  fairness in `TcpEcho` and `WebSocketServer`: `accept()` does not fail for ever.
  `WriteDone` of `WebSocketServer` is strong, because pings come in between.
- `IoContext`: every thread makes its next call, timers fire, and time passes.
- `Servers`: a connection that waits is accepted and an operation that can end ends.
  That a client before it leaves is a premise in `Served`, not an assumption.
- `Coroutines`: the one thread runs.
- `NetClients`: a resolver and a `connect()` end by the timeouts of the system, and a
  deadline that covers the operation passes.
- Peers: nothing is assumed in `TcpServer`, `HttpsServer`, `NetClients`, `Servers` and
  `SerialService` (a peer need neither send nor read). In `TcpEcho` and `WebSocketServer` a peer that is up
  takes what is sent to it, or it may close or reset.

## 4. What is proved

`TcpServerProofs`, for every number of slots, sizes of the buffers, connections and
bytes, from `SizeAssumption` (`rx` fits into `tx`, which the code needs for its
`memcpy`) and `BoundAssumption`:

- `TypeCorrect`: the types, and with them the bounds of the two arrays: what a completed
  read has put behind `rx_used` ends within `rx` (`ReadFits`), what is left of a write
  within `tx`;
- `HandlersSafe`, `AlwaysReading`, `Budget`: the invariants of `TcpServer_pool`;
  `StartedForEver`: its action property; `ReturnsSpent`: `io.run()` returns only when
  the pool is spent and every session closed.

The inductive invariant (`Inductive`) adds to the properties what one handler tells
the next: which operations may exist for each state of a socket (none on a socket that
is idle, no armed read on a closed one), that `rx` is empty whenever a handler ends,
that a write in the queue ends within `tx`, that slots without a session are idle, and
that the number of used slots is the number of accepts so far plus the slot in hand.
Each of the last two needs the other: a slot can only be given back by the accept
that holds it. The methods of `Session` are treated in lemmas of their own (what
`OnData`, `DoRead`, `Close` preserve of a session), so that a handler's step follows
from those of the calls it makes.

The same module follows the bytes of a stream (`TcpServerEcho`):

- `ExactUnlessOverlapped`: until data is handled while a write is in progress, what
  comes back is a beginning of what was sent. `StreamInv` relates a session to its
  connection: the bytes that are back, those in the one write that is in progress,
  those in `rx` and those that wait are, in this order, the bytes 1, 2, ...;
- `LengthConserved`: whatever is overwritten, while the socket is open every byte that
  was sent is in one of these places. `Balanced` is the sum; the length of a queue of
  writes is a recursive function (`RemainingOf`), of which well-founded induction gives
  the few facts that are needed (`SumsExist` to `OneLessRemains`).

Both hold of a session and its connection (`Good`) by the steps of the reactor and of
the handlers, one by one; `Streams` says it of every slot.

`CooperativeProofs` is about the programs whose stacks give up control by themselves.

- `FrontIsSafe`, `InOrder` and `NothingLeft`, for every number of elements. The invariant
  is the shape of the schedule: two fibers alternate, so the vector holds one element
  exactly when it is the consumer's turn.
- `DecodedAlways`, for every width of a char, every text and every buffer of any length, from
  `WidthAssumption`. `Passed`, what was seen with the value that is on its way, does
  not change when control does, so each coroutine has an invariant about `Passed` and its own
  locals. `TokenInv`: the tokens that begin before `start` were passed, and the one that
  begins there has no blank so far (`BlankEnds`, `TextEnds`: it is the next token of the
  definition). `MessageInv`: the messages that were passed fill the buffer up to `i`. `CountInv`,
  `SumInv` and `PipeInv` say how far the others have counted. That the definition of a token
  or message is met needs no induction over the text, because the parser is one.

`TcpEchoProofs`, for every set of connections, size of `Session::data` and number of
bytes, from `LengthAssumption` (the buffer has room for a byte) and `NoneAssumption`:

- `Owner` and `Dropped`: the invariants `ConnectionHasOneOwner` and
  `DroppedOnlyOnError` of run `TcpEcho`;
- `EchoesInOrder`: the safety part of `ImplementsEcho`. The initial states are initial
  states of `EchoStream`; `PeerSend` is its `Send`, one `send()` of the server
  (`SendSome`) its `Echo`, a reset or the end of a session its `GoDown`, and every
  other step leaves its variables unchanged.

Both halves of the inductive invariant are needed. `BytesInv` says of each connection
that the bytes sent back, those in `data` and those that wait to be read are, in this
order, the bytes 1, 2, ... that were sent, and that `data` is empty unless something
is to be sent: without the latter a read would overwrite bytes that were not sent back.
`OwnInv` follows the connections through the queue and the one member socket: a new
session starts on a connection that has no operation yet, which is what `BytesInv`
needs for the first read. The lemmas `SendFlow`, `ReceiveFlow` and `SendBackFlow` say
what moving bytes between the three sequences does; no lemma about them mentions the
server.

`RepliesMatch`, in the same module: the reply of a blocking `client()` is its request,
for every number of such clients. `ReplyInv` adds to the invariant of the server that the
bytes `asio::read` has collected are 1, 2, ..., and that only a whole reply is followed by
the close.

`ServersProofs`, for every set of clients and number of messages: `AnswersOwnAlways`
and `ServerLifeAlways`, from one inductive invariant (`Invariant`). The ten TCP servers
are tables; `WellFormed` says what the tables have in common (one write at the most, a
read comes right before it, the operations of an echo begin again elsewhere), and the
proof then speaks of any such table. `Conn` follows the data of a connection: for an
echo (`EchoConn`), what was sent back, what the session holds and what waits make up the
stream; for the others (`AnswerConn`), nothing is sent before the write, nor a write
reached before a request. `QueueInv` says that a connection waits once and has no session
yet, `Life` why a server has ended (an error of an operation needs a client that has left or
that has sent what is no request or no TLS, `Fails`) and that the one client accepted after
`stop()` is served in the end. `UdpInv` is about the one buffer and endpoint of the UDP server: what
is in the buffer while it sends came from the endpoint it sends to.

`WebSocketServerProofs`, for every set of connections, length of messages and size of
what is copied: `AnswersMatchAlways` and `Intact`. The pieces on the wire are an
unbroken run whose first is the one that is due (`Wire`); `Buffered` says what the buffer
holds in each phase; `InTime` that the pieces copied before `on_read` returns, or all of
them if the server is synchronous, are safe from the destruction of the text.
`ListenerInv` gives each connection to one session.

`HttpsServerProofs`, for every set of connections and of requests and every `Width`:
`AnsweredAlways`, `FramedAlways`, and `ClosesInOrder`, an action property. Buffer and
wire are a run of half requests (`Unread`), so that a pipelined request that was read
with the one before it is the next to be parsed; what the client has and what
`async_write` has still to send are a run of the bytes of the responses (`Ordered`), with
all of those that are due (`Whole`). That the framing fails only in the two named cases
is a fact about `size` modulo 2^`Width` and holds of every width.

`SerialServiceProofs`, for all lines, keys and bounds: `OneAlways` (`OneOperation`). It is
not inductive alone: that the handler of the timer finds no second wait needs that the
clock is running until `stop()` cancels it (`ClockRuns`), and likewise that the chain of
reads goes on until `stop()` cancels it or the device is lost (`ChainRuns`). `InOrderAlways` (`ShownInOrder`), from `LinesAssumption`: a line ends
with its one newline. `FlowInv` says that while lines arrive whole there is a number k such
that the wire holds the lines behind the first k one after the other, with a table of where
each begins (`Before`), and the buffer what is left of the first k (`Stage`): nothing, the
newline behind a number, a line that blocks the display, or line k, not yet displayed. What
the operators do that look for the first digit or the first token that is no digit follows
from the least element of a set of naturals, which well-founded induction gives (`Least`);
no fact about them is about lines of one length.

`IoContextProofs`, for every number of posts, of threads in `run()` and of tasks, from
`SizeAssumption`:

- `GuardAlways`: `run()` returns for want of work only when no guard is held, in all
  twenty-six programs. `WorkInv` counts: the outstanding work is at least the guard, the
  queue, the wait of the timer and the threads that are in a handler, together. The
  count is kept because the end of a handler is called once and before its thread enters
  `run()` again (`LeaveOK`), and because the guard belongs to the main thread, which makes it
  before anything else (`GuardInv`). That every program is of this kind is read off the
  tables (`Tables`), loops of any length included (`Loops`). Two programs are not: their guard
  is reset by a handler. They have one thread, and `BInv` enumerates their states.
- `TimerPaceAlways`: `CallbackInv` and `ChainInv` enumerate the states of the two
  repeating programs, which have one thread, with the relation between the expiry, the
  clock and the number of invocations in each.
- `StrandSerialAlways`: while the strand is locked, exactly one turn is queued or in a
  thread (`OneTurn`), and the handlers that have run, that are of this turn and that wait for
  the next are numbered in the order in which the main thread posts them (`Numbers`,
  `Posting`).
- `NoDanglingAlways`: when a program has ended, no thread is going to use its `io_context`.
  `ThreadsInv` knows three kinds of program. In most, `OInv` says that the main thread has
  still to join every thread that is going to use the `io_context` (`JoinInv`), that a thread
  that does more than sleep is started only with such a join behind its start (`Joins`), and that the handlers start none
  (`HandlersInv`). In those whose handler detaches a thread, `DetachInv` says that the main
  thread stays in `run()` until the detached one has posted the stop, its last call. The two
  of `BInv` have one thread.
- `NothingForgottenAlways`: when a program has ended, nothing is left in the queue or on the
  strand but what the code leaves there. `LeftInv` adds to `ThreadsInv` that each thread posts
  and waits before it ends a handler, runs or resets the guard (`OrderInv`), that some `run()` is
  still to come while the `io_context` has not stopped (`RunsInv`), that nobody but a handler
  or a main thread that holds the guard or is alone adds work (`AddersInv`), so that nothing
  is left when it has stopped (`DoneInv`). The locked strand has its turn queued or in the hands of a
  thread (`TurnPending`); the one handler of the cancelled timer is with the timer, queued,
  called or done with (`OnceInv`), and the future was answered before the main thread goes on.
- `CancelAlways`: a success, whether queued, in the handler's hands or in the future, goes
  back to an expiry that the cancel did not precede (`FutureInv`); the other programs
  never cancel a timer (`NoCancel`).

`Thread` of `IoContext` has a member for each thread a loop of the code may start, so
that these theorems speak of pools of every size.

Only model-checked:

- liveness under fairness, the fairness part of `ImplementsEcho` included, which is out of
  the prover's reach;
- `NetClients`: it has no constants, so its run already visits every state there is.

## 5. Not modelled

Not modelled, because it has neither state nor control of its own: `Collections`,
`SmartPointers`, `Json`, `Spirit`, `Tokenizer`, `DateTime`, `Math`, `Uuid`, `Logging`,
`Describe`, `ProgramOptions`, the MD5 and `cpu_timer` calls, and `Communication`, whose
two halves run one after the other in one process. Their hazards are those of the
library. The certificates under `Beast/common` are constant data. Code that is
compiled out (`#if 0`, comments) is no part of the program. Programs that cannot start are
treated in section 2.

The loops of `token_parser::run` and `binary_parser_demo::run` print `t.data` and
`m.payload` as C strings and do not use the sizes they are given: the first prints the rest
of the text for each token, the second reads on behind the buffer, which has no terminator.
`Coroutines` is about the values that are passed, and leaves this out.
