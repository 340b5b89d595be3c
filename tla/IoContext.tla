---- MODULE IoContext ----
(***************************************************************************)
(* The programs that run handlers on threads: src/Asio/IO_Context,         *)
(* BackgroundTasks, Threading, Timer, Timeouts and ExceptionHandling,      *)
(* src/Threads/Threads.cpp, src/Timer/Timer.cpp and the pools, timers and  *)
(* callbacks of src/Experiments/main.cpp and Asio/Experiments.             *)
(*                                                                         *)
(* Each of them starts threads, posts handlers, arms a timer, holds a work *)
(* guard, calls run() and joins, in its own order.  A program is a table:  *)
(* the calls of its main thread one after the other, with the calls of the *)
(* threads it starts; the handlers are named and have a body of calls too. *)
(* One set of actions, the io_context with its strand, timer and work      *)
(* count, executes all tables, every thread interleaved with the others.   *)
(* A boost::asio::thread_pool is an io_context that holds its own guard    *)
(* and threads, which join() releases and joins.                           *)
(***************************************************************************)
EXTENDS Integers, Sequences, FiniteSets, SequencesExt

CONSTANTS Posts,      \* handlers posted in a loop (5 in IoContext.cpp)
          Runners,    \* threads that call run() there (3)
          PoolTasks,  \* bound: tasks given to a thread pool (10 and 100)
          PoolSize,   \* bound: threads of the larger pools
          MaxNow      \* bound: stands for this second and all later ones

ASSUME SizeAssumption ==
    /\ Posts \in Nat /\ Runners \in Nat \ {0}
    /\ PoolTasks \in Nat /\ PoolSize \in Nat \ {0}

ASSUME TimeAssumption == MaxNow \in Nat /\ MaxNow > 6

VARIABLES
    prog,       \* the program that runs
    todo,       \* the calls every thread has still to make, the next one first
    ctx,        \* io_context: queue, outstanding work, guard, stopped
    strand,     \* strand: locked, handlers for this turn and for the next one
    timer,      \* the timer: expiry, waiting or not, its handler, when cancelled
    mutex,      \* the thread that holds mtx, -1 for none
    count,      \* m_count
    fut,        \* the shared state of the future
    executed,   \* history: the handlers that were started, in order
    now

vars == <<prog, todo, ctx, strand, timer, mutex, count, fut, executed, now>>

Main    == 0
NoOne   == -1

\* Four threads beside the main one, unless a loop starts more
Thread  == (0..4) \cup (0..Runners) \cup (0..PoolSize)

(* The calls.                                                              *)

Call(o)        == [op |-> o]
Handler(s, k)  == [name |-> s, n |-> k, ec |-> "ok", guarded |-> FALSE]
Post(h)        == [op |-> "post", handler |-> h]
PostStrand(h)  == [op |-> "strand", handler |-> h]
Spawn(t, body) == [op |-> "spawn", thread |-> t, body |-> body]
Join(t)        == [op |-> "join", thread |-> t]
Sleep(s)       == [op |-> "sleep", for |-> s]
Expires(s)     == [op |-> "expires", after |-> s]
AsyncWait(h)   == [op |-> "async_wait", handler |-> h]
Leave          == Call("leave")
Run            == Call("run")
Guard          == Call("make_work_guard")
ResetGuard     == Call("reset")

Each(n, F(_))  == [i \in 1..n |-> F(i)]
SpawnRunner(t) == Spawn(t, <<Run>>)

PostTask(i)     == Post(Handler("task", i))
StrandTask(i)   == PostStrand(Handler("task", i))
PostPoolTask(i) == Post(Handler("pool_task", i))

\* The constructor of a thread_pool of n threads, the tasks, join() and stop()
Pool(n, tasks, last) ==
    <<Guard>> \o Each(n, SpawnRunner) \o tasks
    \o <<ResetGuard>> \o Each(n, Join) \o last

(* The handlers.                                                           *)

\* expires_at(expires_at() + 1s) and async_wait, while m_count < 5
Message == <<Call("message")>>

TimerHandler(ec) ==
    IF ec = "ok" THEN <<Expires(1), AsyncWait(Handler("timer_handler", 0))>>
    ELSE << >>

PostsStop == <<Sleep(2), Post(Handler("stop", 0))>>

Body(h) ==
    CASE h.name \in {"task", "print"} -> << >>
      [] h.name = "slow"          -> <<Sleep(1)>>
      [] h.name = "pool_task"     -> <<Call("lock"), Call("unlock"), Sleep(1),
                                       Call("lock"), Call("unlock")>>
      [] h.name = "detach"        -> <<Spawn(1, PostsStop)>>
      [] h.name = "detach_loop"   -> <<Spawn(1, PostsStop), Sleep(2)>>
      [] h.name = "stop"          -> <<Call("stop")>>
      [] h.name = "expired"       -> <<ResetGuard>>
      [] h.name = "timer_handler" -> TimerHandler(h.ec)
      [] h.name = "message"       -> Message
      [] h.name = "promise"       -> <<[op |-> "set", ec |-> h.ec]>>
      [] h.name = "invoker"       -> <<Call("turn")>>

(* The programs.                                                           *)

example_1 == <<Post(Handler("task", 1)), Run>>

example_MultipleThreads ==
    Each(Posts, PostTask) \o Each(Runners, SpawnRunner) \o Each(Runners, Join)

getExecutor == <<Expires(2), AsyncWait(Handler("print", 0)), Run>>

Strand_Example ==
    Each(Posts, StrandTask) \o Each(Runners, SpawnRunner) \o Each(Runners, Join)

\* dispatch() queues the handler too: its caller is not inside run().
Post_vs_Dispatch == <<PostTask(1), PostTask(2), Run>>

\* The log of the two threads shows the same times: both sleep in between.
post_vs_dispatch_task == <<Post(Handler("slow", 1)), PostTask(2), Run>>

runBackgroundTask ==
    <<Guard, SpawnRunner(1), Spawn(2, <<Sleep(1), Post(Handler("slow", 1))>>),
      Sleep(3), ResetGuard, Join(2), Join(1)>>

\* mutant: no guard
Main_Thread_noGuard == <<Post(Handler("detach", 1)), Run>>

Main_Thread == <<Guard, Post(Handler("detach", 1)), Run>>

\* The same, with a loop of five pauses of 450 ms in the handler
run_async_task == <<Guard, Post(Handler("detach_loop", 1)), Run>>

\* One of the four threads of Separate_Threads::run(), each with its own context
backgroundTask == <<Guard, Expires(1), AsyncWait(Handler("expired", 0)), Run>>

background_task == backgroundTask

\* boost::asio::post without an executor gives the tasks to the threads of the
\* system: the io_context and its guard know nothing of them.
SystemTask(i) == Spawn(1 + i, <<Sleep(2)>>)

SingleContext ==
    <<Guard, SpawnRunner(1), SystemTask(1), SystemTask(2), SystemTask(3),
      Sleep(5), ResetGuard, Join(1)>>

Chained == <<Expires(3), AsyncWait(Handler("timer_handler", 0)), Run>>

chained_asynchronous_tasks == Chained

run_single_thread == <<Expires(1), AsyncWait(Handler("print", 0)), Run>>

Timeouts_SimpleTest == <<Expires(3), AsyncWait(Handler("print", 0)), Run>>

Experiments_Timer == <<Expires(3), Call("wait")>>

Timer_Async ==
    <<Expires(3), AsyncWait(Handler("print", 0)), Call("wait"), Run>>

Callback == <<Expires(1), AsyncWait(Handler("message", 0)), Run>>

testCallback == Callback

\* std::async, in a thread of its own, and wait()
SimpleAsynchTest == <<Spawn(1, <<Sleep(1)>>), Join(1)>>

SlowPoolTask(i) == Post(Handler("slow", i))

SimpleTest == Pool(1, Each(PoolTasks, SlowPoolTask), << >>)

RunTest == Pool(1, Each(PoolTasks, SlowPoolTask), <<Call("stop")>>)

ThreadPool_Test == Pool(PoolSize, Each(PoolTasks, PostPoolTask), << >>)

\* mutant: stop() instead of join()
Worker_stop ==
    <<Guard>> \o Each(PoolSize, SpawnRunner) \o Each(PoolTasks, PostPoolTask)
    \o <<Call("stop")>> \o Each(PoolSize, Join)

Worker == Pool(PoolSize, Each(PoolTasks, PostPoolTask), <<Call("stop")>>)

Future_Exception_Handling ==
    <<Expires(4), SpawnRunner(1), AsyncWait(Handler("promise", 0)), Sleep(2),
      Call("cancel"), Call("get"), Join(1)>>

Program ==
    [example_1 |-> example_1, example_MultipleThreads |-> example_MultipleThreads,
     getExecutor |-> getExecutor, Strand_Example |-> Strand_Example,
     Post_vs_Dispatch |-> Post_vs_Dispatch,
     post_vs_dispatch_task |-> post_vs_dispatch_task,
     runBackgroundTask |-> runBackgroundTask, Main_Thread |-> Main_Thread,
     run_async_task |-> run_async_task, backgroundTask |-> backgroundTask,
     background_task |-> background_task, SingleContext |-> SingleContext,
     Chained |-> Chained, chained_asynchronous_tasks |-> chained_asynchronous_tasks,
     run_single_thread |-> run_single_thread,
     Timeouts_SimpleTest |-> Timeouts_SimpleTest, Timer_Async |-> Timer_Async,
     Experiments_Timer |-> Experiments_Timer, SimpleAsynchTest |-> SimpleAsynchTest,
     Callback |-> Callback, testCallback |-> testCallback,
     SimpleTest |-> SimpleTest, RunTest |-> RunTest,
     ThreadPool_Test |-> ThreadPool_Test, Worker |-> Worker,
     Future_Exception_Handling |-> Future_Exception_Handling]

(* The io_context and its parts: what a call makes of them.                *)

At(t, o)      == todo[t] # << >> /\ Head(todo[t]).op = o
Arg(t)        == Head(todo[t])
Then(t, more) == todo' = [todo EXCEPT ![t] = more \o Tail(@)]
First(t, more) == todo' = [todo EXCEPT ![t] = more \o @]

Queued(c, h) ==
    [c EXCEPT !.ready = Append(@, [h EXCEPT !.guarded = c.guard]), !.work = @ + 1]

\* The work of a wait is now that of its handler.
Completed(c, h) == [c EXCEPT !.ready = Append(@, h)]

\* mutant: an empty queue stops the io_context
WorkFinished_eager(c) ==
    [c EXCEPT !.work = @ - 1, !.stopped = IF c.ready = << >> THEN "spent" ELSE @]

\* The io_context stops for good when nothing is outstanding.
WorkFinished(c) ==
    [c EXCEPT !.work = @ - 1,
              !.stopped = IF c.work = 1 /\ @ = "no" THEN "spent" ELSE @]

Init ==
    /\ prog \in DOMAIN Program
    /\ todo = [t \in Thread |-> IF t = Main THEN Program[prog] ELSE << >>]
    /\ ctx = [ready |-> << >>, work |-> 0, guard |-> FALSE, stopped |-> "no"]
    /\ strand = [locked |-> FALSE, turn |-> << >>, next |-> << >>]
    /\ timer = [at |-> 0, waiting |-> FALSE, handler |-> Handler("print", 0),
                cancelled |-> -1]
    /\ mutex = NoOne
    /\ count = 0
    /\ fut = "pending"
    /\ executed = << >>
    /\ now = 0

(* The calls of a thread.                                                  *)

SpawnThread(t) ==
    /\ At(t, "spawn")
    /\ todo' = [todo EXCEPT ![t] = Tail(@), ![Arg(t).thread] = Arg(t).body]
    /\ UNCHANGED <<ctx, strand, timer, mutex, count, fut, executed>>

\* A thread has ended when it has no call left.
JoinThread(t) ==
    /\ At(t, "join")
    /\ todo[Arg(t).thread] = << >>
    /\ Then(t, << >>)
    /\ UNCHANGED <<ctx, strand, timer, mutex, count, fut, executed>>

Asleep(t) == [op |-> "asleep", until |-> now + Arg(t).for]

FallAsleep(t) ==
    /\ At(t, "sleep")
    /\ Then(t, <<Asleep(t)>>)
    /\ UNCHANGED <<ctx, strand, timer, mutex, count, fut, executed>>

Reached(s) == now >= s \/ now = MaxNow

WakeUp(t) ==
    /\ \/ At(t, "asleep") /\ Reached(Arg(t).until)
       \/ At(t, "wait") /\ Reached(timer.at)
    /\ Then(t, << >>)
    /\ UNCHANGED <<ctx, strand, timer, mutex, count, fut, executed>>

LockMutex(t) ==
    \/ /\ At(t, "lock") /\ mutex = NoOne
       /\ mutex' = t
       /\ Then(t, << >>)
       /\ UNCHANGED <<ctx, strand, timer, count, fut, executed>>
    \/ /\ At(t, "unlock")
       /\ mutex' = NoOne
       /\ Then(t, << >>)
       /\ UNCHANGED <<ctx, strand, timer, count, fut, executed>>

MakeGuard(t) ==
    /\ At(t, "make_work_guard")
    /\ ctx' = [ctx EXCEPT !.guard = TRUE, !.work = @ + 1]
    /\ Then(t, << >>)
    /\ UNCHANGED <<strand, timer, mutex, count, fut, executed>>

GuardReset(t) ==
    /\ At(t, "reset")
    /\ ctx' = WorkFinished([ctx EXCEPT !.guard = FALSE])
    /\ Then(t, << >>)
    /\ UNCHANGED <<strand, timer, mutex, count, fut, executed>>

StopContext(t) ==
    /\ At(t, "stop")
    /\ ctx' = [ctx EXCEPT !.stopped = IF @ = "no" THEN "called" ELSE @]
    /\ Then(t, << >>)
    /\ UNCHANGED <<strand, timer, mutex, count, fut, executed>>

PostHandler(t) ==
    /\ At(t, "post")
    /\ ctx' = Queued(ctx, Arg(t).handler)
    /\ Then(t, << >>)
    /\ UNCHANGED <<strand, timer, mutex, count, fut, executed>>

\* mutant: every post to the strand queues a turn
PostToStrand_unlocked(t) ==
    /\ At(t, "strand")
    /\ strand' = [strand EXCEPT !.turn = Append(@, Arg(t).handler)]
    /\ ctx' = Queued(ctx, Handler("invoker", 0))
    /\ Then(t, << >>)
    /\ UNCHANGED <<timer, mutex, count, fut, executed>>

\* The first handler takes the strand and queues its turn, the others wait.
PostToStrand(t) ==
    /\ At(t, "strand")
    /\ IF strand.locked
       THEN /\ strand' = [strand EXCEPT !.next = Append(@, Arg(t).handler)]
            /\ UNCHANGED ctx
       ELSE /\ strand' = [strand EXCEPT !.locked = TRUE, !.turn = <<Arg(t).handler>>]
            /\ ctx' = Queued(ctx, Handler("invoker", 0))
    /\ Then(t, << >>)
    /\ UNCHANGED <<timer, mutex, count, fut, executed>>

(* The timer and the future.                                               *)

Armed(tm, h) == [tm EXCEPT !.waiting = TRUE, !.handler = h]

\* expires_after and the constructor: no wait is in progress at these calls.
SetExpiry(t) ==
    /\ At(t, "expires")
    /\ timer' = [timer EXCEPT !.at = now + Arg(t).after]
    /\ Then(t, << >>)
    /\ UNCHANGED <<ctx, strand, mutex, count, fut, executed>>

StartWait(t) ==
    /\ At(t, "async_wait")
    /\ timer' = Armed(timer, Arg(t).handler)
    /\ ctx' = [ctx EXCEPT !.work = @ + 1]
    /\ Then(t, << >>)
    /\ UNCHANGED <<strand, mutex, count, fut, executed>>

\* mutant: the wait is repeated without a new expiry
CountMessage_now(t) ==
    /\ At(t, "message")
    /\ IF count < 5
       THEN /\ count' = count + 1
            /\ timer' = Armed(timer, Handler("message", 0))
            /\ ctx' = [ctx EXCEPT !.work = @ + 1]
       ELSE UNCHANGED <<count, timer, ctx>>
    /\ Then(t, << >>)
    /\ UNCHANGED <<strand, mutex, fut, executed>>

CountMessage(t) ==
    /\ At(t, "message")
    /\ IF count < 5
       THEN /\ count' = count + 1
            /\ timer' = [Armed(timer, Handler("message", 0)) EXCEPT !.at = @ + 1]
            /\ ctx' = [ctx EXCEPT !.work = @ + 1]
       ELSE UNCHANGED <<count, timer, ctx>>
    /\ Then(t, << >>)
    /\ UNCHANGED <<strand, mutex, fut, executed>>

\* cancel() completes a wait that has not expired with operation_aborted; it
\* cannot take back one whose handler is queued.
CancelTimer(t) ==
    /\ At(t, "cancel")
    /\ timer' = [timer EXCEPT !.waiting = FALSE, !.cancelled = now]
    /\ ctx' = IF timer.waiting
              THEN Completed(ctx, [timer.handler EXCEPT !.ec = "aborted"]) ELSE ctx
    /\ Then(t, << >>)
    /\ UNCHANGED <<strand, mutex, count, fut, executed>>

\* use_future: the handler settles the future, and get() waits for that.
Settle(t) ==
    \/ /\ At(t, "set")
       /\ fut' = IF Arg(t).ec = "ok" THEN "value" ELSE "error"
       /\ Then(t, << >>)
       /\ UNCHANGED <<ctx, strand, timer, mutex, count, executed>>
    \/ /\ At(t, "get")
       /\ fut # "pending"
       /\ Then(t, << >>)
       /\ UNCHANGED <<ctx, strand, timer, mutex, count, fut, executed>>

(* run().                                                                  *)

\* The next handler of the queue is called; the turn of the strand is no handler.
TakeHandler(t) ==
    /\ At(t, "run")
    /\ ctx.stopped = "no"
    /\ ctx.ready # << >>
    /\ LET h == Head(ctx.ready)
       IN  /\ ctx' = [ctx EXCEPT !.ready = Tail(@)]
           /\ First(t, Body(h) \o <<Leave>>)
           /\ executed' = IF h.name = "invoker" THEN executed ELSE Append(executed, h.n)
    /\ UNCHANGED <<strand, timer, mutex, count, fut>>

\* mutant: the work of the handler is never given back
LeaveHandler_keep(t) ==
    /\ At(t, "leave")
    /\ Then(t, << >>)
    /\ UNCHANGED <<ctx, strand, timer, mutex, count, fut, executed>>

LeaveHandler(t) ==
    /\ At(t, "leave")
    /\ ctx' = WorkFinished(ctx)
    /\ Then(t, << >>)
    /\ UNCHANGED <<strand, timer, mutex, count, fut, executed>>

\* One turn: the handlers that were waiting when it began, then the strand is
\* released or the next turn is queued.
TakeTurn(t) ==
    /\ At(t, "turn")
    /\ strand.turn # << >>
    /\ LET h == Head(strand.turn)
       IN  /\ strand' = [strand EXCEPT !.turn = Tail(@)]
           /\ First(t, Body(h) \o <<Call("leave_strand")>>)
           /\ executed' = Append(executed, h.n)
    /\ UNCHANGED <<ctx, timer, mutex, count, fut>>

EndTurn(t) ==
    /\ At(t, "turn")
    /\ strand.turn = << >>
    /\ strand' = [locked |-> strand.next # << >>, turn |-> strand.next, next |-> << >>]
    /\ ctx' = IF strand.next # << >> THEN Queued(ctx, Handler("invoker", 0)) ELSE ctx
    /\ Then(t, << >>)
    /\ UNCHANGED <<timer, mutex, count, fut, executed>>

LeaveStrand(t) ==
    /\ At(t, "leave_strand")
    /\ Then(t, << >>)
    /\ UNCHANGED <<ctx, strand, timer, mutex, count, fut, executed>>

\* mutant: the clock is not looked at
ExpireTimer_early(t) ==
    /\ At(t, "run")
    /\ ctx.stopped = "no"
    /\ timer.waiting
    /\ timer' = [timer EXCEPT !.waiting = FALSE]
    /\ ctx' = Completed(ctx, timer.handler)
    /\ UNCHANGED <<todo, strand, mutex, count, fut, executed>>

\* A thread inside run() finds the expired timer and queues its handler.
ExpireTimer(t) ==
    /\ At(t, "run")
    /\ ctx.stopped = "no"
    /\ timer.waiting
    /\ now >= timer.at
    /\ timer' = [timer EXCEPT !.waiting = FALSE]
    /\ ctx' = Completed(ctx, timer.handler)
    /\ UNCHANGED <<todo, strand, mutex, count, fut, executed>>

\* run() returns when the io_context is stopped, and stops it when there is
\* nothing to do at all.
RunReturns(t) ==
    /\ At(t, "run")
    /\ ctx.stopped # "no" \/ ctx.work = 0
    /\ ctx' = [ctx EXCEPT !.stopped = IF @ = "no" THEN "spent" ELSE @]
    /\ Then(t, << >>)
    /\ UNCHANGED <<strand, timer, mutex, count, fut, executed>>

ThreadStep(t) ==
    /\ \/ SpawnThread(t) \/ JoinThread(t) \/ FallAsleep(t) \/ WakeUp(t)
       \/ LockMutex(t) \/ MakeGuard(t) \/ GuardReset(t) \/ StopContext(t)
       \/ PostHandler(t) \/ PostToStrand(t)
       \/ SetExpiry(t) \/ StartWait(t) \/ CountMessage(t) \/ CancelTimer(t)
       \/ Settle(t)
       \/ TakeHandler(t) \/ LeaveHandler(t) \/ TakeTurn(t) \/ EndTurn(t)
       \/ LeaveStrand(t) \/ ExpireTimer(t) \/ RunReturns(t)
    /\ UNCHANGED <<prog, now>>

\* Time passes while somebody waits for it.
Tick ==
    /\ now < MaxNow
    /\ \/ timer.at > now /\ (timer.waiting \/ At(Main, "wait"))
       \/ \E t \in Thread : At(t, "asleep") /\ Arg(t).until > now
    /\ now' = now + 1
    /\ UNCHANGED <<prog, todo, ctx, strand, timer, mutex, count, fut, executed>>

Next == Tick \/ \E t \in Thread : ThreadStep(t)

\* Every thread is scheduled, and time goes on.
Fairness == WF_vars(Tick) /\ \A t \in Thread : WF_vars(ThreadStep(t))

Spec == Init /\ [][Next]_vars /\ Fairness

(* Properties.                                                             *)

Ended == todo[Main] = << >>

\* Somebody has still to use the io_context, its timer or its mutex.
ContextCalls ==
    {"run", "post", "strand", "reset", "stop", "async_wait", "leave", "turn", "lock",
     "unlock", "cancel"}

Uses(t) == \E k \in DOMAIN todo[t] : todo[t][k].op \in ContextCalls

\* The io_context, its guard and the mutex are variables of the function: when it
\* returns, no thread, joined or detached, is going to use them any more.
NoDanglingContext == Ended => \A t \in Thread : ~Uses(t)

\* While the guard is held, run() ends only by a call of stop().
GuardHolds == ctx.guard => ctx.stopped # "spent"

\* A handler that was posted while the guard was held, or before the threads were
\* started, is executed before the program ends.  What is posted after the guard
\* was reset (BackgroundTasks.cpp:58) has no such promise.
NothingForgotten ==
    Ended =>
        /\ \A k \in DOMAIN ctx.ready : ~ctx.ready[k].guarded
        /\ prog # "runBackgroundTask" => ctx.ready = << >>
        /\ strand.turn = << >> /\ strand.next = << >>

\* "guaranteed not to run concurrently" (IoContext.cpp:111), and in the order in
\* which they were posted (:113 to :117).
StrandSerial ==
    prog = "Strand_Example" =>
        /\ Cardinality({t \in Thread : At(t, "leave_strand")}) <= 1
        /\ \A k \in DOMAIN executed : executed[k] = k

\* A timer that is armed again and again invokes its handler once a second at the
\* most, and m_count ends the repetition after six invocations.
TimerPace ==
    /\ prog \in {"Callback", "testCallback"} =>
          Len(executed) <= now /\ (Ended => Len(executed) = 6 /\ count = 5)
    /\ prog \in {"Chained", "chained_asynchronous_tasks"} =>
          executed = << >> \/ Len(executed) + 2 <= now

\* A cancel that comes before the expiry is never reported as an expired timer.
CancelInTimeFails ==
    (timer.cancelled >= 0 /\ timer.cancelled < timer.at) => fut # "value"

\* Every program ends but the two that arm their timer for ever, and the future,
\* whose thread may find nothing to wait for and leave run() before the wait
\* starts: nobody will settle it then.
ProgramEnds ==
    /\ (prog \notin {"Chained", "chained_asynchronous_tasks",
                     "Future_Exception_Handling"}) ~> Ended
    /\ (prog = "Future_Exception_Handling" /\ timer.waiting /\ ctx.stopped = "no")
          ~> Ended
====
