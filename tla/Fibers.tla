---- MODULE Fibers ----
(***************************************************************************)
(* SimpleTest of src/Threads/Fibers.cpp: a producer and a consumer fiber   *)
(* share a vector and a flag without any synchronisation of their own.     *)
(* A fiber runs until it yields or ends; the scheduler of Boost.Fiber      *)
(* resumes the fibers that are ready in turn.  The names say whose they    *)
(* are, because CooperativeProofs extends Coroutines along with this one.  *)
(***************************************************************************)
EXTENDS Integers, Sequences

CONSTANT N      \* the number of elements produced (10)

ASSUME NAssumption == N \in Nat

VARIABLES
    ready,      \* the scheduler's queue of ready fibers
    buffer,
    done,
    pushed,     \* the loop counter of the producer
    consumed,   \* history: what the consumer took out of the buffer
    ended       \* the fibers that have returned

fiberVars == <<ready, buffer, done, pushed, consumed, ended>>

\* mutant: the consumer is launched first
FibersInit_swapped ==
    /\ ready = <<"consumer", "producer">>
    /\ buffer = << >>
    /\ done = FALSE
    /\ pushed = 0
    /\ consumed = << >>
    /\ ended = {}

\* Both fibers are launched, producer first, before main blocks in join().
FibersInit ==
    /\ ready = <<"producer", "consumer">>
    /\ buffer = << >>
    /\ done = FALSE
    /\ pushed = 0
    /\ consumed = << >>
    /\ ended = {}

Runs(f) == ready # << >> /\ Head(ready) = f

\* this_fiber::yield(): to the end of the queue
FiberYields(f) == ready' = Append(Tail(ready), f) /\ UNCHANGED ended

FiberReturns(f) == ready' = Tail(ready) /\ ended' = ended \cup {f}

\* mutant: two elements are pushed in one turn
Produce_two ==
    /\ Runs("producer")
    /\ pushed < N
    /\ buffer' = Append(Append(buffer, pushed), pushed + 1)
    /\ pushed' = pushed + 2
    /\ FiberYields("producer")
    /\ UNCHANGED <<done, consumed>>

\* One turn of the producer: push an element, or set done and return
Produce ==
    /\ Runs("producer")
    /\ pushed < N
    /\ buffer' = Append(buffer, pushed)
    /\ pushed' = pushed + 1
    /\ FiberYields("producer")
    /\ UNCHANGED <<done, consumed>>

Finish ==
    /\ Runs("producer")
    /\ pushed = N
    /\ done' = TRUE
    /\ FiberReturns("producer")
    /\ UNCHANGED <<buffer, pushed, consumed>>

\* One turn of the consumer: take the front element, erase the last one.  On an
\* empty buffer front() and pop_back() are undefined.
Consume ==
    /\ Runs("consumer")
    /\ ~done
    /\ buffer # << >>
    /\ consumed' = Append(consumed, Head(buffer))
    /\ buffer' = SubSeq(buffer, 1, Len(buffer) - 1)
    /\ FiberYields("consumer")
    /\ UNCHANGED <<done, pushed>>

Leave ==
    /\ Runs("consumer")
    /\ done
    /\ FiberReturns("consumer")
    /\ UNCHANGED <<buffer, done, pushed, consumed>>

FibersNext == Produce \/ Finish \/ Consume \/ Leave

FibersSpec == FibersInit /\ [][FibersNext]_fiberVars

(* Properties.                                                             *)

\* The consumer never calls front() or pop_back() on an empty vector, although it
\* does not look: the producer always runs in between.
NeverEmpty == Runs("consumer") /\ ~done => buffer # << >>

\* Taking the front and erasing the back is the same only for one element: the
\* elements are consumed in order, each of them once.
ConsumedInOrder ==
    /\ consumed = [k \in 1..Len(consumed) |-> k - 1]
    /\ Len(buffer) <= 1

\* Nothing is left behind when done ends the consumer.
AllConsumed == ended = {"producer", "consumer"} => Len(consumed) = N
====
