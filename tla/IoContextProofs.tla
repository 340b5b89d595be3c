---- MODULE IoContextProofs ----
(***************************************************************************)
(* Safety of the programs of IoContext, for every number of posts, runners *)
(* and tasks.                                                              *)
(*                                                                         *)
(* The programs are read once: ProgramOK says what their tables have in    *)
(* common, and the lemmas up to Tables show it for every table, the loops  *)
(* of any length included.  GInv then counts the outstanding work: it is   *)
(* never less than the guard, the queue, the wait of the timer and the     *)
(* threads that are in a handler together, so the io_context cannot run    *)
(* out of work while the guard is held.  A program whose handler resets    *)
(* the guard is outside of ProgramOK; it has one thread, and BInv names    *)
(* its states.  CallbackInv and ChainInv do so for the repeating timers,   *)
(* StrandInv follows the one turn of the strand and the numbers of the     *)
(* posts, FutureInv a success from the expiry to the future.               *)
(*                                                                         *)
(* Two theorems are about all the programs together.  No thread is in a    *)
(* destroyed io_context: OInv says that the main thread still joins every  *)
(* thread that is going to use it, and DetachInv that the main thread      *)
(* stays in run() until the detached one has posted the stop, its last     *)
(* call.  No handler and no turn is forgotten:                             *)
(* LeftInv says what is still to come of each kind of program while a      *)
(* thread goes on - the runners, the turn of the strand, the expiry, the   *)
(* one answer of a future - so that at the end nothing is.                 *)
(***************************************************************************)
EXTENDS IoContext, SequenceTheorems, FiniteSetTheorems, TLAPS

(* The calls that the programs are made of.                                *)

\* The programs whose guard is reset by a handler
Backgrounds == {"backgroundTask", "background_task"}

\* The handlers of the other programs
Names ==
    {"task", "print", "slow", "pool_task", "detach", "detach_loop", "stop",
     "timer_handler", "message", "promise", "invoker"}

Outcome  == {"ok", "aborted"}
Handlers == [name : Names, n : Int, ec : Outcome, guarded : BOOLEAN]

Bare ==
    {"run", "stop", "lock", "unlock", "message", "turn", "leave_strand", "get", "wait"}

Basic ==
    [op : Bare] \cup [op : {"post", "strand", "async_wait"}, handler : Handlers]
    \cup [op : {"join"}, thread : Int] \cup [op : {"sleep"}, for : Int]
    \cup [op : {"asleep"}, until : Int] \cup [op : {"expires"}, after : Int]
    \cup [op : {"set"}, ec : Outcome]

Plain == Basic \cup [op : {"spawn"}, thread : Int, body : Seq(Basic)]

\* The calls that are counted
Special == {"leave", "make_work_guard", "reset", "cancel"}

Calls == Plain \cup [op : Special]

Context == [ready : Seq(Handlers), work : Int, guard : BOOLEAN,
            stopped : {"no", "spent", "called"}]
Timer   == [at : Int, waiting : BOOLEAN, handler : Handlers, cancelled : Int]
Strand  == [locked : BOOLEAN, turn : Seq(Handlers), next : Seq(Handlers)]

TypeInv ==
    /\ prog \in DOMAIN Program
    /\ todo \in [Thread -> Seq(Calls)]
    /\ ctx \in Context
    /\ strand \in Strand
    /\ timer \in Timer
    /\ now \in Int

(* Sequences of calls.                                                     *)

Has(s, o) == \E k \in 1..Len(s) : s[k].op = o

\* There is one end of a handler at the most, and it comes before every run().
LeaveOK(s) ==
    /\ \A j, k \in 1..Len(s) : s[j].op = "leave" /\ s[k].op = "leave" => j = k
    /\ \A j, k \in 1..Len(s) : s[j].op = "run" /\ s[k].op = "leave" => k < j

\* The guard is made first, and there is one reset at the most.
GuardOK(s) ==
    /\ \A k \in 1..Len(s) : s[k].op = "make_work_guard" => k = 1
    /\ \A j, k \in 1..Len(s) : s[j].op = "reset" /\ s[k].op = "reset" => j = k

\* Without its first call
LEMMA TailCalls ==
  ASSUME NEW s \in Seq(Calls), s # << >>
  PROVE  /\ Tail(s) \in Seq(Calls) /\ Head(s) \in Calls
         /\ \A o : Has(s, o) <=> Head(s).op = o \/ Has(Tail(s), o)
         /\ LeaveOK(s) => LeaveOK(Tail(s)) /\ (Head(s).op \in {"run", "leave"} => ~Has(Tail(s), "leave"))
         /\ GuardOK(s) => GuardOK(Tail(s)) /\ ~Has(Tail(s), "make_work_guard")
         /\ GuardOK(s) /\ Head(s).op = "reset" => ~Has(Tail(s), "reset")
<1>. DEFINE u == Tail(s)
<1>1. /\ u \in Seq(Calls) /\ Head(s) = s[1] /\ Head(s) \in Calls
      /\ Len(s) \in Nat \ {0} /\ Len(u) = Len(s) - 1
      /\ \A k \in 1..Len(u) : u[k] = s[k + 1]
  BY HeadTailProperties
<1>. HIDE DEF u
<1>2. \A k \in 1..Len(u) : k + 1 \in 1..Len(s)
  BY <1>1
<1>3. 1 \in 1..Len(s) /\ \A k \in 1..Len(s) : k # 1 => k - 1 \in 1..Len(u) /\ s[k] = u[k - 1]
  BY <1>1
<1>4. \A o : Has(s, o) <=> Head(s).op = o \/ Has(u, o)
  <2>. SUFFICES ASSUME NEW o PROVE Has(s, o) <=> Head(s).op = o \/ Has(u, o)
    OBVIOUS
  <2>1. Has(s, o) => Head(s).op = o \/ Has(u, o)
    BY <1>1, <1>3 DEF Has
  <2>2. Head(s).op = o => Has(s, o)
    BY <1>1, <1>3 DEF Has
  <2>3. Has(u, o) => Has(s, o)
    BY <1>1, <1>2 DEF Has
  <2>. QED
    BY <2>1, <2>2, <2>3
<1>5. ASSUME LeaveOK(s) PROVE LeaveOK(u) /\ (Head(s).op \in {"run", "leave"} => ~Has(u, "leave"))
  <2>1. \A j, k \in 1..Len(u) : u[j].op = "leave" /\ u[k].op = "leave" => j = k
    <3>1. SUFFICES ASSUME NEW j \in 1..Len(u), NEW k \in 1..Len(u),
                          u[j].op = "leave", u[k].op = "leave"
                   PROVE  j = k
      OBVIOUS
    <3>2. j + 1 = k + 1
      BY <1>1, <1>2, <1>5, <3>1 DEF LeaveOK
    <3>. QED
      BY <3>2
  <2>2. \A j, k \in 1..Len(u) : u[j].op = "run" /\ u[k].op = "leave" => k < j
    <3>1. SUFFICES ASSUME NEW j \in 1..Len(u), NEW k \in 1..Len(u),
                          u[j].op = "run", u[k].op = "leave"
                   PROVE  k < j
      OBVIOUS
    <3>2. k + 1 < j + 1
      BY <1>1, <1>2, <1>5, <3>1 DEF LeaveOK
    <3>. QED
      BY <3>2
  <2>3. ASSUME Head(s).op \in {"run", "leave"}, NEW k \in 1..Len(u), u[k].op = "leave"
        PROVE  FALSE
    <3>1. k + 1 \in 1..Len(s) /\ s[k + 1].op = "leave" /\ s[1].op \in {"run", "leave"}
      BY <1>1, <1>2, <2>3
    <3>2. k + 1 = 1 \/ k + 1 < 1
      BY <1>3, <1>5, <3>1 DEF LeaveOK
    <3>. QED
      BY <1>1, <3>2
  <2>. QED
    BY <2>1, <2>2, <2>3 DEF LeaveOK, Has
<1>6. ASSUME GuardOK(s)
      PROVE  /\ GuardOK(u) /\ ~Has(u, "make_work_guard")
             /\ Head(s).op = "reset" => ~Has(u, "reset")
  <2>1. ASSUME NEW k \in 1..Len(u), u[k].op = "make_work_guard" PROVE FALSE
    <3>1. k + 1 = 1
      BY <1>1, <1>2, <1>6, <2>1 DEF GuardOK
    <3>. QED
      BY <1>1, <3>1
  <2>2. \A j, k \in 1..Len(u) : u[j].op = "reset" /\ u[k].op = "reset" => j = k
    <3>1. SUFFICES ASSUME NEW j \in 1..Len(u), NEW k \in 1..Len(u),
                          u[j].op = "reset", u[k].op = "reset"
                   PROVE  j = k
      OBVIOUS
    <3>2. j + 1 = k + 1
      BY <1>1, <1>2, <1>6, <3>1 DEF GuardOK
    <3>. QED
      BY <3>2
  <2>3. ASSUME Head(s).op = "reset", NEW k \in 1..Len(u), u[k].op = "reset"
        PROVE  FALSE
    <3>1. k + 1 = 1
      BY <1>1, <1>2, <1>3, <1>6, <2>3 DEF GuardOK
    <3>. QED
      BY <1>1, <3>1
  <2>. QED
    BY <2>1, <2>2, <2>3 DEF GuardOK, Has
<1>. QED
  BY <1>1, <1>4, <1>5, <1>6 DEF u

\* The calls that a handler makes before the others of its thread
LEMMA MoreCalls ==
  ASSUME NEW a \in Seq(Plain), ~Has(a, "run"), NEW s \in Seq(Calls)
  PROVE  /\ a \o s \in Seq(Calls)
         /\ \A o \in Special : Has(a \o s, o) <=> Has(s, o)
         /\ LeaveOK(s) => LeaveOK(a \o s)
         /\ GuardOK(s) /\ ~Has(s, "make_work_guard") => GuardOK(a \o s)
<1>. DEFINE u == a \o s
            n == Len(a)
<1>1. /\ a \in Seq(Calls) /\ u \in Seq(Calls) /\ Len(u) = n + Len(s)
      /\ n \in Nat /\ Len(s) \in Nat
      /\ \A k \in 1..n : u[k] = a[k] /\ a[k] \in Plain
      /\ \A k \in 1..Len(u) : k > n => u[k] = s[k - n]
  <2>1. a \in Seq(Calls)
    BY DEF Calls
  <2>. QED
    BY <2>1, ConcatProperties, ElementOfSeq
<1>2. \A c \in Plain : c.op \notin Special
  BY DEF Plain, Basic, Bare, Special
<1>. HIDE DEF u, n
<1>3. \A k \in 1..n : k \in 1..Len(u) /\ u[k].op \notin Special /\ u[k].op # "run"
  <2>1. \A k \in 1..n : a[k].op # "run"
    BY DEF Has, n
  <2>. QED
    BY <1>1, <1>2, <2>1
<1>4. \A k \in 1..Len(u) : k \notin 1..n => k - n \in 1..Len(s) /\ u[k] = s[k - n] /\ k > n
  BY <1>1
<1>5. \A k \in 1..Len(s) : k + n \in 1..Len(u) /\ u[k + n] = s[k]
  <2>1. SUFFICES ASSUME NEW k \in 1..Len(s) PROVE k + n \in 1..Len(u) /\ u[k + n] = s[k]
    OBVIOUS
  <2>2. k + n \in 1..Len(u) /\ k + n > n /\ (k + n) - n = k
    BY <1>1
  <2>. QED
    BY <1>1, <2>2
<1>6. \A o \in Special : Has(u, o) <=> Has(s, o)
  BY <1>3, <1>4, <1>5 DEF Has
<1>7. ASSUME LeaveOK(s) PROVE LeaveOK(u)
  <2>1. ASSUME NEW j \in 1..Len(u), NEW k \in 1..Len(u), u[j].op = "leave", u[k].op = "leave"
        PROVE  j = k
    <3>1. j - n = k - n
      BY <1>3, <1>4, <1>7, <2>1 DEF LeaveOK, Special
    <3>. QED
      BY <1>1, <3>1
  <2>2. ASSUME NEW j \in 1..Len(u), NEW k \in 1..Len(u), u[j].op = "run", u[k].op = "leave"
        PROVE  k < j
    <3>1. k - n < j - n
      BY <1>3, <1>4, <1>7, <2>2 DEF LeaveOK, Special
    <3>. QED
      BY <1>1, <3>1
  <2>. QED
    BY <2>1, <2>2 DEF LeaveOK
<1>8. ASSUME GuardOK(s), ~Has(s, "make_work_guard") PROVE GuardOK(u)
  <2>1. ASSUME NEW j \in 1..Len(u), NEW k \in 1..Len(u), u[j].op = "reset", u[k].op = "reset"
        PROVE  j = k
    <3>1. j - n = k - n
      BY <1>3, <1>4, <1>8, <2>1 DEF GuardOK, Special
    <3>. QED
      BY <1>1, <3>1
  <2>2. ~Has(u, "make_work_guard")
    BY <1>6, <1>8 DEF Special
  <2>. QED
    BY <2>1, <2>2 DEF GuardOK, Has
<1>. QED
  BY <1>1, <1>6, <1>7, <1>8 DEF u

\* The end of a handler joins the calls of a thread.
LEMMA EndOfHandler ==
  ASSUME NEW s \in Seq(Calls), ~Has(s, "leave")
  PROVE  /\ <<Leave>> \o s \in Seq(Calls) /\ LeaveOK(<<Leave>> \o s) /\ Has(<<Leave>> \o s, "leave")
         /\ \A o \in Special \ {"leave"} : Has(<<Leave>> \o s, o) <=> Has(s, o)
         /\ GuardOK(s) /\ ~Has(s, "make_work_guard") => GuardOK(<<Leave>> \o s)
<1>. DEFINE u == <<Leave>> \o s
<1>1. Leave \in Calls /\ Leave.op = "leave"
  BY DEF Calls, Special, Leave, Call
<1>2. /\ u \in Seq(Calls) /\ Len(u) = Len(s) + 1 /\ Len(s) \in Nat /\ u[1].op = "leave"
      /\ \A k \in 1..Len(u) : k # 1 => u[k] = s[k - 1]
  <2>1. <<Leave>> \in Seq(Calls) /\ Len(<<Leave>>) = 1 /\ <<Leave>>[1] = Leave
    BY <1>1
  <2>. QED
    BY <1>1, <2>1, ConcatProperties
<1>. HIDE DEF u
<1>3. 1 \in 1..Len(u) /\ \A k \in 1..Len(u) : k # 1 => k - 1 \in 1..Len(s) /\ u[k] = s[k - 1] /\ 1 < k
  BY <1>2
<1>4. \A k \in 1..Len(s) : k + 1 \in 1..Len(u) /\ u[k + 1] = s[k]
  BY <1>2
<1>5. Has(u, "leave") /\ LeaveOK(u)
  BY <1>2, <1>3 DEF Has, LeaveOK
<1>6. \A o \in Special \ {"leave"} : Has(u, o) <=> Has(s, o)
  <2>. SUFFICES ASSUME NEW o, o # "leave" PROVE Has(u, o) <=> Has(s, o)
    OBVIOUS
  <2>1. Has(u, o) => Has(s, o)
    BY <1>2, <1>3 DEF Has
  <2>2. Has(s, o) => Has(u, o)
    BY <1>4 DEF Has
  <2>. QED
    BY <2>1, <2>2
<1>7. ASSUME GuardOK(s), ~Has(s, "make_work_guard") PROVE GuardOK(u)
  <2>1. ASSUME NEW j \in 1..Len(u), NEW k \in 1..Len(u), u[j].op = "reset", u[k].op = "reset"
        PROVE  j = k
    <3>1. j - 1 = k - 1
      BY <1>2, <1>3, <1>7, <2>1 DEF GuardOK
    <3>. QED
      BY <3>1
  <2>2. ~Has(u, "make_work_guard")
    BY <1>6, <1>7 DEF Special
  <2>. QED
    BY <2>1, <2>2 DEF GuardOK, Has
<1>. QED
  BY <1>2, <1>5, <1>6, <1>7 DEF u

(* The tables.                                                             *)

\* A program as main() writes it: it holds a guard before it resets one.
ProgramOK(s) ==
    /\ s \in Seq(Calls)
    /\ ~Has(s, "leave") /\ GuardOK(s)
    /\ Has(s, "reset") => Has(s, "make_work_guard")

\* Calls that follow in a program
LEMMA Extend ==
  ASSUME NEW s, ProgramOK(s), NEW b \in Seq(Plain)
  PROVE  ProgramOK(s \o b) /\ \A o \in Special : Has(s \o b, o) <=> Has(s, o)
<1>. DEFINE u == s \o b
            n == Len(s)
<1>1. /\ u \in Seq(Calls) /\ Len(u) = n + Len(b)
      /\ n \in Nat /\ Len(b) \in Nat /\ n <= Len(u)
      /\ \A k \in 1..n : u[k] = s[k]
      /\ \A k \in 1..Len(u) : k > n => u[k] = b[k - n]
  <2>1. b \in Seq(Calls) /\ s \in Seq(Calls)
    BY DEF Calls, ProgramOK
  <2>. QED
    BY <2>1, ConcatProperties
<1>2. \A c \in Plain : c.op \notin Special
  BY DEF Plain, Basic, Bare, Special
<1>. HIDE DEF u, n
<1>3. \A k \in 1..Len(u) : k \notin 1..n => u[k].op \notin Special
  <2>1. \A k \in 1..Len(u) : k \notin 1..n => k > n /\ k - n \in 1..Len(b)
    BY <1>1
  <2>. QED
    BY <1>1, <1>2, <2>1, ElementOfSeq
<1>4. \A k \in 1..n : k \in 1..Len(u) /\ u[k] = s[k]
  BY <1>1
<1>5. \A o \in Special : Has(u, o) <=> Has(s, o)
  BY <1>3, <1>4 DEF Has, n
<1>6. GuardOK(u)
  BY <1>3, <1>4 DEF GuardOK, ProgramOK, Special, n
<1>. QED
  BY <1>1, <1>5, <1>6 DEF ProgramOK, Special, u

\* The release of the guard
LEMMA Release ==
  ASSUME NEW s, ProgramOK(s), Has(s, "make_work_guard"), ~Has(s, "reset")
  PROVE  ProgramOK(s \o <<ResetGuard>>) /\ (~Has(s, "cancel") => ~Has(s \o <<ResetGuard>>, "cancel"))
<1>. DEFINE u == s \o <<ResetGuard>>
            n == Len(s)
<1>1. /\ u \in Seq(Calls) /\ Len(u) = n + 1 /\ n \in Nat
      /\ \A k \in 1..n : k \in 1..Len(u) /\ u[k] = s[k]
      /\ \A k \in 1..Len(u) : k \notin 1..n => k = n + 1 /\ u[k].op = "reset"
  <2>1. ResetGuard \in Calls /\ ResetGuard.op = "reset"
    BY DEF Calls, Special, ResetGuard, Call
  <2>2. s \in Seq(Calls) /\ u = Append(s, ResetGuard)
    BY <2>1, AppendIsConcat DEF ProgramOK
  <2>. QED
    BY <2>1, <2>2, AppendProperties
<1>. HIDE DEF u, n
<1>2. ~Has(u, "leave") /\ Has(u, "make_work_guard")
  BY <1>1 DEF Has, ProgramOK, n
<1>3. GuardOK(u)
  BY <1>1 DEF GuardOK, ProgramOK, Has, n
<1>4. ~Has(s, "cancel") => ~Has(u, "cancel")
  BY <1>1 DEF Has, n
<1>. QED
  BY <1>1, <1>2, <1>3, <1>4 DEF ProgramOK, u

\* The two beginnings of a program
LEMMA Beginnings ==
  /\ ProgramOK(<< >>) /\ \A o : ~Has(<< >>, o)
  /\ ProgramOK(<<Guard>>) /\ \A o : Has(<<Guard>>, o) <=> o = "make_work_guard"
<1>1. Guard \in Calls /\ Guard.op = "make_work_guard"
  BY DEF Calls, Special, Guard, Call
<1>2. <<Guard>> \in Seq(Calls) /\ Len(<<Guard>>) = 1 /\ <<Guard>>[1] = Guard
  BY <1>1
<1>. QED
  BY <1>1, <1>2 DEF ProgramOK, GuardOK, Has

\* Whatever the programs write is a call.
LEMMA PlainCalls ==
  /\ \A s \in Names, k \in Int : Handler(s, k) \in Handlers
  /\ \A h \in Handlers : Post(h) \in Basic /\ AsyncWait(h) \in Basic /\ PostStrand(h) \in Basic
  /\ \A i \in Int : Join(i) \in Basic /\ Sleep(i) \in Basic /\ Expires(i) \in Basic
  /\ \A o \in Bare : Call(o) \in Basic
  /\ \A i \in Int, b \in Seq(Basic) : Spawn(i, b) \in Plain
  /\ Run \in Basic /\ Basic \subseteq Plain
<1>1. \A s \in Names, k \in Int : Handler(s, k) \in Handlers
  BY DEF Handler, Handlers, Outcome
<1>2. \A h \in Handlers : Post(h) \in Basic /\ AsyncWait(h) \in Basic /\ PostStrand(h) \in Basic
  BY DEF Post, AsyncWait, PostStrand, Basic
<1>3. \A i \in Int : Join(i) \in Basic /\ Sleep(i) \in Basic /\ Expires(i) \in Basic
  BY DEF Join, Sleep, Expires, Basic
<1>4. \A o \in Bare : Call(o) \in Basic
  BY DEF Call, Basic
<1>5. \A i \in Int, b \in Seq(Basic) : Spawn(i, b) \in Plain
  BY DEF Spawn, Plain
<1>6. Run \in Basic
  BY <1>4 DEF Run, Bare
<1>. QED
  BY <1>1, <1>2, <1>3, <1>4, <1>5, <1>6 DEF Plain

\* The calls of the loops
LEMMA LoopCalls ==
  \A i \in Int :
      /\ PostTask(i) \in Plain /\ StrandTask(i) \in Plain /\ PostPoolTask(i) \in Plain
      /\ SlowPoolTask(i) \in Plain /\ SpawnRunner(i) \in Plain /\ Join(i) \in Plain
      /\ SystemTask(i) \in Plain
<1>. SUFFICES ASSUME NEW i \in Int
              PROVE  /\ PostTask(i) \in Plain /\ StrandTask(i) \in Plain /\ PostPoolTask(i) \in Plain
                     /\ SlowPoolTask(i) \in Plain /\ SpawnRunner(i) \in Plain /\ Join(i) \in Plain
                     /\ SystemTask(i) \in Plain
  OBVIOUS
<1>1. {"task", "pool_task", "slow"} \subseteq Names
  BY DEF Names
<1>2. PostTask(i) \in Plain /\ StrandTask(i) \in Plain /\ PostPoolTask(i) \in Plain /\ SlowPoolTask(i) \in Plain
  BY <1>1, PlainCalls DEF PostTask, StrandTask, PostPoolTask, SlowPoolTask
<1>3. Join(i) \in Plain
  BY PlainCalls
<1>4. SpawnRunner(i) \in Plain
  <2>1. <<Run>> \in Seq(Basic)
    BY PlainCalls
  <2>. QED
    BY <2>1, PlainCalls DEF SpawnRunner
<1>5. SystemTask(i) \in Plain
  <2>1. <<Sleep(2)>> \in Seq(Basic) /\ 1 + i \in Int
    BY PlainCalls
  <2>. QED
    BY <2>1, PlainCalls DEF SystemTask
<1>. QED
  BY <1>2, <1>3, <1>4, <1>5

\* The loops
LEMMA Loops ==
  ASSUME NEW n \in Nat
  PROVE  /\ Each(n, PostTask) \in Seq(Plain) /\ Each(n, StrandTask) \in Seq(Plain)
         /\ Each(n, PostPoolTask) \in Seq(Plain) /\ Each(n, SlowPoolTask) \in Seq(Plain)
         /\ Each(n, SpawnRunner) \in Seq(Plain) /\ Each(n, Join) \in Seq(Plain)
<1>1. Each(n, PostTask) \in Seq(Plain) /\ Each(n, StrandTask) \in Seq(Plain)
  BY LoopCalls DEF Each
<1>2. Each(n, PostPoolTask) \in Seq(Plain) /\ Each(n, SlowPoolTask) \in Seq(Plain)
  BY LoopCalls DEF Each
<1>3. Each(n, SpawnRunner) \in Seq(Plain) /\ Each(n, Join) \in Seq(Plain)
  BY LoopCalls DEF Each
<1>. QED
  BY <1>1, <1>2, <1>3

Unguarded ==
    {"example_1", "example_MultipleThreads", "getExecutor", "Strand_Example",
     "Post_vs_Dispatch", "post_vs_dispatch_task", "Chained",
     "chained_asynchronous_tasks", "run_single_thread", "Timeouts_SimpleTest",
     "Timer_Async", "Experiments_Timer", "SimpleAsynchTest", "Callback", "testCallback"}

\* The programs without a guard
LEMMA UnguardedPrograms ==
  ASSUME SizeAssumption
  PROVE  \A p \in Unguarded : Program[p] \in Seq(Plain)
<1>1. example_1 \in Seq(Plain) /\ Post_vs_Dispatch \in Seq(Plain) /\ post_vs_dispatch_task \in Seq(Plain)
  <2>1. PostTask(1) \in Plain /\ PostTask(2) \in Plain /\ Run \in Plain
    BY LoopCalls, PlainCalls
  <2>2. Post(Handler("task", 1)) \in Plain /\ Post(Handler("slow", 1)) \in Plain
    BY PlainCalls DEF Names
  <2>. QED
    BY <2>1, <2>2 DEF example_1, Post_vs_Dispatch, post_vs_dispatch_task
<1>2. example_MultipleThreads \in Seq(Plain) /\ Strand_Example \in Seq(Plain)
  <2>1. /\ Each(Posts, PostTask) \in Seq(Plain) /\ Each(Posts, StrandTask) \in Seq(Plain)
        /\ Each(Runners, SpawnRunner) \in Seq(Plain) /\ Each(Runners, Join) \in Seq(Plain)
    BY Loops DEF SizeAssumption
  <2>. QED
    BY <2>1, ConcatProperties DEF example_MultipleThreads, Strand_Example
<1>3. /\ getExecutor \in Seq(Plain) /\ Chained \in Seq(Plain) /\ run_single_thread \in Seq(Plain)
      /\ Timeouts_SimpleTest \in Seq(Plain) /\ Timer_Async \in Seq(Plain)
      /\ Experiments_Timer \in Seq(Plain) /\ Callback \in Seq(Plain)
  <2>1. Expires(1) \in Plain /\ Expires(2) \in Plain /\ Expires(3) \in Plain /\ Run \in Plain
    BY PlainCalls
  <2>2. /\ AsyncWait(Handler("print", 0)) \in Plain /\ AsyncWait(Handler("message", 0)) \in Plain
        /\ AsyncWait(Handler("timer_handler", 0)) \in Plain
    BY PlainCalls DEF Names
  <2>3. Call("wait") \in Plain
    BY PlainCalls DEF Bare
  <2>. QED
    BY <2>1, <2>2, <2>3 DEF getExecutor, Chained, run_single_thread, Timeouts_SimpleTest,
                            Timer_Async, Experiments_Timer, Callback
<1>4. SimpleAsynchTest \in Seq(Plain)
  <2>1. <<Sleep(1)>> \in Seq(Basic) /\ Join(1) \in Plain
    BY PlainCalls
  <2>2. \A b \in Seq(Basic) : Spawn(1, b) \in Plain
    BY PlainCalls
  <2>3. Spawn(1, <<Sleep(1)>>) \in Plain
    BY <2>1, <2>2, Zenon
  <2>. QED
    BY <2>1, <2>3 DEF SimpleAsynchTest
<1>. QED
  BY <1>1, <1>2, <1>3, <1>4 DEF Unguarded, Program, chained_asynchronous_tasks, testCallback

\* The pools
LEMMA Pools ==
  ASSUME NEW n \in Nat, NEW tasks \in Seq(Plain), NEW last \in Seq(Plain)
  PROVE  ProgramOK(Pool(n, tasks, last)) /\ ~Has(Pool(n, tasks, last), "cancel")
<1>. DEFINE a == <<Guard>> \o Each(n, SpawnRunner)
            b == a \o tasks
            c == b \o <<ResetGuard>>
            d == c \o Each(n, Join)
            e == d \o last
<1>1. ProgramOK(a) /\ \A o \in Special : Has(a, o) <=> o = "make_work_guard"
  BY Beginnings, Loops, Extend
<1>2. ProgramOK(b) /\ \A o \in Special : Has(b, o) <=> o = "make_work_guard"
  <2>. HIDE DEF a
  <2>. QED
    BY <1>1, Extend
<1>3. ProgramOK(c) /\ ~Has(c, "cancel")
  <2>. HIDE DEF b
  <2>. QED
    BY <1>2, Release DEF Special
<1>4. ProgramOK(d) /\ ~Has(d, "cancel")
  <2>. HIDE DEF c
  <2>. QED
    BY <1>3, Extend, Loops DEF Special
<1>5. ProgramOK(e) /\ ~Has(e, "cancel")
  <2>. HIDE DEF d
  <2>. QED
    BY <1>4, Extend DEF Special
<1>. QED
  BY <1>5 DEF Pool

\* The tables but those of the tasks whose guard a handler resets
LEMMA Tables ==
  ASSUME SizeAssumption, NEW p \in DOMAIN Program \ Backgrounds
  PROVE  ProgramOK(Program[p]) /\ (p # "Future_Exception_Handling" => ~Has(Program[p], "cancel"))
<1>1. CASE p \in Unguarded
  <2>1. ASSUME NEW s \in Seq(Plain) PROVE ProgramOK(s) /\ ~Has(s, "cancel")
    <3>1. << >> \o s = s
      BY ConcatEmptySeq
    <3>2. ProgramOK(<< >> \o s) /\ ~Has(<< >> \o s, "cancel")
      BY Beginnings, Extend DEF Special
    <3>. QED
      BY <3>1, <3>2
  <2>. QED
    BY <1>1, <2>1, UnguardedPrograms
<1>2. CASE p \in {"Main_Thread", "run_async_task"}
  <2>1. \A a \in Seq(Plain) : ProgramOK(<<Guard>> \o a) /\ ~Has(<<Guard>> \o a, "cancel")
    BY Beginnings, Extend DEF Special
  <2>2. \A h \in Handlers : <<Post(h), Run>> \in Seq(Plain) /\ <<Guard, Post(h), Run>> = <<Guard>> \o <<Post(h), Run>>
    BY PlainCalls
  <2>3. Handler("detach", 1) \in Handlers /\ Handler("detach_loop", 1) \in Handlers
    BY PlainCalls DEF Names
  <2>4. /\ Program["Main_Thread"] = <<Guard, Post(Handler("detach", 1)), Run>>
        /\ Program["run_async_task"] = <<Guard, Post(Handler("detach_loop", 1)), Run>>
    BY DEF Program, Main_Thread, run_async_task
  <2>. QED
    BY <1>2, <2>1, <2>2, <2>3, <2>4
<1>3. CASE p \in {"runBackgroundTask", "SingleContext"}
  <2>1. ASSUME NEW a \in Seq(Plain), NEW b \in Seq(Plain)
        PROVE  /\ ProgramOK(((<<Guard>> \o a) \o <<ResetGuard>>) \o b)
               /\ ~Has(((<<Guard>> \o a) \o <<ResetGuard>>) \o b, "cancel")
    <3>. DEFINE c == <<Guard>> \o a
                d == c \o <<ResetGuard>>
    <3>1. ProgramOK(c) /\ \A o \in Special : Has(c, o) <=> o = "make_work_guard"
      BY Beginnings, Extend
    <3>2. ProgramOK(d) /\ ~Has(d, "cancel")
      <4>. HIDE DEF c
      <4>. QED
        BY <3>1, Release DEF Special
    <3>. HIDE DEF d
    <3>3. ProgramOK(d \o b) /\ ~Has(d \o b, "cancel")
      BY <3>2, Extend DEF Special
    <3>. QED
      BY <3>3 DEF d
  <2>2. Post(Handler("slow", 1)) \in Basic
    BY PlainCalls DEF Names
  <2>3. <<Sleep(1), Post(Handler("slow", 1))>> \in Seq(Basic)
    BY <2>2, PlainCalls
  <2>4. /\ SpawnRunner(1) \in Plain /\ SystemTask(1) \in Plain /\ SystemTask(2) \in Plain /\ SystemTask(3) \in Plain
        /\ Sleep(3) \in Plain /\ Sleep(5) \in Plain /\ Join(1) \in Plain /\ Join(2) \in Plain
        /\ Spawn(2, <<Sleep(1), Post(Handler("slow", 1))>>) \in Plain
    <3>1. \A b \in Seq(Basic) : Spawn(2, b) \in Plain
      BY PlainCalls
    <3>2. Sleep(3) \in Plain /\ Sleep(5) \in Plain /\ Join(1) \in Plain /\ Join(2) \in Plain
      BY PlainCalls
    <3>. QED
      <4>1. Spawn(2, <<Sleep(1), Post(Handler("slow", 1))>>) \in Plain
        BY <2>3, <3>1, Zenon
      <4>2. SpawnRunner(1) \in Plain /\ SystemTask(1) \in Plain /\ SystemTask(2) \in Plain /\ SystemTask(3) \in Plain
        BY LoopCalls
      <4>. QED
        BY <3>2, <4>1, <4>2
  <2>5. /\ <<SpawnRunner(1), Spawn(2, <<Sleep(1), Post(Handler("slow", 1))>>), Sleep(3)>> \in Seq(Plain)
        /\ <<SpawnRunner(1), SystemTask(1), SystemTask(2), SystemTask(3), Sleep(5)>> \in Seq(Plain)
        /\ <<Join(2), Join(1)>> \in Seq(Plain) /\ <<Join(1)>> \in Seq(Plain)
    BY <2>4
  <2>6. ProgramOK(runBackgroundTask) /\ ~Has(runBackgroundTask, "cancel")
    <3>1. PICK a \in Seq(Plain) : a = <<SpawnRunner(1), Spawn(2, <<Sleep(1), Post(Handler("slow", 1))>>), Sleep(3)>>
      BY <2>5
    <3>2. PICK b \in Seq(Plain) : b = <<Join(2), Join(1)>>
      BY <2>5
    <3>3. runBackgroundTask = ((<<Guard>> \o a) \o <<ResetGuard>>) \o b
      BY <3>1, <3>2 DEF runBackgroundTask
    <3>. QED
      BY <2>1, <3>3
  <2>7. ProgramOK(SingleContext) /\ ~Has(SingleContext, "cancel")
    <3>1. PICK a \in Seq(Plain) : a = <<SpawnRunner(1), SystemTask(1), SystemTask(2), SystemTask(3), Sleep(5)>>
      BY <2>5
    <3>2. PICK b \in Seq(Plain) : b = <<Join(1)>>
      BY <2>5
    <3>3. SingleContext = ((<<Guard>> \o a) \o <<ResetGuard>>) \o b
      BY <3>1, <3>2 DEF SingleContext
    <3>. QED
      BY <2>1, <3>3
  <2>. QED
    BY <1>3, <2>6, <2>7 DEF Program
<1>4. CASE p \in {"SimpleTest", "RunTest", "ThreadPool_Test", "Worker"}
  <2>1. /\ 1 \in Nat /\ PoolSize \in Nat /\ << >> \in Seq(Plain) /\ <<Call("stop")>> \in Seq(Plain)
        /\ Each(PoolTasks, PostPoolTask) \in Seq(Plain) /\ Each(PoolTasks, SlowPoolTask) \in Seq(Plain)
    <3>1. /\ Each(PoolTasks, PostPoolTask) \in Seq(Plain) /\ Each(PoolTasks, SlowPoolTask) \in Seq(Plain)
          /\ PoolSize \in Nat
      BY Loops DEF SizeAssumption
    <3>2. Call("stop") \in Plain
      BY PlainCalls DEF Bare
    <3>. QED
      BY <3>1, <3>2
  <2>2. /\ ProgramOK(SimpleTest) /\ ~Has(SimpleTest, "cancel")
        /\ ProgramOK(RunTest) /\ ~Has(RunTest, "cancel")
    BY <2>1, Pools DEF SimpleTest, RunTest
  <2>3. /\ ProgramOK(ThreadPool_Test) /\ ~Has(ThreadPool_Test, "cancel")
        /\ ProgramOK(Worker) /\ ~Has(Worker, "cancel")
    BY <2>1, Pools DEF ThreadPool_Test, Worker
  <2>. QED
    BY <1>4, <2>2, <2>3 DEF Program
<1>5. CASE p = "Future_Exception_Handling"
  <2>. DEFINE f == Future_Exception_Handling
  <2>1. /\ Expires(4) \in Calls /\ SpawnRunner(1) \in Calls /\ Sleep(2) \in Calls /\ Join(1) \in Calls
        /\ AsyncWait(Handler("promise", 0)) \in Calls /\ Call("get") \in Calls /\ Call("cancel") \in Calls
    BY PlainCalls, LoopCalls DEF Calls, Names, Bare, Special, Call
  <2>2. f \in Seq(Calls) /\ Len(f) = 7
    BY <2>1 DEF Future_Exception_Handling
  <2>3. \A k \in 1..7 : f[k].op \notin {"leave", "make_work_guard", "reset"}
    BY DEF Future_Exception_Handling, Expires, SpawnRunner, Spawn, AsyncWait, Sleep, Call, Join
  <2>. HIDE DEF f
  <2>4. ProgramOK(f)
    BY <2>2, <2>3 DEF ProgramOK, Has, GuardOK
  <2>. QED
    BY <1>5, <2>4 DEF Program, f
<1>. QED
  BY <1>1, <1>2, <1>3, <1>4, <1>5 DEF Program, Unguarded, Backgrounds

(* The handlers and the io_context.                                        *)

\* A handler runs no io_context and leaves the guard alone.
LEMMA Bodies ==
  ASSUME NEW h \in Handlers
  PROVE  Body(h) \in Seq(Plain) /\ ~Has(Body(h), "run")
<1>. DEFINE Good(b) == b \in Seq(Plain) /\ ~Has(b, "run")
<1>1. Good(<< >>)
  BY DEF Has
<1>2. \A c \in Plain : c.op # "run" => Good(<<c>>)
  BY DEF Has
<1>18. \A c, d \in Plain : c.op # "run" /\ d.op # "run" => Good(<<c, d>>)
  BY DEF Has
<1>3. /\ Sleep(1) \in Plain /\ Sleep(2) \in Plain /\ Expires(1) \in Plain
      /\ Sleep(1).op # "run" /\ Sleep(2).op # "run" /\ Expires(1).op # "run"
  <2>1. Sleep(1) \in Plain /\ Sleep(2) \in Plain /\ Expires(1) \in Plain
    BY PlainCalls
  <2>. QED
    BY <2>1 DEF Sleep, Expires
<1>4. \A o \in Bare : Call(o) \in Plain /\ Call(o).op = o
  BY PlainCalls DEF Call
<1>5. /\ AsyncWait(Handler("timer_handler", 0)) \in Plain
      /\ AsyncWait(Handler("timer_handler", 0)).op # "run"
  BY PlainCalls DEF Names, AsyncWait
<1>6. Spawn(1, PostsStop) \in Plain /\ Spawn(1, PostsStop).op # "run"
  <2>1. Post(Handler("stop", 0)) \in Basic /\ Sleep(2) \in Basic
    BY PlainCalls DEF Names
  <2>2. PostsStop \in Seq(Basic)
    BY <2>1 DEF PostsStop
  <2>. QED
    BY <2>2, PlainCalls DEF Spawn
<1>7. [op |-> "set", ec |-> h.ec] \in Plain /\ [op |-> "set", ec |-> h.ec].op # "run"
  BY DEF Plain, Basic, Handlers
<1>. SUFFICES Good(Body(h))
  OBVIOUS
<1>. HIDE DEF Good
<1>8. CASE h.name \in {"task", "print"}
  <2>1. Body(h) = << >>
    BY <1>8 DEF Body
  <2>. QED
    BY <1>1, <2>1
<1>9. CASE h.name = "slow"
  <2>1. Body(h) = <<Sleep(1)>>
    BY <1>9 DEF Body
  <2>. QED
    BY <1>2, <1>3, <2>1
<1>10. CASE h.name = "pool_task"
  <2>. DEFINE b == <<Call("lock"), Call("unlock"), Sleep(1), Call("lock"), Call("unlock")>>
  <2>1. Call("lock") \in Plain /\ Call("unlock") \in Plain
    BY <1>4 DEF Bare
  <2>2. b \in Seq(Plain) /\ Len(b) = 5 /\ \A k \in 1..5 : b[k].op # "run"
    BY <1>3, <2>1 DEF Call
  <2>3. Body(h) = b
    BY <1>10 DEF Body
  <2>. QED
    BY <2>2, <2>3 DEF Has, Good
<1>11. CASE h.name = "detach"
  <2>1. Body(h) = <<Spawn(1, PostsStop)>>
    BY <1>11 DEF Body
  <2>. QED
    BY <1>2, <1>6, <2>1
<1>12. CASE h.name = "detach_loop"
  <2>1. Body(h) = <<Spawn(1, PostsStop), Sleep(2)>>
    BY <1>12 DEF Body
  <2>. QED
    BY <1>18, <1>3, <1>6, <2>1
<1>13. CASE h.name = "stop"
  <2>1. Body(h) = <<Call("stop")>>
    BY <1>13 DEF Body
  <2>. QED
    BY <1>2, <1>4, <2>1 DEF Bare
<1>14. CASE h.name = "timer_handler"
  <2>1. Body(h) \in {<< >>, <<Expires(1), AsyncWait(Handler("timer_handler", 0))>>}
    BY <1>14 DEF Body, TimerHandler
  <2>. QED
    BY <1>1, <1>18, <1>3, <1>5, <2>1
<1>15. CASE h.name = "message"
  <2>1. Body(h) = <<Call("message")>>
    BY <1>15 DEF Body, Message
  <2>. QED
    BY <1>2, <1>4, <2>1 DEF Bare
<1>16. CASE h.name = "promise"
  <2>1. Body(h) = <<[op |-> "set", ec |-> h.ec]>>
    BY <1>16 DEF Body
  <2>. QED
    BY <1>2, <1>7, <2>1
<1>17. CASE h.name = "invoker"
  <2>1. Body(h) = <<Call("turn")>>
    BY <1>17 DEF Body
  <2>. QED
    BY <1>2, <1>4, <2>1 DEF Bare
<1>. QED
  BY <1>8, <1>9, <1>10, <1>11, <1>12, <1>13, <1>14, <1>15, <1>16, <1>17 DEF Handlers, Names

\* A post queues one handler more, and the work with it.
LEMMA PostsOne ==
  ASSUME NEW c \in Context, NEW h \in Handlers
  PROVE  /\ Queued(c, h) \in Context /\ Queued(c, h).work = c.work + 1
         /\ Len(Queued(c, h).ready) = Len(c.ready) + 1
         /\ Queued(c, h).guard = c.guard /\ Queued(c, h).stopped = c.stopped
<1>1. [h EXCEPT !.guarded = c.guard] \in Handlers
  BY DEF Handlers, Context
<1>. DEFINE g == [h EXCEPT !.guarded = c.guard]
<1>2. PICK r \in Seq(Handlers), w \in Int : c.ready = r /\ c.work = w
  BY DEF Context
<1>. HIDE DEF g
<1>3. Append(r, g) \in Seq(Handlers) /\ Len(Append(r, g)) = Len(r) + 1 /\ w + 1 \in Int
  BY <1>1 DEF g
<1>4. Queued(c, h) = [c EXCEPT !.ready = Append(r, g), !.work = w + 1]
  BY <1>2 DEF Queued, g
<1>. QED
  BY <1>2, <1>3, <1>4 DEF Context

\* The handler of a wait
LEMMA CompletesOne ==
  ASSUME NEW c \in Context, NEW h \in Handlers
  PROVE  /\ Completed(c, h) \in Context /\ Completed(c, h).work = c.work
         /\ Len(Completed(c, h).ready) = Len(c.ready) + 1
         /\ Completed(c, h).guard = c.guard /\ Completed(c, h).stopped = c.stopped
<1>1. PICK r \in Seq(Handlers) : c.ready = r
  BY DEF Context
<1>2. Append(r, h) \in Seq(Handlers) /\ Len(Append(r, h)) = Len(r) + 1
  OBVIOUS
<1>3. Completed(c, h) = [c EXCEPT !.ready = Append(r, h)]
  BY <1>1 DEF Completed
<1>. QED
  BY <1>1, <1>2, <1>3 DEF Context

\* The last work stops the io_context.
LEMMA FinishesOne ==
  ASSUME NEW c \in Context
  PROVE  /\ WorkFinished(c) \in Context /\ WorkFinished(c).work = c.work - 1
         /\ WorkFinished(c).ready = c.ready /\ WorkFinished(c).guard = c.guard
         /\ WorkFinished(c).stopped = "spent" => c.stopped = "spent" \/ c.work = 1
<1>1. PICK w \in Int : c.work = w
  BY DEF Context
<1>2. w - 1 \in Int
  OBVIOUS
<1>3. WorkFinished(c) = [c EXCEPT !.work = w - 1,
                                  !.stopped = IF w = 1 /\ c.stopped = "no" THEN "spent" ELSE c.stopped]
  BY <1>1 DEF WorkFinished
<1>. QED
  BY <1>1, <1>2, <1>3 DEF Context

(* What a step makes of the calls of its thread.                           *)

\* The calls of a thread as they may stand.
ListOK(s) == s \in Seq(Calls) /\ LeaveOK(s) /\ GuardOK(s)

\* No call of these is added.
NoMore(u, s) == \A o \in Special \ {"leave"} : Has(u, o) => Has(s, o)

\* A call is made, and those in m come in its place.
LEMMA Proceeds ==
  ASSUME NEW s, ListOK(s), s # << >>, NEW m \in Seq(Plain), ~Has(m, "run")
  PROVE  /\ ListOK(m \o Tail(s)) /\ NoMore(m \o Tail(s), s)
         /\ Has(m \o Tail(s), "leave") => Has(s, "leave")
         /\ Head(s).op \in {"leave", "make_work_guard", "reset"} => ~Has(m \o Tail(s), Head(s).op)
<1>. DEFINE r == Tail(s)
<1>1. /\ r \in Seq(Calls) /\ LeaveOK(r) /\ GuardOK(r) /\ ~Has(r, "make_work_guard")
      /\ \A o : Has(r, o) => Has(s, o)
      /\ Head(s).op = "leave" => ~Has(r, "leave")
      /\ Head(s).op = "reset" => ~Has(r, "reset")
  BY TailCalls DEF ListOK
<1>. HIDE DEF r
<1>2. /\ ListOK(m \o r) /\ \A o \in Special : Has(m \o r, o) <=> Has(r, o)
  BY <1>1, MoreCalls DEF ListOK
<1>. QED
  BY <1>1, <1>2 DEF NoMore, Special, r

\* A handler on a strand is called from the calls of its thread.
LEMMA Interrupts ==
  ASSUME NEW s, ListOK(s), s # << >>, Head(s).op # "make_work_guard",
         NEW m \in Seq(Plain), ~Has(m, "run")
  PROVE  /\ ListOK(m \o s) /\ NoMore(m \o s, s)
         /\ Has(m \o s, "leave") => Has(s, "leave")
<1>1. ~Has(s, "make_work_guard")
  BY TailCalls DEF ListOK
<1>2. /\ ListOK(m \o s) /\ \A o \in Special : Has(m \o s, o) <=> Has(s, o)
  BY <1>1, MoreCalls DEF ListOK
<1>. QED
  BY <1>2 DEF NoMore, Special

\* run() calls a handler.
LEMMA Calling ==
  ASSUME NEW s, ListOK(s), s # << >>, Head(s).op = "run",
         NEW m \in Seq(Plain), ~Has(m, "run")
  PROVE  /\ ListOK((m \o <<Leave>>) \o s) /\ NoMore((m \o <<Leave>>) \o s, s)
         /\ ~Has(s, "leave")
<1>1. ~Has(s, "make_work_guard") /\ ~Has(s, "leave") /\ s \in Seq(Calls)
  BY TailCalls DEF ListOK
<1>. DEFINE r == <<Leave>> \o s
<1>2. /\ r \in Seq(Calls) /\ LeaveOK(r) /\ GuardOK(r)
      /\ \A o \in Special \ {"leave"} : Has(r, o) <=> Has(s, o)
  BY <1>1, EndOfHandler DEF ListOK
<1>3. (m \o <<Leave>>) \o s = m \o r
  <2>1. <<Leave>> \in Seq(Calls) /\ m \in Seq(Calls)
    BY DEF Calls, Leave, Call, Special
  <2>. QED
    BY <1>1, <2>1, ConcatAssociative
<1>. HIDE DEF r
<1>4. ListOK(m \o r) /\ \A o \in Special : Has(m \o r, o) <=> Has(r, o)
  BY <1>1, <1>2, MoreCalls DEF ListOK, Special
<1>. QED
  BY <1>1, <1>2, <1>3, <1>4 DEF NoMore

\* Only the main thread holds the guard.
ListsInv ==
    \A t \in Thread :
        /\ ListOK(todo[t])
        /\ t # Main => ~Has(todo[t], "make_work_guard") /\ ~Has(todo[t], "reset")

\* The threads that have called a handler and not returned from it
Leavers == {t \in Thread : Has(todo[t], "leave")}

\* A step of a thread that changes its own calls only
LEMMA OneList ==
  ASSUME TypeInv, ListsInv, NEW t \in Thread, NEW u, ListOK(u), NoMore(u, todo[t]),
         todo' = [todo EXCEPT ![t] = u]
  PROVE  /\ todo' \in [Thread -> Seq(Calls)] /\ ListsInv' /\ todo'[t] = u
         /\ \A v \in Thread : NoMore(todo'[v], todo[v])
         /\ \A v \in Thread : v # t => todo'[v] = todo[v]
         /\ Leavers' \subseteq Leavers \cup {t}
         /\ (Has(u, "leave") => Has(todo[t], "leave")) => Leavers' \subseteq Leavers
         /\ ~Has(u, "leave") => Leavers' \subseteq Leavers \ {t}
<1>1. /\ todo'[t] = u /\ \A v \in Thread : v # t => todo'[v] = todo[v]
      /\ todo' \in [Thread -> Seq(Calls)]
  BY DEF TypeInv, ListOK
<1>2. \A v \in Thread : NoMore(todo'[v], todo[v])
  BY <1>1 DEF NoMore
<1>3. ListsInv'
  BY <1>1, <1>2 DEF ListsInv, NoMore, Special
<1>. QED
  BY <1>1, <1>2, <1>3 DEF Leavers

\* The thread that is started has calls of its own.
LEMMA StartsThread ==
  ASSUME TypeInv, ListsInv, NEW t \in Thread, SpawnThread(t)
  PROVE  /\ todo' \in [Thread -> Seq(Calls)] /\ ListsInv'
         /\ \A v \in Thread : NoMore(todo'[v], todo[v])
         /\ Leavers' \subseteq Leavers
<1>. DEFINE s == todo[t]
            c == Head(s)
<1>1. s # << >> /\ c.op = "spawn" /\ ListOK(s)
  BY DEF SpawnThread, At, ListsInv
<1>2. c \in Calls
  BY <1>1, TailCalls DEF ListOK
<1>3. c.body \in Seq(Basic)
  BY <1>1, <1>2 DEF Calls, Plain, Basic, Bare, Special
<1>. DEFINE b == c.body
            r == Tail(s)
<1>4. /\ ListOK(r) /\ NoMore(r, s)
      /\ \A o : Has(r, o) => Has(s, o)
  BY <1>1, TailCalls DEF ListOK, NoMore
<1>5. b \in Seq(Calls) /\ \A o \in Special : ~Has(b, o)
  <2>1. \A x \in Basic : x \in Calls /\ x.op \notin Special
    BY DEF Basic, Bare, Special, Calls, Plain
  <2>. QED
    BY <1>3, <2>1, ElementOfSeq DEF Has
<1>6. ListOK(b)
  BY <1>5 DEF ListOK, LeaveOK, GuardOK, Has, Special
<1>7. todo' = [todo EXCEPT ![t] = r, ![c.thread] = b]
  BY DEF SpawnThread, Arg
<1>. HIDE DEF b, r, c
<1>8. \A v \in Thread : todo'[v] \in {todo[v], r, b} /\ (todo'[v] = r => v = t \/ r = b \/ r = todo[v])
  BY <1>7 DEF TypeInv
<1>9. \A v \in Thread : /\ ListOK(todo'[v])
                        /\ \A o \in Special : Has(todo'[v], o) => Has(todo[v], o)
  BY <1>4, <1>5, <1>6, <1>8 DEF ListsInv
<1>10. todo' \in [Thread -> Seq(Calls)]
  BY <1>4, <1>5, <1>7 DEF TypeInv, ListOK
<1>. QED
  BY <1>9, <1>10 DEF ListsInv, NoMore, Leavers, Special

(* The outstanding work.                                                   *)

\* How many threads are in handlers
LEMMA Counting ==
  ASSUME NEW L \in SUBSET Thread, NEW K \in SUBSET Thread, NEW t \in Thread
  PROVE  /\ Cardinality(L) \in Nat
         /\ K \subseteq L => Cardinality(K) <= Cardinality(L)
         /\ t \notin L /\ K \subseteq L \cup {t} => Cardinality(K) <= Cardinality(L) + 1
         /\ t \in L /\ K \subseteq L \ {t} => Cardinality(K) <= Cardinality(L) - 1
         /\ t \in L => Cardinality(L) >= 1
<1>1. IsFiniteSet(Thread)
  <2>1. \A a, b \in Int : IsFiniteSet(a..b)
    BY FS_Interval
  <2>2. 0 \in Int /\ 4 \in Int /\ Runners \in Int /\ PoolSize \in Int
    BY SizeAssumption
  <2>3. IsFiniteSet(0..4) /\ IsFiniteSet(0..Runners) /\ IsFiniteSet(0..PoolSize)
    BY <2>1, <2>2
  <2>4. IsFiniteSet(((0..4) \cup (0..Runners)) \cup (0..PoolSize))
    BY <2>3, FS_Union
  <2>. QED
    BY <2>4 DEF Thread
<1>2. IsFiniteSet(L) /\ IsFiniteSet(K)
  BY <1>1, FS_Subset
<1>3. Cardinality(L) \in Nat /\ Cardinality(K) \in Nat
  BY <1>2, FS_CardinalityType
<1>4. K \subseteq L => Cardinality(K) <= Cardinality(L)
  BY <1>2, FS_Subset
<1>5. t \notin L /\ K \subseteq L \cup {t} => Cardinality(K) <= Cardinality(L) + 1
  <2>1. IsFiniteSet(L \cup {t}) /\ (t \notin L => Cardinality(L \cup {t}) = Cardinality(L) + 1)
    BY <1>2, FS_AddElement
  <2>2. K \subseteq L \cup {t} => Cardinality(K) <= Cardinality(L \cup {t})
    BY <2>1, FS_Subset
  <2>. QED
    BY <2>1, <2>2
<1>6. t \in L /\ K \subseteq L \ {t} => Cardinality(K) <= Cardinality(L) - 1
  <2>1. IsFiniteSet(L \ {t}) /\ (t \in L => Cardinality(L \ {t}) = Cardinality(L) - 1)
    BY <1>2, FS_RemoveElement
  <2>2. K \subseteq L \ {t} => Cardinality(K) <= Cardinality(L \ {t})
    BY <2>1, FS_Subset
  <2>. QED
    BY <2>1, <2>2
<1>7. t \in L => Cardinality(L) >= 1
  <2>1. Cardinality(L) = 0 <=> L = {}
    BY <1>2, FS_EmptySet
  <2>. QED
    BY <1>3, <2>1
<1>. QED
  BY <1>3, <1>4, <1>5, <1>6, <1>7

\* Handlers that wait, in the queue or for the timer, and the guard are work.
Owed(c, tm) ==
    (IF c.guard THEN 1 ELSE 0) + (IF tm.waiting THEN 1 ELSE 0) + Len(c.ready)

WorkInv == ctx.work >= Owed(ctx, timer) + Cardinality(Leavers)

\* Nothing has happened before the guard is made.
Fresh ==
    /\ ctx = [ready |-> << >>, work |-> 0, guard |-> FALSE, stopped |-> "no"]
    /\ ~timer.waiting
    /\ \A t \in Thread : t # Main => todo[t] = << >>

GuardInv ==
    /\ Has(todo[Main], "make_work_guard") => Fresh
    /\ Has(todo[Main], "reset") => ctx.guard \/ Has(todo[Main], "make_work_guard")
    /\ GuardHolds

\* The timer is cancelled by one program only.
NoCancel == prog # "Future_Exception_Handling" => \A t \in Thread : ~Has(todo[t], "cancel")

GInv == TypeInv /\ ListsInv /\ WorkInv /\ GuardInv /\ NoCancel

\* A guard that is to be made is made first.
LEMMA GuardFirst ==
  ASSUME GInv, NEW t \in Thread, todo[t] # << >>, Head(todo[t]).op # "make_work_guard"
  PROVE  ~Has(todo[Main], "make_work_guard")
<1>1. SUFFICES ASSUME Has(todo[Main], "make_work_guard") PROVE FALSE
  OBVIOUS
<1>2. t = Main
  BY <1>1 DEF GInv, GuardInv, Fresh
<1>. QED
  BY <1>1, <1>2, TailCalls DEF GInv, ListsInv, ListOK, Main, Thread

\* What a step does to the calls, in general
ListsStep(t) ==
    /\ todo' \in [Thread -> Seq(Calls)] /\ ListsInv'
    /\ \A v \in Thread : NoMore(todo'[v], todo[v])

\* No step adds a cancel().
LEMMA NeverCancels ==
  ASSUME NoCancel, NEW t \in Thread, ListsStep(t), prog' = prog
  PROVE  NoCancel'
BY DEF NoCancel, ListsStep, NoMore, Special

\* What remains to be shown of a step that leaves the guard alone
LEMMA GuardKept ==
  ASSUME GInv, NEW t \in Thread, todo[t] # << >>, Head(todo[t]).op # "make_work_guard",
         ListsStep(t), prog' = prog, now' = now,
         ctx' \in Context, timer' \in Timer, strand' \in Strand,
         ctx'.guard = ctx.guard, WorkInv', GuardHolds'
  PROVE  GInv'
<1>1. TypeInv'
  BY DEF GInv, TypeInv, ListsStep
<1>2. ~Has(todo[Main], "make_work_guard") /\ ~Has(todo'[Main], "make_work_guard")
  <2>1. ~Has(todo[Main], "make_work_guard")
    BY GuardFirst
  <2>2. NoMore(todo'[Main], todo[Main])
    BY DEF ListsStep, Main, Thread
  <2>. QED
    BY <2>1, <2>2 DEF NoMore, Special
<1>3. Has(todo'[Main], "reset") => ctx'.guard
  <2>1. NoMore(todo'[Main], todo[Main])
    BY DEF ListsStep, Main, Thread
  <2>2. Has(todo'[Main], "reset") => Has(todo[Main], "reset")
    BY <2>1 DEF NoMore, Special
  <2>. QED
    BY <1>2, <2>2 DEF GInv, GuardInv
<1>4. NoCancel'
  BY NeverCancels DEF GInv
<1>. QED
  BY <1>1, <1>2, <1>3, <1>4 DEF GInv, GuardInv, ListsStep

\* The threads in handlers, before and after a step
LEMMA LeaverCount ==
  ASSUME NEW t \in Thread
  PROVE  /\ Cardinality(Leavers) \in Nat /\ Cardinality(Leavers') \in Nat
         /\ Leavers' \subseteq Leavers => Cardinality(Leavers') <= Cardinality(Leavers)
         /\ t \notin Leavers /\ Leavers' \subseteq Leavers \cup {t}
               => Cardinality(Leavers') <= Cardinality(Leavers) + 1
         /\ t \in Leavers /\ Leavers' \subseteq Leavers \ {t}
               => Cardinality(Leavers') <= Cardinality(Leavers) - 1
         /\ t \in Leavers => Cardinality(Leavers) >= 1
<1>1. Leavers \in SUBSET Thread /\ Leavers' \in SUBSET Thread
  BY DEF Leavers
<1>. QED
  BY <1>1, Counting

\* While the guard is held there is work, and more in a handler.
LEMMA GuardIsWork ==
  ASSUME GInv, ctx.guard
  PROVE  ctx.work >= 1 + Cardinality(Leavers)
<1>1. Cardinality(Leavers) \in Nat
  BY LeaverCount DEF Thread
<1>2. Owed(ctx, timer) >= 1 /\ Owed(ctx, timer) \in Int /\ ctx.work \in Int
  BY DEF Owed, GInv, TypeInv, Context, Timer
<1>. QED
  BY <1>1, <1>2 DEF GInv, WorkInv

\* A step that adds as much work as it owes
LEMMA Balanced ==
  ASSUME GInv, NEW t \in Thread, todo[t] # << >>, Head(todo[t]).op # "make_work_guard",
         ListsStep(t), prog' = prog, now' = now,
         ctx' \in Context, timer' \in Timer, strand' \in Strand,
         ctx'.guard = ctx.guard, ctx'.stopped = "spent" => ctx.stopped = "spent" \/ ctx.work = 0,
         NEW d \in Int, ctx'.work = ctx.work + d, Owed(ctx', timer') <= Owed(ctx, timer) + d,
         Leavers' \subseteq Leavers
  PROVE  GInv'
<1>1. /\ Cardinality(Leavers) \in Nat /\ Cardinality(Leavers') <= Cardinality(Leavers)
      /\ Cardinality(Leavers') \in Nat
  BY LeaverCount
<1>2. ctx.work \in Int /\ Owed(ctx, timer) \in Int /\ Owed(ctx', timer') \in Int
  BY DEF GInv, TypeInv, Context, Owed
<1>3. WorkInv'
  BY <1>1, <1>2 DEF GInv, WorkInv
<1>4. GuardHolds'
  <2>1. ctx.guard => ctx.work # 0
    BY <1>1, <1>2, GuardIsWork
  <2>. QED
    BY <2>1 DEF GInv, GuardInv, GuardHolds
<1>. QED
  BY <1>3, <1>4, GuardKept

\* A call is made and m comes in its place.
LEMMA ThenStep ==
  ASSUME GInv, NEW t \in Thread, todo[t] # << >>, NEW m \in Seq(Plain), ~Has(m, "run"),
         Then(t, m)
  PROVE  /\ ListsStep(t) /\ Leavers' \subseteq Leavers
         /\ Head(todo[t]).op = "leave" => t \in Leavers /\ Leavers' \subseteq Leavers \ {t}
         /\ Head(todo[t]).op \in {"make_work_guard", "reset"} => ~Has(todo'[t], Head(todo[t]).op)
<1>. DEFINE s == todo[t]
            u == m \o Tail(s)
<1>1. ListOK(s) /\ TypeInv /\ ListsInv
  BY DEF GInv, ListsInv
<1>2. /\ ListOK(u) /\ NoMore(u, s)
      /\ Has(u, "leave") => Has(s, "leave")
      /\ Head(s).op \in {"leave", "make_work_guard", "reset"} => ~Has(u, Head(s).op)
  BY <1>1, Proceeds
<1>3. todo' = [todo EXCEPT ![t] = u]
  BY DEF Then
<1>4. Head(s).op = "leave" => t \in Leavers
  BY <1>1, TailCalls DEF Leavers, ListOK
<1>. HIDE DEF u
<1>. QED
  <2>1. todo[t] = s
    OBVIOUS
  <2>. HIDE DEF s
  <2>2. /\ todo' \in [Thread -> Seq(Calls)] /\ ListsInv' /\ todo'[t] = u
        /\ \A v \in Thread : NoMore(todo'[v], todo[v])
        /\ (Has(u, "leave") => Has(s, "leave")) => Leavers' \subseteq Leavers
        /\ ~Has(u, "leave") => Leavers' \subseteq Leavers \ {t}
    BY <1>1, <1>2, <1>3, <2>1, OneList
  <2>. QED
    BY <1>2, <1>4, <2>1, <2>2 DEF ListsStep

\* A call that has only itself to remove
LEMMA NextCall ==
  ASSUME GInv, NEW t \in Thread, todo[t] # << >>, Then(t, << >>)
  PROVE  /\ ListsStep(t) /\ Leavers' \subseteq Leavers
         /\ Head(todo[t]).op = "leave" => t \in Leavers /\ Leavers' \subseteq Leavers \ {t}
         /\ Head(todo[t]).op \in {"make_work_guard", "reset"} => ~Has(todo'[t], Head(todo[t]).op)
<1>1. << >> \in Seq(Plain) /\ ~Has(<< >>, "run")
  BY DEF Has
<1>. QED
  BY <1>1, ThenStep, Zenon

\* The calls of a thread are calls.
LEMMA TheCall ==
  ASSUME GInv, NEW t \in Thread, NEW o, At(t, o)
  PROVE  todo[t] # << >> /\ Arg(t) \in Calls /\ Arg(t).op = o /\ Head(todo[t]).op = o
BY TailCalls DEF GInv, ListsInv, ListOK, At, Arg

\* The calls that leave the io_context alone
Quiet(t) ==
    SpawnThread(t) \/ JoinThread(t) \/ FallAsleep(t) \/ WakeUp(t) \/ LockMutex(t)
    \/ Settle(t) \/ LeaveStrand(t) \/ SetExpiry(t)

\* They keep the invariant.
LEMMA QuietStep ==
  ASSUME GInv, NEW t \in Thread, Quiet(t), prog' = prog, now' = now
  PROVE  GInv'
<1>1. /\ todo[t] # << >> /\ Head(todo[t]).op \notin Special
      /\ ListsStep(t) /\ Leavers' \subseteq Leavers
  <2>1. CASE SpawnThread(t)
    <3>1. ListsStep(t) /\ Leavers' \subseteq Leavers
      BY <2>1, StartsThread DEF GInv, ListsStep
    <3>2. At(t, "spawn")
      BY <2>1 DEF SpawnThread
    <3>. QED
      BY <3>1, <3>2 DEF At, Special
  <2>2. CASE FallAsleep(t)
    <3>1. todo[t] # << >> /\ Arg(t) \in Calls /\ Head(todo[t]).op = "sleep" /\ Arg(t).op = "sleep"
      BY <2>2, TheCall DEF FallAsleep
    <3>2. Arg(t).for \in Int
      BY <3>1 DEF Calls, Plain, Basic, Bare, Special
    <3>3. Asleep(t) \in Plain /\ Asleep(t).op # "run"
      BY <3>2 DEF Asleep, Plain, Basic, GInv, TypeInv
    <3>4. <<Asleep(t)>> \in Seq(Plain) /\ ~Has(<<Asleep(t)>>, "run")
      <4>1. \A c \in Plain : c.op # "run" => <<c>> \in Seq(Plain) /\ ~Has(<<c>>, "run")
        BY DEF Has
      <4>. QED
        BY <3>3, <4>1
    <3>5. Then(t, <<Asleep(t)>>)
      BY <2>2 DEF FallAsleep
    <3>. QED
      BY <3>1, <3>4, <3>5, ThenStep DEF Special
  <2>3. CASE JoinThread(t) \/ WakeUp(t) \/ LockMutex(t) \/ Settle(t) \/ LeaveStrand(t) \/ SetExpiry(t)
    <3>1. \E o \in {"join", "asleep", "wait", "lock", "unlock", "set", "get", "leave_strand", "expires"} : At(t, o)
      BY <2>3 DEF JoinThread, WakeUp, LockMutex, Settle, LeaveStrand, SetExpiry
    <3>2. todo[t] # << >> /\ Head(todo[t]).op \notin Special
      BY <3>1 DEF At, Special
    <3>3. Then(t, << >>)
      BY <2>3 DEF JoinThread, WakeUp, LockMutex, Settle, LeaveStrand, SetExpiry
    <3>. QED
      BY <3>2, <3>3, NextCall
  <2>. QED
    BY <2>1, <2>2, <2>3 DEF Quiet
<1>2. ctx' = ctx /\ strand' = strand
  BY DEF Quiet, SpawnThread, JoinThread, FallAsleep, WakeUp, LockMutex, Settle, LeaveStrand, SetExpiry
<1>3. timer' \in Timer /\ timer'.waiting = timer.waiting
  <2>1. CASE SetExpiry(t)
    <3>1. Arg(t) \in Calls /\ Arg(t).op = "expires"
      BY <2>1, TheCall DEF SetExpiry
    <3>2. PICK a \in Int : a = Arg(t).after
      BY <3>1 DEF Calls, Plain, Basic, Bare, Special
    <3>3. now + a \in Int
      BY DEF GInv, TypeInv
    <3>4. timer' = [timer EXCEPT !.at = now + a]
      BY <2>1, <3>2 DEF SetExpiry
    <3>. QED
      BY <3>3, <3>4 DEF GInv, TypeInv, Timer
  <2>2. CASE ~SetExpiry(t)
    <3>1. timer' = timer
      BY <2>2 DEF Quiet, SpawnThread, JoinThread, FallAsleep, WakeUp, LockMutex, Settle, LeaveStrand
    <3>. QED
      BY <3>1 DEF GInv, TypeInv, Timer
  <2>. QED
    BY <2>1, <2>2
<1>4. Owed(ctx', timer') = Owed(ctx, timer) /\ Owed(ctx, timer) \in Int
  BY <1>2, <1>3 DEF Owed, GInv, TypeInv, Context
<1>5. PICK d \in Int : d = 0
  OBVIOUS
<1>6. ctx'.work = ctx.work + d /\ Owed(ctx', timer') <= Owed(ctx, timer) + d
  BY <1>2, <1>4, <1>5 DEF GInv, TypeInv, Context
<1>7. ctx' \in Context /\ strand' \in Strand /\ ctx'.guard = ctx.guard
      /\ (ctx'.stopped = "spent" => ctx.stopped = "spent")
  BY <1>2 DEF GInv, TypeInv
<1>. QED
  BY <1>1, <1>3, <1>6, <1>7, Balanced DEF Special

(* The steps that change the io_context.                                   *)

\* What a call that adds n to the work must show
LEMMA CallStep ==
  ASSUME GInv, NEW t \in Thread, NEW o, o # "make_work_guard", At(t, o), Then(t, << >>),
         prog' = prog, now' = now,
         ctx' \in Context, timer' \in Timer, strand' \in Strand,
         ctx'.guard = ctx.guard, ctx'.stopped = "spent" => ctx.stopped = "spent" \/ ctx.work = 0,
         NEW d \in Int, ctx'.work = ctx.work + d, Owed(ctx', timer') <= Owed(ctx, timer) + d
  PROVE  GInv'
<1>1. todo[t] # << >> /\ Head(todo[t]).op # "make_work_guard"
  BY TheCall
<1>2. ListsStep(t) /\ Leavers' \subseteq Leavers
  BY <1>1, NextCall
<1>. QED
  BY <1>1, <1>2, Balanced

\* make_work_guard
LEMMA MakeGuardStep ==
  ASSUME GInv, NEW t \in Thread, MakeGuard(t), prog' = prog, now' = now
  PROVE  GInv'
<1>1. todo[t] # << >> /\ Head(todo[t]).op = "make_work_guard" /\ Then(t, << >>)
  BY TheCall DEF MakeGuard
<1>2. ListsStep(t) /\ Leavers' \subseteq Leavers /\ ~Has(todo'[t], "make_work_guard")
  BY <1>1, NextCall
<1>3. t = Main /\ Has(todo[Main], "make_work_guard")
  BY <1>1, TailCalls DEF GInv, ListsInv, ListOK
<1>4. ctx = [ready |-> << >>, work |-> 0, guard |-> FALSE, stopped |-> "no"] /\ ~timer.waiting
  BY <1>3 DEF GInv, GuardInv, Fresh
<1>5. /\ ctx' \in Context /\ ctx'.ready = << >> /\ ctx'.work = 1 /\ ctx'.guard = TRUE
      /\ ctx'.stopped = "no"
  <2>1. ctx \in Context /\ ctx.ready = << >> /\ ctx.work = 0 /\ ctx.stopped = "no"
    BY <1>4 DEF GInv, TypeInv
  <2>2. ctx.work + 1 = 1
    BY <2>1
  <2>3. ctx' = [ctx EXCEPT !.guard = TRUE, !.work = 1]
    BY <2>2 DEF MakeGuard
  <2>4. PICK o \in Int : o = 1
    OBVIOUS
  <2>5. ctx' = [ctx EXCEPT !.guard = TRUE, !.work = o]
    BY <2>3, <2>4
  <2>6. ctx' \in Context
    BY <2>1, <2>5 DEF Context
  <2>7. ctx'.ready = ctx.ready /\ ctx'.work = o /\ ctx'.guard = TRUE /\ ctx'.stopped = ctx.stopped
    BY <2>1, <2>5 DEF Context
  <2>. QED
    BY <2>1, <2>4, <2>6, <2>7
<1>6. TypeInv'
  BY <1>2, <1>5 DEF GInv, TypeInv, MakeGuard, ListsStep
<1>7. Leavers = {}
  <2>1. \A v \in Thread : v # Main => todo[v] = << >>
    BY <1>3 DEF GInv, GuardInv, Fresh
  <2>2. \A v \in Thread : v # Main => ~Has(todo[v], "leave")
    BY <2>1 DEF Has
  <2>3. ~Has(todo[Main], "leave")
    <3>1. Cardinality(Leavers) \in Nat /\ (Main \in Leavers => Cardinality(Leavers) >= 1)
      BY LeaverCount, <1>3
    <3>2. Owed(ctx, timer) = 0 /\ ctx.work = 0
      BY <1>4 DEF Owed
    <3>. QED
      BY <1>3, <3>1, <3>2 DEF GInv, WorkInv, Leavers
  <2>. QED
    BY <2>2, <2>3 DEF Leavers
<1>8. WorkInv'
  <2>1. Cardinality(Leavers') = 0
    BY <1>2, <1>7, FS_EmptySet
  <2>2. Owed(ctx', timer') = 1 /\ ctx'.work = 1
    BY <1>4, <1>5 DEF Owed, MakeGuard
  <2>. QED
    BY <2>1, <2>2 DEF WorkInv
<1>9. NoCancel'
  BY <1>2, NeverCancels DEF GInv
<1>. QED
  BY <1>2, <1>3, <1>5, <1>6, <1>8, <1>9 DEF GInv, GuardInv, GuardHolds, ListsStep

\* The guard is reset, by the thread that holds it.
LEMMA GuardResetStep ==
  ASSUME GInv, NEW t \in Thread, GuardReset(t), prog' = prog, now' = now
  PROVE  GInv'
<1>1. todo[t] # << >> /\ Head(todo[t]).op = "reset" /\ Then(t, << >>)
  BY TheCall DEF GuardReset
<1>2. ListsStep(t) /\ Leavers' \subseteq Leavers /\ ~Has(todo'[t], "reset")
  BY <1>1, NextCall
<1>3. t = Main /\ Has(todo[Main], "reset")
  BY <1>1, TailCalls DEF GInv, ListsInv, ListOK
<1>4. ~Has(todo[Main], "make_work_guard") /\ ~Has(todo'[Main], "make_work_guard")
  <2>1. Head(todo[t]).op # "make_work_guard"
    BY <1>1
  <2>2. ~Has(todo[Main], "make_work_guard")
    BY <1>1, <2>1, GuardFirst
  <2>3. NoMore(todo'[Main], todo[Main])
    BY <1>2 DEF ListsStep, Main, Thread
  <2>. QED
    BY <2>2, <2>3 DEF NoMore, Special
<1>5. ctx.guard = TRUE
  BY <1>3, <1>4 DEF GInv, GuardInv, TypeInv, Context
<1>. DEFINE c == [ctx EXCEPT !.guard = FALSE]
<1>6. c \in Context /\ c.work = ctx.work /\ c.ready = ctx.ready /\ c.guard = FALSE
  BY DEF GInv, TypeInv, Context
<1>7. ctx' = WorkFinished(c)
  BY DEF GuardReset
<1>. HIDE DEF c
<1>8. ctx' \in Context /\ ctx'.work = ctx.work - 1 /\ ctx'.ready = ctx.ready /\ ctx'.guard = FALSE
  BY <1>6, <1>7, FinishesOne
<1>9. TypeInv'
  BY <1>2, <1>8 DEF GInv, TypeInv, GuardReset, ListsStep
<1>10. WorkInv'
  <2>1. Owed(ctx', timer') = Owed(ctx, timer) - 1 /\ Owed(ctx, timer) \in Int /\ ctx.work \in Int
    <3>1. timer' = timer /\ timer.waiting \in BOOLEAN /\ Len(ctx.ready) \in Nat /\ ctx.work \in Int
      BY DEF GuardReset, GInv, TypeInv, Context, Timer
    <3>. DEFINE w == IF timer.waiting THEN 1 ELSE 0
    <3>2. PICK l \in Nat : l = Len(ctx.ready)
      BY <3>1
    <3>3. w \in Int
      OBVIOUS
    <3>4. Owed(ctx, timer) = 1 + w + l
      BY <1>5, <3>2 DEF Owed
    <3>5. Owed(ctx', timer') = 0 + w + l
      BY <1>8, <3>1, <3>2 DEF Owed
    <3>. QED
      BY <3>1, <3>3, <3>4, <3>5
  <2>2. /\ Cardinality(Leavers) \in Nat /\ Cardinality(Leavers') \in Nat
        /\ Cardinality(Leavers') <= Cardinality(Leavers)
    BY <1>2, LeaverCount
  <2>. QED
    BY <1>8, <2>1, <2>2 DEF GInv, WorkInv
<1>11. NoCancel'
  BY <1>2, NeverCancels DEF GInv
<1>. QED
  BY <1>2, <1>3, <1>4, <1>8, <1>9, <1>10, <1>11 DEF GInv, GuardInv, GuardHolds, ListsStep

\* A handler that has ended
LEMMA LeaveStep ==
  ASSUME GInv, NEW t \in Thread, LeaveHandler(t), prog' = prog, now' = now
  PROVE  GInv'
<1>1. todo[t] # << >> /\ Head(todo[t]).op = "leave" /\ Then(t, << >>)
  BY TheCall DEF LeaveHandler
<1>2. ListsStep(t) /\ t \in Leavers /\ Leavers' \subseteq Leavers \ {t}
  BY <1>1, NextCall
<1>3. /\ ctx' \in Context /\ ctx'.work = ctx.work - 1
      /\ ctx'.ready = ctx.ready /\ ctx'.guard = ctx.guard
      /\ ctx'.stopped = "spent" => ctx.stopped = "spent" \/ ctx.work = 1
  BY FinishesOne DEF LeaveHandler, GInv, TypeInv
<1>4. timer' = timer /\ strand' = strand
  BY DEF LeaveHandler
<1>5. /\ Cardinality(Leavers) \in Nat /\ Cardinality(Leavers') \in Nat
      /\ Cardinality(Leavers') <= Cardinality(Leavers) - 1 /\ Cardinality(Leavers) >= 1
  BY <1>2, LeaverCount
<1>6. Owed(ctx', timer') = Owed(ctx, timer) /\ Owed(ctx, timer) \in Int /\ ctx.work \in Int
  BY <1>3, <1>4 DEF Owed, GInv, TypeInv, Context
<1>7. WorkInv'
  BY <1>3, <1>5, <1>6 DEF GInv, WorkInv
<1>8. GuardHolds'
  <2>1. ctx.guard => ctx.work # 1
    BY <1>5, <1>6, GuardIsWork
  <2>. QED
    BY <1>3, <2>1 DEF GInv, GuardInv, GuardHolds
<1>. QED
  BY <1>1, <1>2, <1>3, <1>4, <1>7, <1>8, GuardKept DEF GInv, TypeInv

\* run() calls the first handler of the queue.
LEMMA TakeStep ==
  ASSUME GInv, NEW t \in Thread, TakeHandler(t), prog' = prog, now' = now
  PROVE  GInv'
<1>. DEFINE h == Head(ctx.ready)
            u == (Body(h) \o <<Leave>>) \o todo[t]
<1>1. todo[t] # << >> /\ Head(todo[t]).op = "run" /\ ListOK(todo[t])
  BY TheCall DEF TakeHandler, GInv, ListsInv
<1>2. h \in Handlers /\ Tail(ctx.ready) \in Seq(Handlers) /\ Len(Tail(ctx.ready)) = Len(ctx.ready) - 1
      /\ Len(ctx.ready) \in Nat
  BY HeadTailProperties DEF TakeHandler, GInv, TypeInv, Context
<1>3. Body(h) \in Seq(Plain) /\ ~Has(Body(h), "run")
  BY <1>2, Bodies
<1>4. ListOK(u) /\ NoMore(u, todo[t]) /\ ~Has(todo[t], "leave")
  BY <1>1, <1>3, Calling
<1>5. todo' = [todo EXCEPT ![t] = u]
  BY DEF TakeHandler, First
<1>. HIDE DEF u
<1>6. ListsStep(t) /\ Leavers' \subseteq Leavers \cup {t} /\ t \notin Leavers
  BY <1>4, <1>5, OneList DEF ListsStep, GInv, Leavers
<1>7. ctx' = [ctx EXCEPT !.ready = Tail(@)] /\ timer' = timer /\ strand' = strand
  BY DEF TakeHandler
<1>8. /\ ctx' \in Context /\ ctx'.work = ctx.work /\ ctx'.guard = ctx.guard
      /\ ctx'.stopped = ctx.stopped /\ Len(ctx'.ready) = Len(ctx.ready) - 1
  BY <1>2, <1>7 DEF GInv, TypeInv, Context
<1>9. Owed(ctx', timer') = Owed(ctx, timer) - 1 /\ Owed(ctx, timer) \in Int /\ ctx.work \in Int
  BY <1>2, <1>7, <1>8 DEF Owed, GInv, TypeInv, Context
<1>10. /\ Cardinality(Leavers) \in Nat /\ Cardinality(Leavers') \in Nat
       /\ Cardinality(Leavers') <= Cardinality(Leavers) + 1
  BY <1>6, LeaverCount
<1>11. WorkInv' /\ GuardHolds'
  BY <1>8, <1>9, <1>10 DEF GInv, WorkInv, GuardInv, GuardHolds
<1>. QED
  BY <1>1, <1>6, <1>7, <1>8, <1>11, GuardKept DEF GInv, TypeInv

\* What a change of queue and timer owes
LEMMA Owing ==
  ASSUME NEW c \in Context, NEW e \in Context, NEW x \in Timer, NEW y \in Timer, e.guard = c.guard
  PROVE  /\ Owed(c, x) \in Int /\ Owed(e, y) \in Int
         /\ Len(e.ready) = Len(c.ready) + 1 /\ y.waiting = x.waiting => Owed(e, y) = Owed(c, x) + 1
         /\ e.ready = c.ready /\ y.waiting = x.waiting => Owed(e, y) = Owed(c, x)
         /\ e.ready = c.ready => Owed(e, y) <= Owed(c, x) + 1
         /\ e.ready = c.ready /\ ~y.waiting => Owed(e, y) <= Owed(c, x)
         /\ Len(e.ready) = Len(c.ready) + 1 /\ x.waiting /\ ~y.waiting => Owed(e, y) = Owed(c, x)
<1>. DEFINE g == IF c.guard THEN 1 ELSE 0
            v == IF x.waiting THEN 1 ELSE 0
            w == IF y.waiting THEN 1 ELSE 0
            l == Len(c.ready)
            m == Len(e.ready)
<1>1. Owed(c, x) = g + v + l /\ Owed(e, y) = g + w + m
  BY DEF Owed
<1>2. g \in {0, 1} /\ v \in {0, 1} /\ w \in {0, 1} /\ l \in Nat /\ m \in Nat
  BY DEF Context
<1>3. y.waiting = x.waiting => v = w
  OBVIOUS
<1>4. (~y.waiting => w = 0) /\ (x.waiting => v = 1) /\ (e.ready = c.ready => m = l)
  OBVIOUS
<1>. HIDE DEF g, v, w, l, m
<1>5. /\ Owed(c, x) \in Int /\ Owed(e, y) \in Int
      /\ m = l + 1 /\ v = w => Owed(e, y) = Owed(c, x) + 1
      /\ m = l /\ v = w => Owed(e, y) = Owed(c, x)
      /\ m = l => Owed(e, y) <= Owed(c, x) + 1
      /\ m = l /\ w = 0 => Owed(e, y) <= Owed(c, x)
      /\ m = l + 1 /\ v = 1 /\ w = 0 => Owed(e, y) = Owed(c, x)
  BY <1>1, <1>2
<1>. QED
  BY <1>3, <1>4, <1>5 DEF l, m

\* The handler that a call brings
LEMMA TheHandler ==
  ASSUME GInv, NEW t \in Thread, At(t, "post") \/ At(t, "strand") \/ At(t, "async_wait")
  PROVE  Arg(t).handler \in Handlers
<1>1. Arg(t) \in Calls /\ Arg(t).op \in {"post", "strand", "async_wait"}
  BY TheCall
<1>. QED
  BY <1>1 DEF Calls, Plain, Basic, Bare, Special

\* stop()
LEMMA StopStep ==
  ASSUME GInv, NEW t \in Thread, StopContext(t), prog' = prog, now' = now
  PROVE  GInv'
<1>1. At(t, "stop") /\ Then(t, << >>) /\ timer' = timer /\ strand' = strand
  BY DEF StopContext
<1>2. /\ ctx' \in Context /\ ctx'.work = ctx.work /\ ctx'.guard = ctx.guard /\ ctx'.ready = ctx.ready
      /\ ctx'.stopped = "spent" => ctx.stopped = "spent"
  BY DEF StopContext, GInv, TypeInv, Context
<1>3. Owed(ctx', timer') = Owed(ctx, timer) /\ Owed(ctx, timer) \in Int
  BY <1>1, <1>2, Owing DEF GInv, TypeInv
<1>4. PICK d \in Int : d = 0
  OBVIOUS
<1>5. ctx'.work = ctx.work + d /\ Owed(ctx', timer') <= Owed(ctx, timer) + d
  BY <1>2, <1>3, <1>4 DEF Context
<1>. QED
  BY <1>1, <1>2, <1>5, CallStep DEF GInv, TypeInv

\* A handler that is queued with its work
LEMMA QueuedStep ==
  ASSUME GInv, NEW t \in Thread, NEW o, o # "make_work_guard", At(t, o), Then(t, << >>),
         prog' = prog, now' = now, timer' = timer, strand' \in Strand,
         NEW h \in Handlers, ctx' = Queued(ctx, h)
  PROVE  GInv'
<1>1. /\ ctx' \in Context /\ ctx'.work = ctx.work + 1 /\ ctx'.guard = ctx.guard
      /\ ctx'.stopped = ctx.stopped /\ Len(ctx'.ready) = Len(ctx.ready) + 1
  BY PostsOne DEF GInv, TypeInv
<1>2. Owed(ctx', timer') = Owed(ctx, timer) + 1 /\ Owed(ctx, timer) \in Int
  BY <1>1, Owing DEF GInv, TypeInv
<1>3. PICK d \in Int : d = 1
  OBVIOUS
<1>4. ctx'.work = ctx.work + d /\ Owed(ctx', timer') <= Owed(ctx, timer) + d
  BY <1>1, <1>2, <1>3 DEF Context
<1>. QED
  BY <1>1, <1>4, CallStep DEF GInv, TypeInv

\* A call that leaves context and timer as they are
LEMMA IdleStep ==
  ASSUME GInv, NEW t \in Thread, NEW o, o # "make_work_guard", At(t, o), Then(t, << >>),
         prog' = prog, now' = now, timer' = timer, strand' \in Strand, ctx' = ctx
  PROVE  GInv'
<1>1. PICK d \in Int : d = 0
  OBVIOUS
<1>2. Owed(ctx', timer') = Owed(ctx, timer) /\ Owed(ctx, timer) \in Int
  BY Owing DEF GInv, TypeInv
<1>3. ctx'.work = ctx.work + d /\ Owed(ctx', timer') <= Owed(ctx, timer) + d
  BY <1>1, <1>2 DEF GInv, TypeInv, Context
<1>. QED
  BY <1>3, CallStep DEF GInv, TypeInv

\* post()
LEMMA PostStep ==
  ASSUME GInv, NEW t \in Thread, PostHandler(t), prog' = prog, now' = now
  PROVE  GInv'
<1>1. At(t, "post") /\ Then(t, << >>) /\ timer' = timer /\ strand' = strand
      /\ ctx' = Queued(ctx, Arg(t).handler) /\ Arg(t).handler \in Handlers
  BY TheHandler DEF PostHandler
<1>. QED
  BY <1>1, QueuedStep DEF GInv, TypeInv

\* The name of the handler that takes a turn
LEMMA Invoker == Handler("invoker", 0) \in Handlers
BY PlainCalls DEF Names

\* post() to the strand
LEMMA StrandStep ==
  ASSUME GInv, NEW t \in Thread, PostToStrand(t), prog' = prog, now' = now
  PROVE  GInv'
<1>1. At(t, "strand") /\ Then(t, << >>) /\ timer' = timer /\ Arg(t).handler \in Handlers
      /\ (ctx' = ctx \/ ctx' = Queued(ctx, Handler("invoker", 0)))
  BY TheHandler DEF PostToStrand
<1>2. strand' \in Strand
  <2>. DEFINE h == Arg(t).handler
  <2>1. h \in Handlers /\ strand \in Strand
    BY <1>1 DEF GInv, TypeInv
  <2>2. \/ strand' = [strand EXCEPT !.next = Append(@, h)]
        \/ strand' = [strand EXCEPT !.locked = TRUE, !.turn = <<h>>]
    BY DEF PostToStrand
  <2>. HIDE DEF h
  <2>3. <<h>> \in Seq(Handlers) /\ Append(strand.next, h) \in Seq(Handlers)
    BY <2>1 DEF Strand
  <2>. QED
    BY <2>1, <2>2, <2>3 DEF Strand
<1>. QED
  BY <1>1, <1>2, IdleStep, QueuedStep, Invoker

\* A wait that begins, with its work
LEMMA WaitStep ==
  ASSUME GInv, NEW t \in Thread, NEW o, o # "make_work_guard", At(t, o), Then(t, << >>),
         prog' = prog, now' = now, strand' = strand, timer' \in Timer,
         ctx' = [ctx EXCEPT !.work = @ + 1]
  PROVE  GInv'
<1>1. PICK w \in Int : w = ctx.work
  BY DEF GInv, TypeInv, Context
<1>2. ctx' = [ctx EXCEPT !.work = w + 1] /\ w + 1 \in Int
  BY <1>1
<1>3. /\ ctx' \in Context /\ ctx'.work = w + 1 /\ ctx'.guard = ctx.guard
      /\ ctx'.stopped = ctx.stopped /\ ctx'.ready = ctx.ready
  BY <1>2 DEF GInv, TypeInv, Context
<1>4. Owed(ctx', timer') <= Owed(ctx, timer) + 1 /\ Owed(ctx, timer) \in Int
  BY <1>3, Owing DEF GInv, TypeInv
<1>5. PICK d \in Int : d = 1
  OBVIOUS
<1>6. ctx'.work = ctx.work + d /\ Owed(ctx', timer') <= Owed(ctx, timer) + d
  BY <1>1, <1>3, <1>4, <1>5
<1>. QED
  BY <1>3, <1>6, CallStep DEF GInv, TypeInv

\* async_wait
LEMMA StartWaitStep ==
  ASSUME GInv, NEW t \in Thread, StartWait(t), prog' = prog, now' = now
  PROVE  GInv'
<1>1. At(t, "async_wait") /\ Then(t, << >>) /\ strand' = strand /\ Arg(t).handler \in Handlers
      /\ ctx' = [ctx EXCEPT !.work = @ + 1] /\ timer' = Armed(timer, Arg(t).handler)
  BY TheHandler DEF StartWait
<1>2. timer' \in Timer
  BY <1>1 DEF Armed, GInv, TypeInv, Timer
<1>. QED
  BY <1>1, <1>2, WaitStep

\* The message that arms its timer again
LEMMA CountStep ==
  ASSUME GInv, NEW t \in Thread, CountMessage(t), prog' = prog, now' = now
  PROVE  GInv'
<1>1. At(t, "message") /\ Then(t, << >>) /\ strand' = strand
  BY DEF CountMessage
<1>2. CASE count < 5
  <2>1. timer' = [Armed(timer, Handler("message", 0)) EXCEPT !.at = @ + 1]
        /\ ctx' = [ctx EXCEPT !.work = @ + 1]
    BY <1>2 DEF CountMessage
  <2>2. timer' \in Timer
    <3>1. Handler("message", 0) \in Handlers
      BY PlainCalls DEF Names
    <3>2. Armed(timer, Handler("message", 0)) \in Timer
      BY <3>1 DEF Armed, GInv, TypeInv, Timer
    <3>. QED
      BY <2>1, <3>2 DEF Timer
  <2>. QED
    BY <1>1, <2>1, <2>2, WaitStep
<1>3. CASE ~(count < 5)
  <2>1. timer' = timer /\ ctx' = ctx
    BY <1>3 DEF CountMessage
  <2>. QED
    BY <1>1, <2>1, IdleStep DEF GInv, TypeInv
<1>. QED
  BY <1>2, <1>3

\* A wait that is over has a handler instead.
LEMMA Completing ==
  ASSUME GInv, NEW h \in Handlers, timer.waiting, ctx' = Completed(ctx, h), timer' \in Timer,
         ~timer'.waiting
  PROVE  /\ ctx' \in Context /\ ctx'.work = ctx.work /\ ctx'.guard = ctx.guard
         /\ ctx'.stopped = ctx.stopped /\ Owed(ctx', timer') = Owed(ctx, timer)
<1>1. /\ ctx' \in Context /\ ctx'.work = ctx.work /\ ctx'.guard = ctx.guard
      /\ ctx'.stopped = ctx.stopped /\ Len(ctx'.ready) = Len(ctx.ready) + 1
  BY CompletesOne DEF GInv, TypeInv
<1>. QED
  BY <1>1, Owing DEF GInv, TypeInv

\* cancel()
LEMMA CancelStep ==
  ASSUME GInv, NEW t \in Thread, CancelTimer(t), prog' = prog, now' = now
  PROVE  GInv'
<1>1. At(t, "cancel") /\ Then(t, << >>) /\ strand' = strand
  BY DEF CancelTimer
<1>2. timer' \in Timer /\ timer'.waiting = FALSE
  BY DEF CancelTimer, GInv, TypeInv, Timer
<1>3. /\ ctx' \in Context /\ ctx'.work = ctx.work /\ ctx'.guard = ctx.guard
      /\ ctx'.stopped = ctx.stopped /\ Owed(ctx', timer') <= Owed(ctx, timer)
      /\ Owed(ctx, timer) \in Int /\ Owed(ctx', timer') \in Int
  <2>1. CASE timer.waiting
    <3>1. [timer.handler EXCEPT !.ec = "aborted"] \in Handlers
      BY DEF GInv, TypeInv, Timer, Handlers, Outcome
    <3>2. ctx' = Completed(ctx, [timer.handler EXCEPT !.ec = "aborted"])
      BY <2>1 DEF CancelTimer
    <3>3. /\ ctx' \in Context /\ ctx'.work = ctx.work /\ ctx'.guard = ctx.guard
          /\ ctx'.stopped = ctx.stopped /\ Owed(ctx', timer') = Owed(ctx, timer)
      BY <1>2, <2>1, <3>1, <3>2, Completing
    <3>4. Owed(ctx, timer) \in Int
      BY Owing DEF GInv, TypeInv
    <3>. QED
      BY <3>3, <3>4
  <2>2. CASE ~timer.waiting
    <3>1. ctx' = ctx
      BY <2>2 DEF CancelTimer
    <3>. QED
      BY <1>2, <3>1, Owing DEF GInv, TypeInv
  <2>. QED
    BY <2>1, <2>2
<1>4. PICK d \in Int : d = 0
  OBVIOUS
<1>5. ctx'.work = ctx.work + d /\ Owed(ctx', timer') <= Owed(ctx, timer) + d
  BY <1>3, <1>4 DEF Context
<1>. QED
  BY <1>1, <1>2, <1>3, <1>5, CallStep DEF GInv, TypeInv

\* run() finds that the timer has expired.
LEMMA ExpireStep ==
  ASSUME GInv, NEW t \in Thread, ExpireTimer(t), prog' = prog, now' = now
  PROVE  GInv'
<1>1. todo[t] # << >> /\ Head(todo[t]).op = "run" /\ todo' = todo /\ strand' = strand
  BY TheCall DEF ExpireTimer
<1>2. timer' \in Timer /\ ~timer'.waiting /\ timer.waiting /\ timer.handler \in Handlers
      /\ ctx' = Completed(ctx, timer.handler)
  BY DEF ExpireTimer, GInv, TypeInv, Timer
<1>3. /\ ctx' \in Context /\ ctx'.work = ctx.work /\ ctx'.guard = ctx.guard
      /\ ctx'.stopped = ctx.stopped /\ Owed(ctx', timer') = Owed(ctx, timer)
  BY <1>2, Completing
<1>4. Leavers' = Leavers /\ ListsStep(t)
  BY <1>1 DEF Leavers, ListsStep, GInv, ListsInv, TypeInv, NoMore
<1>5. PICK d \in Int : d = 0
  OBVIOUS
<1>6. Owed(ctx, timer) \in Int
  BY Owing DEF GInv, TypeInv
<1>7. ctx'.work = ctx.work + d /\ Owed(ctx', timer') <= Owed(ctx, timer) + d
  BY <1>3, <1>5, <1>6 DEF Context
<1>. QED
  BY <1>1, <1>2, <1>3, <1>4, <1>7, Balanced DEF GInv, TypeInv

\* A handler of the strand is called.
LEMMA TurnStep ==
  ASSUME GInv, NEW t \in Thread, TakeTurn(t), prog' = prog, now' = now
  PROVE  GInv'
<1>. DEFINE h == Head(strand.turn)
            m == Body(h) \o <<Call("leave_strand")>>
            u == m \o todo[t]
<1>1. todo[t] # << >> /\ Head(todo[t]).op = "turn" /\ ListOK(todo[t])
  BY TheCall DEF TakeTurn, GInv, ListsInv
<1>2. h \in Handlers /\ Tail(strand.turn) \in Seq(Handlers)
  BY HeadTailProperties DEF TakeTurn, GInv, TypeInv, Strand
<1>3. m \in Seq(Plain) /\ ~Has(m, "run")
  <2>1. Body(h) \in Seq(Plain) /\ ~Has(Body(h), "run")
    BY <1>2, Bodies
  <2>2. Call("leave_strand") \in Plain /\ Call("leave_strand").op # "run"
    BY PlainCalls DEF Bare, Call
  <2>. DEFINE a == Body(h)
  <2>. HIDE DEF a
  <2>3. \A c \in Plain : c.op # "run" => a \o <<c>> \in Seq(Plain) /\ ~Has(a \o <<c>>, "run")
    <3>1. SUFFICES ASSUME NEW c \in Plain, c.op # "run"
                   PROVE  a \o <<c>> \in Seq(Plain) /\ ~Has(a \o <<c>>, "run")
      OBVIOUS
    <3>2. a \in Seq(Plain) /\ \A k \in 1..Len(a) : a[k].op # "run"
      BY <2>1 DEF a, Has
    <3>3. a \o <<c>> = Append(a, c)
      BY <3>2, AppendIsConcat
    <3>4. /\ Append(a, c) \in Seq(Plain) /\ Len(Append(a, c)) = Len(a) + 1 /\ Len(a) \in Nat
          /\ \A k \in 1..Len(a) + 1 : Append(a, c)[k] = a[k] \/ Append(a, c)[k] = c
          /\ \A k \in 1..Len(a) + 1 : k \notin 1..Len(a) => Append(a, c)[k] = c
          /\ \A k \in 1..Len(a) : Append(a, c)[k] = a[k]
      BY <3>2, AppendProperties
    <3>. QED
      BY <3>1, <3>2, <3>3, <3>4 DEF Has
  <2>. QED
    BY <2>2, <2>3 DEF a
<1>. HIDE DEF m
<1>4. ListOK(u) /\ NoMore(u, todo[t]) /\ (Has(u, "leave") => Has(todo[t], "leave"))
  BY <1>1, <1>3, Interrupts
<1>5. todo' = [todo EXCEPT ![t] = u]
  BY DEF TakeTurn, First, m
<1>. HIDE DEF u
<1>6. ListsStep(t) /\ Leavers' \subseteq Leavers
  BY <1>4, <1>5, OneList DEF ListsStep, GInv
<1>7. ctx' = ctx /\ timer' = timer /\ strand' \in Strand
  <2>1. strand' = [strand EXCEPT !.turn = Tail(@)] /\ ctx' = ctx /\ timer' = timer
    BY DEF TakeTurn
  <2>. QED
    BY <1>2, <2>1 DEF GInv, TypeInv, Strand
<1>8. PICK d \in Int : d = 0
  OBVIOUS
<1>9. Owed(ctx', timer') = Owed(ctx, timer) /\ Owed(ctx, timer) \in Int
  BY <1>7, Owing DEF GInv, TypeInv
<1>10. ctx'.work = ctx.work + d /\ Owed(ctx', timer') <= Owed(ctx, timer) + d
  BY <1>7, <1>8, <1>9 DEF GInv, TypeInv, Context
<1>11. ctx'.guard = ctx.guard /\ ctx'.stopped = ctx.stopped /\ ctx' \in Context /\ timer' \in Timer
  BY <1>7 DEF GInv, TypeInv
<1>. QED
  BY <1>1, <1>6, <1>7, <1>10, <1>11, Balanced

\* The end of a turn
LEMMA EndTurnStep ==
  ASSUME GInv, NEW t \in Thread, EndTurn(t), prog' = prog, now' = now
  PROVE  GInv'
<1>1. At(t, "turn") /\ Then(t, << >>) /\ timer' = timer
      /\ (ctx' = ctx \/ ctx' = Queued(ctx, Handler("invoker", 0)))
  BY DEF EndTurn
<1>2. strand' \in Strand
  BY DEF EndTurn, GInv, TypeInv, Strand
<1>. QED
  BY <1>1, <1>2, IdleStep, QueuedStep, Invoker

\* run() returns.
LEMMA ReturnStep ==
  ASSUME GInv, NEW t \in Thread, RunReturns(t), prog' = prog, now' = now
  PROVE  GInv'
<1>1. At(t, "run") /\ Then(t, << >>) /\ timer' = timer /\ strand' = strand
  BY DEF RunReturns
<1>2. /\ ctx' \in Context /\ ctx'.work = ctx.work /\ ctx'.guard = ctx.guard /\ ctx'.ready = ctx.ready
      /\ ctx'.stopped = "spent" => ctx.stopped = "spent" \/ ctx.work = 0
  BY DEF RunReturns, GInv, TypeInv, Context
<1>3. Owed(ctx', timer') = Owed(ctx, timer) /\ Owed(ctx, timer) \in Int
  BY <1>1, <1>2, Owing DEF GInv, TypeInv
<1>4. PICK d \in Int : d = 0
  OBVIOUS
<1>5. ctx'.work = ctx.work + d /\ Owed(ctx', timer') <= Owed(ctx, timer) + d
  BY <1>2, <1>3, <1>4 DEF Context
<1>. QED
  BY <1>1, <1>2, <1>5, CallStep DEF GInv, TypeInv

\* Every step keeps the invariant.
LEMMA GStep == ASSUME GInv, [Next]_vars PROVE GInv'
<1>1. CASE UNCHANGED vars
  BY <1>1 DEF vars, GInv, TypeInv, ListsInv, WorkInv, GuardInv, GuardHolds, Fresh, Leavers, NoCancel
<1>2. CASE Tick
  <2>1. now' \in Int
    BY <1>2 DEF Tick, GInv, TypeInv
  <2>. QED
    BY <1>2, <2>1 DEF Tick, GInv, TypeInv, ListsInv, WorkInv, GuardInv, GuardHolds, Fresh, Leavers,
              NoCancel
<1>3. ASSUME NEW t \in Thread, ThreadStep(t) PROVE GInv'
  <2>1. prog' = prog /\ now' = now
    BY <1>3 DEF ThreadStep
  <2>2. CASE Quiet(t)
    BY <2>1, <2>2, QuietStep
  <2>3. CASE MakeGuard(t) \/ GuardReset(t) \/ LeaveHandler(t) \/ TakeHandler(t)
    BY <2>1, <2>3, MakeGuardStep, GuardResetStep, LeaveStep, TakeStep
  <2>4. CASE StopContext(t) \/ PostHandler(t) \/ PostToStrand(t) \/ StartWait(t) \/ CountMessage(t)
    BY <2>1, <2>4, StopStep, PostStep, StrandStep, StartWaitStep, CountStep
  <2>5. CASE CancelTimer(t) \/ ExpireTimer(t) \/ TakeTurn(t) \/ EndTurn(t) \/ RunReturns(t)
    BY <2>1, <2>5, CancelStep, ExpireStep, TurnStep, EndTurnStep, ReturnStep
  <2>. QED
    BY <1>3, <2>2, <2>3, <2>4, <2>5 DEF ThreadStep, Quiet
<1>. QED
  BY <1>1, <1>2, <1>3 DEF Next

\* It holds at the start of a program.
LEMMA GInit == ASSUME SizeAssumption, Init, prog \notin Backgrounds PROVE GInv
<1>1. todo = [t \in Thread |-> IF t = Main THEN Program[prog] ELSE << >>] /\ Main \in Thread
  BY DEF Init, Main, Thread
<1>2. ProgramOK(Program[prog])
  BY Tables DEF Init
<1>3. todo[Main] = Program[prog] /\ \A t \in Thread : t # Main => todo[t] = << >>
  BY <1>1
<1>4. << >> \in Seq(Calls) /\ \A o : ~Has(<< >>, o)
  BY DEF Has
<1>5. \A s : ProgramOK(s) => ListOK(s) /\ ~Has(s, "leave")
  <2>1. SUFFICES ASSUME NEW s, ProgramOK(s) PROVE ListOK(s) /\ ~Has(s, "leave")
    OBVIOUS
  <2>. QED
    BY <2>1 DEF ProgramOK, ListOK, LeaveOK, Has
<1>6. ListOK(<< >>)
  BY <1>4 DEF ListOK, LeaveOK, GuardOK, Has
<1>7. ListsInv /\ Leavers = {}
  BY <1>2, <1>3, <1>4, <1>5, <1>6 DEF ListsInv, Leavers
<1>8. Fresh
  BY <1>3 DEF Fresh, Init
<1>9. TypeInv
  <2>1. todo \in [Thread -> Seq(Calls)]
    BY <1>1, <1>2, <1>4 DEF ProgramOK
  <2>2. ctx \in Context /\ strand \in Strand
    BY DEF Init, Context, Strand
  <2>3. timer \in Timer
    <3>1. Handler("print", 0) \in Handlers
      BY PlainCalls DEF Names
    <3>2. -1 \in Int
      OBVIOUS
    <3>. QED
      BY <3>1, <3>2 DEF Init, Timer
  <2>. QED
    BY <2>1, <2>2, <2>3 DEF TypeInv, Init
<1>10. WorkInv
  <2>1. Owed(ctx, timer) = 0 /\ ctx.work = 0 /\ Cardinality(Leavers) = 0
    BY <1>7, <1>8, FS_EmptySet DEF Owed, Fresh
  <2>. QED
    BY <2>1 DEF WorkInv
<1>11. NoCancel
  <2>1. prog # "Future_Exception_Handling" => ~Has(Program[prog], "cancel")
    BY Tables DEF Init
  <2>. QED
    BY <1>3, <1>4, <2>1 DEF NoCancel
<1>. QED
  BY <1>2, <1>3, <1>7, <1>8, <1>9, <1>10, <1>11 DEF GInv, GuardInv, GuardHolds, Fresh, ProgramOK

(* The programs whose guard is reset by a handler: every state is named.   *)

\* The step of a thread is that of its next call.
LEMMA Dispatch ==
  ASSUME NEW t, ThreadStep(t)
  PROVE  /\ prog' = prog /\ now' = now /\ todo[t] # << >>
         /\ Head(todo[t]).op = "make_work_guard" => MakeGuard(t)
         /\ Head(todo[t]).op = "reset" => GuardReset(t)
         /\ Head(todo[t]).op = "leave" => LeaveHandler(t)
         /\ Head(todo[t]).op = "expires" => SetExpiry(t)
         /\ Head(todo[t]).op = "async_wait" => StartWait(t)
         /\ Head(todo[t]).op = "run" => TakeHandler(t) \/ ExpireTimer(t) \/ RunReturns(t)
         /\ Head(todo[t]).op = "message" => CountMessage(t)
         /\ Head(todo[t]).op = "strand" => PostToStrand(t)
         /\ Head(todo[t]).op = "turn" => TakeTurn(t) \/ EndTurn(t)
         /\ Head(todo[t]).op = "leave_strand" => LeaveStrand(t)
         /\ Head(todo[t]).op = "spawn" => SpawnThread(t)
         /\ Head(todo[t]).op = "join" => JoinThread(t)
         /\ Head(todo[t]).op = "sleep" => FallAsleep(t)
         /\ Head(todo[t]).op = "asleep" => WakeUp(t)
         /\ Head(todo[t]).op = "cancel" => CancelTimer(t)
         /\ Head(todo[t]).op = "post" => PostHandler(t)
         /\ Head(todo[t]).op = "stop" => StopContext(t)
         /\ Head(todo[t]).op \in {"set", "get"} => Settle(t)
<1>1. /\ SpawnThread(t) => At(t, "spawn")
      /\ JoinThread(t) => At(t, "join")
      /\ FallAsleep(t) => At(t, "sleep")
      /\ WakeUp(t) => At(t, "asleep") \/ At(t, "wait")
      /\ LockMutex(t) => At(t, "lock") \/ At(t, "unlock")
      /\ MakeGuard(t) => At(t, "make_work_guard")
      /\ GuardReset(t) => At(t, "reset")
      /\ StopContext(t) => At(t, "stop")
      /\ PostHandler(t) => At(t, "post")
      /\ PostToStrand(t) => At(t, "strand")
      /\ SetExpiry(t) => At(t, "expires")
  BY DEF SpawnThread, JoinThread, FallAsleep, WakeUp, LockMutex, MakeGuard, GuardReset, StopContext,
         PostHandler, PostToStrand, SetExpiry
<1>2. /\ StartWait(t) => At(t, "async_wait")
      /\ CountMessage(t) => At(t, "message")
      /\ CancelTimer(t) => At(t, "cancel")
      /\ Settle(t) => At(t, "set") \/ At(t, "get")
      /\ TakeHandler(t) => At(t, "run")
      /\ LeaveHandler(t) => At(t, "leave")
      /\ TakeTurn(t) => At(t, "turn")
      /\ EndTurn(t) => At(t, "turn")
      /\ LeaveStrand(t) => At(t, "leave_strand")
      /\ ExpireTimer(t) => At(t, "run")
      /\ RunReturns(t) => At(t, "run")
  BY DEF StartWait, CountMessage, CancelTimer, Settle, TakeHandler, LeaveHandler, TakeTurn, EndTurn,
         LeaveStrand, ExpireTimer, RunReturns
<1>3. \A o : At(t, o) <=> todo[t] # << >> /\ Head(todo[t]).op = o
  BY DEF At
<1>4. prog' = prog /\ now' = now
  BY DEF ThreadStep
<1>. QED
  BY <1>1, <1>2, <1>3, <1>4 DEF ThreadStep

\* The handler that resets the guard
Expired == Handler("expired", 0)

\* Nobody but the main thread has anything to do.
Alone ==
    todo = [t \in Thread |-> IF t = Main THEN todo[Main] ELSE << >>]

Ctx(r, w, g, s) == [ready |-> r, work |-> w, guard |-> g, stopped |-> s]

BTimer   == [at : Int, waiting : BOOLEAN, handler : Handlers \cup {Expired}, cancelled : Int]
BContext == [ready : {<< >>, <<Expired>>}, work : Int, guard : BOOLEAN,
             stopped : {"no", "spent", "called"}]

Fields ==
    /\ prog \in Backgrounds
    /\ timer \in BTimer /\ ctx \in BContext
    /\ now \in Int

BInv ==
    /\ Alone /\ Fields
    /\ \/ /\ todo[Main] = <<Guard, Expires(1), AsyncWait(Expired), Run>>
          /\ ctx = Ctx(<< >>, 0, FALSE, "no") /\ ~timer.waiting
       \/ /\ todo[Main] \in {<<Expires(1), AsyncWait(Expired), Run>>, <<AsyncWait(Expired), Run>>}
          /\ ctx = Ctx(<< >>, 1, TRUE, "no") /\ ~timer.waiting
       \/ /\ todo[Main] = <<Run>>
          /\ ctx = Ctx(<< >>, 2, TRUE, "no") /\ timer.waiting /\ timer.handler = Expired
       \/ /\ todo[Main] = <<Run>>
          /\ ctx = Ctx(<<Expired>>, 2, TRUE, "no") /\ ~timer.waiting
       \/ /\ todo[Main] = <<ResetGuard, Leave, Run>>
          /\ ctx = Ctx(<< >>, 2, TRUE, "no") /\ ~timer.waiting
       \/ /\ todo[Main] \in {<<Leave, Run>>, <<Run>>, << >>}
          /\ ctx.ready = << >> /\ ctx.guard = FALSE /\ ~timer.waiting

\* Three calls, one at a time
LEMMA ThreeCalls ==
  ASSUME NEW a, NEW b, NEW c
  PROVE  (<<a>> \o <<b>>) \o <<c>> = <<a, b, c>> /\ Head(<<a, b, c>>) = a
<1>. DEFINE S == {a, b, c}
<1>1. a \in S /\ b \in S /\ c \in S
  OBVIOUS
<1>. HIDE DEF S
<1>2. <<a>> \in Seq(S) /\ <<a, b>> \in Seq(S)
  BY <1>1
<1>3. <<a, b>> = Append(<<a>>, b)
  BY <1>1
<1>4. <<a, b, c>> = Append(<<a, b>>, c)
  BY <1>1
<1>5. <<a>> \o <<b>> = <<a, b>>
  BY <1>1, <1>2, <1>3, AppendIsConcat
<1>6. <<a, b>> \o <<c>> = <<a, b, c>>
  BY <1>1, <1>2, <1>4, AppendIsConcat
<1>7. Head(<<a, b, c>>) = a
  OBVIOUS
<1>. QED
  BY <1>5, <1>6, <1>7

\* What the calls become
LEMMA Tails ==
  /\ \A a : << >> \o Tail(<<a>>) = << >>
  /\ \A a, b : << >> \o Tail(<<a, b>>) = <<b>>
  /\ \A a, b, c : << >> \o Tail(<<a, b, c>>) = <<b, c>>
  /\ \A a, b, c, d : << >> \o Tail(<<a, b, c, d>>) = <<b, c, d>>
  /\ \A a, b, c, d, e : << >> \o Tail(<<a, b, c, d, e>>) = <<b, c, d, e>>
  /\ \A a, b, c : (<<a>> \o <<b>>) \o <<c>> = <<a, b, c>>
  /\ \A a : Head(<<a>>) = a
  /\ \A a, b : Head(<<a, b>>) = a
  /\ \A a, b, c : Head(<<a, b, c>>) = a
  /\ \A a, b, c, d : Head(<<a, b, c, d>>) = a
  /\ \A a, b, c, d, e : Head(<<a, b, c, d, e>>) = a
<1>1. /\ \A a : << >> \o Tail(<<a>>) = << >>
      /\ \A a, b : << >> \o Tail(<<a, b>>) = <<b>>
      /\ \A a, b, c : << >> \o Tail(<<a, b, c>>) = <<b, c>>
      /\ \A a, b, c, d : << >> \o Tail(<<a, b, c, d>>) = <<b, c, d>>
      /\ \A a, b, c, d, e : << >> \o Tail(<<a, b, c, d, e>>) = <<b, c, d, e>>
  OBVIOUS
<1>4. \A a, b, c : (<<a>> \o <<b>>) \o <<c>> = <<a, b, c>>
  BY ThreeCalls
<1>5. /\ \A a : Head(<<a>>) = a
      /\ \A a, b : Head(<<a, b>>) = a
      /\ \A a, b, c : Head(<<a, b, c>>) = a
      /\ \A a, b, c, d : Head(<<a, b, c, d>>) = a
      /\ \A a, b, c, d, e : Head(<<a, b, c, d, e>>) = a
  OBVIOUS
<1>. QED
  BY <1>1, <1>4, <1>5

\* Two calls, one and one more
LEMMA FourCalls ==
  ASSUME NEW a, NEW b, NEW c, NEW d
  PROVE  (<<a, b>> \o <<c>>) \o <<d>> = <<a, b, c, d>>
<1>. DEFINE S == {a, b, c, d}
<1>1. a \in S /\ b \in S /\ c \in S /\ d \in S
  OBVIOUS
<1>. HIDE DEF S
<1>2. <<a, b>> \in Seq(S) /\ <<a, b, c>> \in Seq(S)
  BY <1>1
<1>3. <<a, b, c>> = Append(<<a, b>>, c)
  BY <1>1
<1>4. <<a, b, c, d>> = Append(<<a, b, c>>, d)
  BY <1>1
<1>5. <<a, b>> \o <<c>> = <<a, b, c>>
  BY <1>1, <1>2, <1>3, AppendIsConcat
<1>6. <<a, b, c>> \o <<d>> = <<a, b, c, d>>
  BY <1>1, <1>2, <1>4, AppendIsConcat
<1>. QED
  BY <1>5, <1>6

\* The io_context, by its parts
LEMMA Parts ==
  ASSUME NEW r \in {<< >>, <<Expired>>}, NEW w \in Int, NEW g \in BOOLEAN,
         NEW s \in {"no", "spent", "called"}
  PROVE  /\ Ctx(r, w, g, s) \in BContext
         /\ [Ctx(r, w, g, s) EXCEPT !.guard = FALSE] = Ctx(r, w, FALSE, s)
         /\ \A v : [Ctx(r, w, g, s) EXCEPT !.work = v] = Ctx(r, v, g, s)
         /\ w # 1 => WorkFinished(Ctx(r, w, g, s)) = Ctx(r, w - 1, g, s)
<1>1. Ctx(r, w, g, s) \in BContext
  BY DEF Ctx, BContext
<1>2. [Ctx(r, w, g, s) EXCEPT !.guard = FALSE] = Ctx(r, w, FALSE, s)
  <2>1. \A v : [Ctx(r, w, g, s) EXCEPT !.guard = v] = Ctx(r, w, v, s)
    BY DEF Ctx
  <2>. QED
    BY <2>1
<1>3. \A v : [Ctx(r, w, g, s) EXCEPT !.work = v] = Ctx(r, v, g, s)
  BY DEF Ctx
<1>4. ASSUME NEW v, NEW q PROVE [Ctx(r, w, g, s) EXCEPT !.work = v, !.stopped = q] = Ctx(r, v, g, q)
  <2>. DEFINE d == [Ctx(r, w, g, s) EXCEPT !.work = v, !.stopped = q]
              e == Ctx(r, v, g, q)
  <2>. SUFFICES d = e
    OBVIOUS
  <2>1. d = [x \in {"ready", "work", "guard", "stopped"} |-> d[x]]
    BY DEF Ctx
  <2>2. e = [x \in {"ready", "work", "guard", "stopped"} |-> e[x]]
    BY DEF Ctx
  <2>3. d.ready = e.ready /\ d.work = e.work /\ d.guard = e.guard /\ d.stopped = e.stopped
    BY DEF Ctx
  <2>. HIDE DEF d, e
  <2>. QED
    BY <2>1, <2>2, <2>3
<1>5. w # 1 => WorkFinished(Ctx(r, w, g, s)) = Ctx(r, w - 1, g, s)
  <2>1. /\ Ctx(r, w, g, s).work = w /\ Ctx(r, w, g, s).stopped = s
    BY DEF Ctx
  <2>. QED
    BY <1>4, <2>1 DEF WorkFinished
<1>. QED
  BY <1>1, <1>2, <1>3, <1>5

\* The main thread goes on.
LEMMA GoesOn ==
  ASSUME Alone, NEW u, todo' = [todo EXCEPT ![Main] = u]
  PROVE  Alone' /\ todo'[Main] = u
<1>1. Main \in Thread
  BY DEF Main, Thread
<1>2. todo'[Main] = u /\ \A t \in Thread : t # Main => todo'[t] = << >>
  BY <1>1 DEF Alone
<1>3. todo' = [t \in Thread |-> todo'[t]]
  BY DEF Alone
<1>4. todo' = [t \in Thread |-> IF t = Main THEN u ELSE << >>]
  BY <1>2, <1>3
<1>. QED
  BY <1>2, <1>4 DEF Alone

\* Their guard is held as long as the timer runs.
LEMMA BStep == ASSUME BInv, [Next]_vars PROVE BInv'
<1>1. CASE UNCHANGED vars
  BY <1>1 DEF vars, BInv, Alone, Fields
<1>2. CASE Tick
  <2>1. now' \in Int
    BY <1>2 DEF Tick, BInv, Fields
  <2>. QED
    BY <1>2, <2>1 DEF Tick, BInv, Alone, Fields
<1>3. ASSUME NEW t \in Thread, ThreadStep(t) PROVE BInv'
  <2>. DEFINE M == todo[Main]
  <2>1. t = Main /\ todo[Main] # << >> /\ prog' \in Backgrounds /\ now' \in Int
    BY <1>3, Dispatch DEF Alone, BInv, Main, Thread, Fields
  <2>2. \A m : Then(Main, m) => Alone' /\ todo'[Main] = m \o Tail(M)
    BY GoesOn DEF Then, BInv
  <2>3. /\ Guard.op = "make_work_guard" /\ Expires(1).op = "expires" /\ AsyncWait(Expired).op = "async_wait"
        /\ Run.op = "run" /\ ResetGuard.op = "reset" /\ Leave.op = "leave"
        /\ AsyncWait(Expired).handler = Expired /\ Expires(1).after = 1
    BY DEF Guard, Expires, AsyncWait, Run, ResetGuard, Leave, Call
  <2>4. CASE M = <<Guard, Expires(1), AsyncWait(Expired), Run>> /\ ctx = Ctx(<< >>, 0, FALSE, "no") /\ ~timer.waiting
    <3>1. MakeGuard(Main)
      BY <1>3, <2>1, <2>3, <2>4, Tails, Dispatch
    <3>2. Alone' /\ todo'[Main] = <<Expires(1), AsyncWait(Expired), Run>> /\ timer' = timer
      BY <2>2, <2>4, <3>1, Tails DEF MakeGuard
    <3>3. ctx' = Ctx(<< >>, 1, TRUE, "no")
      <4>1. 0 + 1 = 1
        OBVIOUS
      <4>2. ctx.work + 1 = 1
        BY <2>4, <4>1 DEF Ctx
      <4>3. ctx' = [ctx EXCEPT !.guard = TRUE, !.work = 1]
        BY <3>1, <4>2 DEF MakeGuard
      <4>. QED
        BY <2>4, <4>3 DEF Ctx
    <3>4. Fields'
      BY <2>1, <3>2, <3>3 DEF Fields, BInv, BTimer, BContext, Ctx
    <3>. QED
      BY <2>4, <3>2, <3>3, <3>4 DEF BInv
  <2>5. CASE M = <<Expires(1), AsyncWait(Expired), Run>> /\ ctx = Ctx(<< >>, 1, TRUE, "no") /\ ~timer.waiting
    <3>1. SetExpiry(Main)
      BY <1>3, <2>1, <2>3, <2>5, Tails, Dispatch
    <3>2. Alone' /\ todo'[Main] = <<AsyncWait(Expired), Run>> /\ ctx' = ctx
      BY <2>2, <2>5, <3>1, Tails DEF SetExpiry
    <3>3. Fields' /\ timer'.waiting = timer.waiting
      <4>1. PICK a \in Int : a = now + Arg(Main).after
        BY <2>1, <2>3, <2>5, Tails DEF Arg, BInv, Fields
      <4>2. timer' = [timer EXCEPT !.at = a]
        BY <3>1, <4>1 DEF SetExpiry
      <4>. QED
        BY <2>1, <3>2, <4>2 DEF Fields, BInv, BTimer, BContext
    <3>. QED
      BY <2>5, <3>2, <3>3 DEF BInv
  <2>6. CASE M = <<AsyncWait(Expired), Run>> /\ ctx = Ctx(<< >>, 1, TRUE, "no") /\ ~timer.waiting
    <3>1. StartWait(Main)
      BY <1>3, <2>1, <2>3, <2>6, Tails, Dispatch
    <3>2. Alone' /\ todo'[Main] = <<Run>>
      BY <2>2, <2>6, <3>1, Tails DEF StartWait
    <3>3. ctx' = Ctx(<< >>, 2, TRUE, "no")
      <4>1. 1 + 1 = 2
        OBVIOUS
      <4>2. ctx.work + 1 = 2
        BY <2>6, <4>1 DEF Ctx
      <4>3. ctx' = [ctx EXCEPT !.work = 2]
        BY <3>1, <4>2 DEF StartWait
      <4>. QED
        BY <2>6, <4>3 DEF Ctx
    <3>4. timer' = [timer EXCEPT !.waiting = TRUE, !.handler = Expired]
      <4>1. Arg(Main).handler = Expired
        BY <2>3, <2>6, Tails DEF Arg
      <4>. QED
        BY <3>1, <4>1 DEF StartWait, Armed
    <3>5. timer' \in BTimer /\ timer'.waiting /\ timer'.handler = Expired
      BY <3>4 DEF Fields, BInv, BTimer
    <3>6. Fields'
      <4>1. PICK w \in Int : w = 2
        OBVIOUS
      <4>2. ctx' \in BContext
        BY <3>3, <4>1, Parts
      <4>. QED
        BY <2>1, <3>5, <4>2 DEF Fields
    <3>. QED
      BY <3>2, <3>3, <3>5, <3>6 DEF BInv
  <2>7. CASE /\ M = <<Run>> /\ ctx = Ctx(<< >>, 2, TRUE, "no") /\ timer.waiting /\ timer.handler = Expired
    <3>1. TakeHandler(Main) \/ ExpireTimer(Main) \/ RunReturns(Main)
      BY <1>3, <2>1, <2>3, <2>7, Tails, Dispatch
    <3>2. ExpireTimer(Main)
      BY <2>7, <3>1 DEF TakeHandler, RunReturns, Ctx
    <3>3. Alone' /\ todo'[Main] = <<Run>>
      BY <2>7, <3>2 DEF ExpireTimer, Alone, BInv
    <3>4. ctx' = Ctx(<<Expired>>, 2, TRUE, "no")
      <4>1. Append(<< >>, Expired) = <<Expired>>
        OBVIOUS
      <4>. QED
        BY <2>7, <3>2, <4>1 DEF ExpireTimer, Completed, Ctx
    <3>5. timer' = [timer EXCEPT !.waiting = FALSE]
      BY <3>2 DEF ExpireTimer
    <3>6. timer' \in BTimer /\ ~timer'.waiting
      BY <3>5 DEF Fields, BInv, BTimer
    <3>7. Fields'
      <4>1. PICK w \in Int : w = 2
        OBVIOUS
      <4>2. ctx' \in BContext
        BY <3>4, <4>1, Parts
      <4>. QED
        BY <2>1, <3>6, <4>2 DEF Fields
    <3>. QED
      BY <3>3, <3>4, <3>6, <3>7 DEF BInv
  <2>8. CASE M = <<Run>> /\ ctx = Ctx(<<Expired>>, 2, TRUE, "no") /\ ~timer.waiting
    <3>1. TakeHandler(Main) \/ ExpireTimer(Main) \/ RunReturns(Main)
      BY <1>3, <2>1, <2>3, <2>8, Tails, Dispatch
    <3>2. TakeHandler(Main)
      BY <2>8, <3>1 DEF ExpireTimer, RunReturns, Ctx
    <3>3. Head(ctx.ready) = Expired /\ Tail(ctx.ready) = << >>
      BY <2>8 DEF Ctx
    <3>4. Body(Expired) = <<ResetGuard>>
      BY DEF Body, Expired, Handler
    <3>6. todo' = [todo EXCEPT ![Main] = (<<ResetGuard>> \o <<Leave>>) \o <<Run>>]
      BY <2>8, <3>2, <3>3, <3>4 DEF TakeHandler, First
    <3>7. Alone' /\ todo'[Main] = <<ResetGuard, Leave, Run>>
      <4>1. (<<ResetGuard>> \o <<Leave>>) \o <<Run>> = <<ResetGuard, Leave, Run>>
        BY Tails
      <4>. QED
        BY <3>6, <4>1, GoesOn DEF BInv
    <3>8. ctx' = Ctx(<< >>, 2, TRUE, "no") /\ timer' = timer
      BY <2>8, <3>2, <3>3 DEF TakeHandler, Ctx
    <3>9. Fields'
      BY <2>1, <3>8 DEF Fields, BInv, BTimer, BContext, Ctx
    <3>. QED
      BY <2>8, <3>7, <3>8, <3>9 DEF BInv
  <2>9. CASE M = <<ResetGuard, Leave, Run>> /\ ctx = Ctx(<< >>, 2, TRUE, "no") /\ ~timer.waiting
    <3>1. GuardReset(Main)
      BY <1>3, <2>1, <2>3, <2>9, Tails, Dispatch
    <3>2. Alone' /\ todo'[Main] = <<Leave, Run>> /\ timer' = timer
      BY <2>2, <2>9, <3>1, Tails DEF GuardReset
    <3>3. PICK w \in Int, v \in Int : w = 2 /\ v = 1 /\ w - 1 = v /\ w # 1
      OBVIOUS
    <3>4. ctx' = Ctx(<< >>, 1, FALSE, "no")
      <4>1. [ctx EXCEPT !.guard = FALSE] = Ctx(<< >>, w, FALSE, "no")
        BY <2>9, <3>3, Parts
      <4>2. WorkFinished(Ctx(<< >>, w, FALSE, "no")) = Ctx(<< >>, w - 1, FALSE, "no")
        BY <3>3, Parts
      <4>. QED
        BY <3>1, <3>3, <4>1, <4>2 DEF GuardReset
    <3>5. Fields' /\ ctx'.ready = << >> /\ ctx'.guard = FALSE
      BY <2>1, <3>2, <3>4 DEF Fields, BInv, BTimer, BContext, Ctx
    <3>. QED
      BY <2>9, <3>2, <3>5 DEF BInv
  <2>10. CASE M = <<Leave, Run>> /\ ctx.ready = << >> /\ ctx.guard = FALSE /\ ~timer.waiting
    <3>1. LeaveHandler(Main)
      BY <1>3, <2>1, <2>3, <2>10, Tails, Dispatch
    <3>2. Alone' /\ todo'[Main] = <<Run>> /\ timer' = timer
      BY <2>2, <2>10, <3>1, Tails DEF LeaveHandler
    <3>3. PICK w \in Int : w = ctx.work
      BY DEF BInv, Fields, BContext
    <3>4. \E s \in {"no", "spent", "called"} : ctx' = [ctx EXCEPT !.work = w - 1, !.stopped = s]
      <4>1. (IF ctx.work = 1 /\ ctx.stopped = "no" THEN "spent" ELSE ctx.stopped) \in {"no", "spent", "called"}
        BY DEF BInv, Fields, BContext
      <4>. QED
        BY <3>1, <3>3, <4>1 DEF LeaveHandler, WorkFinished
    <3>5. w - 1 \in Int
      OBVIOUS
    <3>6. Fields' /\ ctx'.ready = << >> /\ ctx'.guard = FALSE
      BY <2>1, <2>10, <3>2, <3>4, <3>5 DEF Fields, BInv, BTimer, BContext
    <3>. QED
      BY <2>10, <3>2, <3>6 DEF BInv
  <2>11. CASE M = <<Run>> /\ ctx.ready = << >> /\ ctx.guard = FALSE /\ ~timer.waiting
    <3>1. TakeHandler(Main) \/ ExpireTimer(Main) \/ RunReturns(Main)
      BY <1>3, <2>1, <2>3, <2>11, Tails, Dispatch
    <3>2. RunReturns(Main)
      BY <2>11, <3>1 DEF ExpireTimer, TakeHandler
    <3>3. Alone' /\ todo'[Main] = << >> /\ timer' = timer
      BY <2>2, <2>11, <3>2, Tails DEF RunReturns
    <3>4. ctx' = [ctx EXCEPT !.stopped = IF ctx.stopped = "no" THEN "spent" ELSE ctx.stopped]
      BY <3>2 DEF RunReturns
    <3>5. Fields' /\ ctx'.ready = << >> /\ ctx'.guard = FALSE
      BY <2>1, <2>11, <3>3, <3>4 DEF Fields, BInv, BTimer, BContext
    <3>. QED
      BY <2>11, <3>3, <3>5 DEF BInv
  <2>. QED
    BY <2>1, <2>4, <2>5, <2>6, <2>7, <2>8, <2>9, <2>10, <2>11 DEF BInv
<1>. QED
  BY <1>1, <1>2, <1>3 DEF Next

\* It holds when they start.
LEMMA BInit == ASSUME Init, prog \in Backgrounds PROVE BInv /\ GuardHolds
<1>1. Program[prog] = <<Guard, Expires(1), AsyncWait(Expired), Run>>
  BY DEF Backgrounds, Program, background_task, backgroundTask, Expired
<1>2. Alone /\ todo[Main] = <<Guard, Expires(1), AsyncWait(Expired), Run>>
  BY <1>1 DEF Init, Alone, Main, Thread
<1>3. ctx = Ctx(<< >>, 0, FALSE, "no") /\ ~timer.waiting
  BY DEF Init, Ctx
<1>4. Fields
  <2>1. Handler("print", 0) \in Handlers /\ -1 \in Int
    BY PlainCalls DEF Names
  <2>. QED
    BY <1>3, <2>1 DEF Fields, BTimer, BContext, Init, Ctx
<1>. QED
  BY <1>2, <1>3, <1>4 DEF BInv, GuardHolds, Ctx

\* The guard of these programs
LEMMA BGuard == ASSUME BInv PROVE GuardHolds
BY DEF BInv, GuardHolds, Ctx

GuardInductive == IF prog \in Backgrounds THEN BInv ELSE GInv

\* While the work guard is held, run() returns only after a call of stop(): in
\* every program, for any number of threads, tasks and handlers.
THEOREM GuardAlways == Spec => []GuardHolds
<1>1. Init => GuardInductive
  BY BInit, GInit, SizeAssumption DEF GuardInductive
<1>2. GuardInductive /\ [Next]_vars => GuardInductive'
  <2>1. ASSUME GuardInductive, [Next]_vars PROVE GuardInductive'
    <3>1. prog' = prog
      BY <2>1 DEF Next, Tick, ThreadStep, vars
    <3>. QED
      BY <2>1, <3>1, BStep, GStep DEF GuardInductive
  <2>. QED
    BY <2>1
<1>3. GuardInductive => GuardHolds
  BY BGuard DEF GuardInductive, GInv, GuardInv
<1>. QED
  BY <1>1, <1>2, <1>3, PTL DEF Spec

(* The timer that invokes its handler six times.                           *)

Msg == Handler("message", 0)

\* The state of the one thread, its io_context and the wait
State(m, r, w, x) ==
    /\ todo[Main] = m /\ ctx.ready = r /\ ctx.work = w /\ ctx.stopped = "no"
    /\ timer.waiting = x /\ (x => timer.handler = Msg)

\* The invocations so far are those that were counted, and the next is due later.
Due(e, c) == e = c /\ c <= 5 /\ timer.at >= c + 1

CallbackInv ==
    /\ Alone /\ executed \in Seq(Int) /\ count \in Int /\ now >= Len(executed)
    /\ \/ /\ State(<<Expires(1), AsyncWait(Msg), Run>>, << >>, 0, FALSE)
          /\ count = 0 /\ Len(executed) = 0
       \/ State(<<AsyncWait(Msg), Run>>, << >>, 0, FALSE) /\ Due(Len(executed), count)
       \/ State(<<Run>>, << >>, 1, TRUE) /\ Due(Len(executed), count)
       \/ /\ State(<<Run>>, <<Msg>>, 1, FALSE) /\ Due(Len(executed), count)
          /\ now >= count + 1
       \/ /\ State(<<Call("message"), Leave, Run>>, << >>, 1, FALSE)
          /\ Due(Len(executed) - 1, count)
       \/ State(<<Leave, Run>>, << >>, 2, TRUE) /\ Due(Len(executed), count)
       \/ State(<<Leave, Run>>, << >>, 1, FALSE) /\ Len(executed) = 6 /\ count = 5
       \/ /\ todo[Main] \in {<<Run>>, << >>} /\ ctx.stopped = "spent"
          /\ Len(executed) = 6 /\ count = 5

\* The count and the invocations keep step.
LEMMA CallbackStep == ASSUME GInv, GInv', CallbackInv, [Next]_vars PROVE CallbackInv'
<1>1. CASE UNCHANGED vars
  BY <1>1 DEF vars, CallbackInv, Alone, State, Due
<1>2. CASE Tick
  <2>1. now \in Int /\ now' = now + 1 /\ count \in Int /\ Len(executed) \in Nat
    BY <1>2 DEF Tick, GInv, TypeInv, CallbackInv
  <2>2. now' >= Len(executed) /\ (now >= count + 1 => now' >= count + 1)
    BY <2>1 DEF CallbackInv
  <2>3. UNCHANGED <<todo, ctx, timer, count, executed>>
    BY <1>2 DEF Tick
  <2>. QED
    BY <2>2, <2>3 DEF CallbackInv, Alone, State, Due
<1>3. ASSUME NEW t \in Thread, ThreadStep(t) PROVE CallbackInv'
  <2>. DEFINE M == todo[Main]
  <2>1. t = Main /\ M # << >> /\ now' = now
    BY <1>3, Dispatch DEF Alone, CallbackInv, Main, Thread
  <2>2. \A m : Then(Main, m) => Alone' /\ todo'[Main] = m \o Tail(M)
    BY GoesOn DEF Then, CallbackInv
  <2>3. /\ Expires(1).op = "expires" /\ AsyncWait(Msg).op = "async_wait"
        /\ Run.op = "run" /\ Leave.op = "leave" /\ Call("message").op = "message"
        /\ AsyncWait(Msg).handler = Msg /\ Expires(1).after = 1
    BY DEF Expires, AsyncWait, Run, Leave, Call
  <2>4. PICK n \in Int, a \in Int, w \in Int : n = now /\ a = timer.at /\ w = ctx.work
    BY DEF GInv, TypeInv, Timer, Context
  <2>5. PICK e \in Nat, c \in Int : e = Len(executed) /\ c = count /\ n >= e
    BY <2>4 DEF CallbackInv
  <2>6. ctx \in Context /\ timer \in Timer /\ executed \in Seq(Int)
    BY DEF GInv, TypeInv, CallbackInv
  <2>7. CASE /\ State(<<Expires(1), AsyncWait(Msg), Run>>, << >>, 0, FALSE)
             /\ count = 0 /\ Len(executed) = 0
    <3>1. SetExpiry(Main)
      BY <1>3, <2>1, <2>3, <2>7, Tails, Dispatch DEF State
    <3>2. Alone' /\ todo'[Main] = <<AsyncWait(Msg), Run>>
      BY <2>2, <2>7, <3>1, Tails DEF SetExpiry, State
    <3>3. ctx' = ctx /\ count' = count /\ executed' = executed
      BY <3>1 DEF SetExpiry
    <3>4. timer' = [timer EXCEPT !.at = n + 1]
      <4>1. Arg(Main).after = 1
        BY <2>3, <2>7, Tails DEF Arg, State
      <4>. QED
        BY <2>4, <3>1, <4>1 DEF SetExpiry
    <3>5. timer'.waiting = timer.waiting /\ timer'.at = n + 1
      BY <2>6, <3>4 DEF Timer
    <3>6. Due(Len(executed), count)'
      BY <2>5, <2>7, <3>3, <3>5 DEF Due
    <3>. QED
      BY <2>1, <2>7, <3>2, <3>3, <3>5, <3>6 DEF CallbackInv, State
  <2>8. CASE State(<<AsyncWait(Msg), Run>>, << >>, 0, FALSE) /\ Due(Len(executed), count)
    <3>1. StartWait(Main)
      BY <1>3, <2>1, <2>3, <2>8, Tails, Dispatch DEF State
    <3>2. Alone' /\ todo'[Main] = <<Run>> /\ count' = count /\ executed' = executed
      BY <2>2, <2>8, <3>1, Tails DEF StartWait, State
    <3>3. timer' = [timer EXCEPT !.waiting = TRUE, !.handler = Msg]
      <4>1. Arg(Main).handler = Msg
        BY <2>3, <2>8, Tails DEF Arg, State
      <4>. QED
        BY <3>1, <4>1 DEF StartWait, Armed
    <3>4. timer'.waiting = TRUE /\ timer'.at = timer.at /\ timer'.handler = Msg
      BY <2>6, <3>3 DEF Timer
    <3>5. ctx'.ready = ctx.ready /\ ctx'.stopped = ctx.stopped /\ ctx'.work = w + 1
      BY <2>4, <2>6, <3>1 DEF StartWait, Context
    <3>6. ctx'.work = 1
      BY <2>4, <2>8, <3>5 DEF State
    <3>. QED
      BY <2>1, <2>8, <3>2, <3>4, <3>5, <3>6 DEF CallbackInv, State, Due
  <2>9. CASE State(<<Run>>, << >>, 1, TRUE) /\ Due(Len(executed), count)
    <3>1. TakeHandler(Main) \/ ExpireTimer(Main) \/ RunReturns(Main)
      BY <1>3, <2>1, <2>3, <2>9, Tails, Dispatch DEF State
    <3>2. ExpireTimer(Main)
      BY <2>9, <3>1 DEF TakeHandler, RunReturns, State
    <3>3. Alone' /\ todo' = todo /\ count' = count /\ executed' = executed
      BY <3>2 DEF ExpireTimer, Alone, CallbackInv
    <3>4. timer'.waiting = FALSE /\ timer'.at = timer.at
      BY <2>6, <3>2 DEF ExpireTimer, Timer
    <3>5. ctx'.ready = <<Msg>> /\ ctx'.stopped = ctx.stopped /\ ctx'.work = ctx.work
      <4>1. Append(<< >>, Msg) = <<Msg>>
        OBVIOUS
      <4>2. ctx' = [ctx EXCEPT !.ready = <<Msg>>]
        BY <2>9, <3>2, <4>1 DEF ExpireTimer, Completed, State
      <4>. QED
        BY <2>6, <4>2 DEF Context
    <3>6. now >= count + 1
      <4>1. n >= a /\ a >= c + 1
        BY <2>4, <2>5, <2>9, <3>2 DEF ExpireTimer, Due
      <4>. QED
        BY <2>4, <2>5, <4>1
    <3>. QED
      BY <2>1, <2>9, <3>3, <3>4, <3>5, <3>6 DEF CallbackInv, State, Due
  <2>10. CASE /\ State(<<Run>>, <<Msg>>, 1, FALSE) /\ Due(Len(executed), count) /\ now >= count + 1
    <3>1. TakeHandler(Main) \/ ExpireTimer(Main) \/ RunReturns(Main)
      BY <1>3, <2>1, <2>3, <2>10, Tails, Dispatch DEF State
    <3>2. TakeHandler(Main)
      BY <2>10, <3>1 DEF ExpireTimer, RunReturns, State
    <3>3. Head(ctx.ready) = Msg /\ Tail(ctx.ready) = << >>
      BY <2>10 DEF State
    <3>4. Body(Msg) = <<Call("message")>> /\ Msg.name # "invoker" /\ Msg.n = 0
      BY DEF Body, Message, Msg, Handler
    <3>5. Alone' /\ todo'[Main] = <<Call("message"), Leave, Run>>
      <4>1. (<<Call("message")>> \o <<Leave>>) \o <<Run>> = <<Call("message"), Leave, Run>>
        BY Tails
      <4>2. todo' = [todo EXCEPT ![Main] = (<<Call("message")>> \o <<Leave>>) \o <<Run>>]
        BY <2>10, <3>2, <3>3, <3>4 DEF TakeHandler, First, State
      <4>. QED
        BY <4>1, <4>2, GoesOn DEF CallbackInv
    <3>6. timer' = timer /\ count' = count
      BY <3>2 DEF TakeHandler
    <3>7. ctx'.ready = << >> /\ ctx'.stopped = ctx.stopped /\ ctx'.work = ctx.work
      BY <2>6, <3>2, <3>3 DEF TakeHandler, Context
    <3>8. executed' \in Seq(Int) /\ Len(executed') = e + 1
      BY <2>5, <2>6, <3>2, <3>3, <3>4 DEF TakeHandler
    <3>9. Due(Len(executed) - 1, count)' /\ now' >= Len(executed')
      BY <2>1, <2>4, <2>5, <2>10, <3>6, <3>8 DEF Due
    <3>. QED
      BY <2>10, <3>5, <3>6, <3>7, <3>8, <3>9 DEF CallbackInv, State
  <2>11. CASE /\ State(<<Call("message"), Leave, Run>>, << >>, 1, FALSE)
              /\ Due(Len(executed) - 1, count)
    <3>1. CountMessage(Main)
      BY <1>3, <2>1, <2>3, <2>11, Tails, Dispatch DEF State
    <3>2. Alone' /\ todo'[Main] = <<Leave, Run>> /\ executed' = executed
      BY <2>2, <2>11, <3>1, Tails DEF CountMessage, State
    <3>3. e - 1 = c /\ c <= 5 /\ a >= c + 1
      BY <2>4, <2>5, <2>11 DEF Due
    <3>4. CASE c < 5
      <4>1. /\ count' = c + 1
            /\ timer' = [[timer EXCEPT !.waiting = TRUE, !.handler = Msg] EXCEPT !.at = @ + 1]
            /\ ctx' = [ctx EXCEPT !.work = w + 1]
        BY <2>4, <2>5, <3>1, <3>4 DEF CountMessage, Armed, Msg
      <4>2. timer'.waiting = TRUE /\ timer'.handler = Msg /\ timer'.at = a + 1
        BY <2>4, <2>6, <4>1 DEF Timer
      <4>3. ctx'.ready = ctx.ready /\ ctx'.stopped = ctx.stopped /\ ctx'.work = w + 1
        BY <2>6, <4>1 DEF Context
      <4>4. ctx'.work = 2
        BY <2>4, <2>11, <4>3 DEF State
      <4>5. Due(Len(executed), count)' /\ count' \in Int
        BY <2>5, <3>2, <3>3, <3>4, <4>1, <4>2 DEF Due
      <4>. QED
        BY <2>1, <2>11, <3>2, <4>2, <4>3, <4>4, <4>5 DEF CallbackInv, State
    <3>5. CASE ~(c < 5)
      <4>1. count' = count /\ timer' = timer /\ ctx' = ctx
        BY <2>5, <3>1, <3>5 DEF CountMessage
      <4>2. Len(executed') = 6 /\ count' = 5
        BY <2>5, <3>2, <3>3, <3>5, <4>1
      <4>. QED
        BY <2>1, <2>11, <3>2, <4>1, <4>2 DEF CallbackInv, State
    <3>. QED
      BY <3>4, <3>5
  <2>12. CASE State(<<Leave, Run>>, << >>, 2, TRUE) /\ Due(Len(executed), count)
    <3>1. LeaveHandler(Main)
      BY <1>3, <2>1, <2>3, <2>12, Tails, Dispatch DEF State
    <3>2. /\ Alone' /\ todo'[Main] = <<Run>> /\ executed' = executed /\ timer' = timer
          /\ count' = count
      BY <2>2, <2>12, <3>1, Tails DEF LeaveHandler, State
    <3>3. w = 2 /\ w # 1
      BY <2>4, <2>12 DEF State
    <3>4. ctx'.ready = ctx.ready /\ ctx'.stopped = ctx.stopped /\ ctx'.work = w - 1
      BY <2>4, <2>6, <3>1, <3>3 DEF LeaveHandler, WorkFinished, Context
    <3>5. ctx'.work = 1
      BY <3>3, <3>4
    <3>. QED
      BY <2>1, <2>12, <3>2, <3>4, <3>5 DEF CallbackInv, State, Due
  <2>13. CASE State(<<Leave, Run>>, << >>, 1, FALSE) /\ Len(executed) = 6 /\ count = 5
    <3>1. LeaveHandler(Main)
      BY <1>3, <2>1, <2>3, <2>13, Tails, Dispatch DEF State
    <3>2. /\ Alone' /\ todo'[Main] = <<Run>> /\ executed' = executed /\ timer' = timer
          /\ count' = count
      BY <2>2, <2>13, <3>1, Tails DEF LeaveHandler, State
    <3>3. ctx'.stopped = "spent"
      BY <2>6, <2>13, <3>1 DEF LeaveHandler, WorkFinished, Context, State
    <3>. QED
      BY <2>1, <2>13, <3>2, <3>3 DEF CallbackInv
  <2>14. CASE /\ M \in {<<Run>>, << >>} /\ ctx.stopped = "spent" /\ Len(executed) = 6 /\ count = 5
    <3>1. TakeHandler(Main) \/ ExpireTimer(Main) \/ RunReturns(Main)
      BY <1>3, <2>1, <2>3, <2>14, Tails, Dispatch
    <3>2. RunReturns(Main)
      BY <2>14, <3>1 DEF ExpireTimer, TakeHandler
    <3>3. Alone' /\ todo'[Main] = << >> /\ executed' = executed /\ count' = count
      BY <2>1, <2>2, <2>14, <3>2, Tails DEF RunReturns
    <3>4. ctx'.stopped = "spent"
      BY <2>6, <2>14, <3>2 DEF RunReturns, Context
    <3>. QED
      BY <2>1, <2>14, <3>3, <3>4 DEF CallbackInv
  <2>. QED
    BY <2>7, <2>8, <2>9, <2>10, <2>11, <2>12, <2>13, <2>14 DEF CallbackInv
<1>. QED
  BY <1>1, <1>2, <1>3 DEF Next

(* The timer that arms itself for ever.                                    *)

Again == Handler("timer_handler", 0)

\* A handler that has been started was late enough.
Paced == executed = << >> \/ Len(executed) + 2 <= now

\* The wait that is armed ends later than the last one.
Later == timer.at >= Len(executed) + 3

Wait(m, r, x) ==
    /\ todo[Main] = m /\ ctx.ready = r
    /\ timer.waiting = x /\ (x => timer.handler = Again)

ChainInv ==
    /\ Alone /\ executed \in Seq(Int) /\ now >= 0 /\ Paced
    /\ \/ /\ Wait(<<Expires(3), AsyncWait(Again), Run>>, << >>, FALSE)
          /\ executed = << >>
       \/ Wait(<<AsyncWait(Again), Run>>, << >>, FALSE) /\ Later
       \/ Wait(<<Run>>, << >>, TRUE) /\ Later
       \/ Wait(<<Run>>, <<Again>>, FALSE) /\ now >= Len(executed) + 3
       \/ /\ Wait(<<Expires(1), AsyncWait(Again), Leave, Run>>, << >>, FALSE)
          /\ Len(executed) + 2 <= now
       \/ Wait(<<AsyncWait(Again), Leave, Run>>, << >>, FALSE) /\ Later
       \/ Wait(<<Leave, Run>>, << >>, TRUE) /\ Later
       \/ todo[Main] = << >>

\* The expiry is behind the handlers that were started.
LEMMA ChainStep == ASSUME GInv, GInv', ChainInv, [Next]_vars PROVE ChainInv'
<1>1. CASE UNCHANGED vars
  BY <1>1 DEF vars, ChainInv, Alone, Wait, Paced, Later
<1>2. CASE Tick
  <2>1. now \in Int /\ now' = now + 1 /\ Len(executed) \in Nat
    BY <1>2 DEF Tick, GInv, TypeInv, ChainInv
  <2>2. /\ Len(executed) + 2 <= now => Len(executed) + 2 <= now'
        /\ now >= Len(executed) + 3 => now' >= Len(executed) + 3
        /\ now >= 0 => now' >= 0
    BY <2>1
  <2>3. UNCHANGED <<todo, ctx, timer, executed>>
    BY <1>2 DEF Tick
  <2>. QED
    BY <2>2, <2>3 DEF ChainInv, Alone, Wait, Paced, Later
<1>3. ASSUME NEW t \in Thread, ThreadStep(t) PROVE ChainInv'
  <2>. DEFINE M == todo[Main]
  <2>1. t = Main /\ M # << >> /\ now' = now
    BY <1>3, Dispatch DEF Alone, ChainInv, Main, Thread
  <2>2. \A m : Then(Main, m) => Alone' /\ todo'[Main] = m \o Tail(M)
    BY GoesOn DEF Then, ChainInv
  <2>3. /\ Expires(1).op = "expires" /\ Expires(3).op = "expires" /\ AsyncWait(Again).op = "async_wait"
        /\ Run.op = "run" /\ Leave.op = "leave"
        /\ AsyncWait(Again).handler = Again /\ Expires(1).after = 1 /\ Expires(3).after = 3
    BY DEF Expires, AsyncWait, Run, Leave, Call
  <2>4. PICK n \in Int, a \in Int, e \in Nat : n = now /\ a = timer.at /\ e = Len(executed)
    BY DEF GInv, TypeInv, Timer, ChainInv
  <2>5. ctx \in Context /\ timer \in Timer /\ executed \in Seq(Int) /\ Paced /\ now >= 0
    BY DEF GInv, TypeInv, ChainInv
  <2>6. executed' = executed => Paced' /\ now' >= 0
    BY <2>1, <2>5 DEF Paced
  <2>7. CASE Wait(<<Expires(3), AsyncWait(Again), Run>>, << >>, FALSE) /\ executed = << >>
    <3>1. SetExpiry(Main)
      BY <1>3, <2>1, <2>3, <2>7, Tails, Dispatch DEF Wait
    <3>2. Alone' /\ todo'[Main] = <<AsyncWait(Again), Run>> /\ ctx' = ctx /\ executed' = executed
      BY <2>2, <2>7, <3>1, Tails DEF SetExpiry, Wait
    <3>3. timer' = [timer EXCEPT !.at = n + 3]
      <4>1. Arg(Main).after = 3
        BY <2>3, <2>7, Tails DEF Arg, Wait
      <4>. QED
        BY <2>4, <3>1, <4>1 DEF SetExpiry
    <3>4. timer'.waiting = timer.waiting /\ timer'.at = n + 3
      BY <2>5, <3>3 DEF Timer
    <3>5. Later'
      <4>1. e = 0 /\ n >= 0
        BY <2>4, <2>5, <2>7
      <4>. QED
        BY <2>4, <3>2, <3>4, <4>1 DEF Later
    <3>. QED
      BY <2>5, <2>6, <2>7, <3>2, <3>4, <3>5 DEF ChainInv, Wait
  <2>8. CASE Wait(<<Expires(1), AsyncWait(Again), Leave, Run>>, << >>, FALSE) /\ Len(executed) + 2 <= now
    <3>1. SetExpiry(Main)
      BY <1>3, <2>1, <2>3, <2>8, Tails, Dispatch DEF Wait
    <3>2. Alone' /\ todo'[Main] = <<AsyncWait(Again), Leave, Run>> /\ ctx' = ctx /\ executed' = executed
      <4>1. << >> \o Tail(M) = <<AsyncWait(Again), Leave, Run>>
        BY <2>8, Tails DEF Wait
      <4>. QED
        BY <2>2, <3>1, <4>1 DEF SetExpiry
    <3>3. timer' = [timer EXCEPT !.at = n + 1]
      <4>1. Arg(Main).after = 1
        BY <2>3, <2>8, Tails DEF Arg, Wait
      <4>. QED
        BY <2>4, <3>1, <4>1 DEF SetExpiry
    <3>4. timer'.waiting = timer.waiting /\ timer'.at = n + 1
      BY <2>5, <3>3 DEF Timer
    <3>5. Later'
      <4>1. e + 2 <= n
        BY <2>4, <2>8
      <4>. QED
        BY <2>4, <3>2, <3>4, <4>1 DEF Later
    <3>. QED
      BY <2>5, <2>6, <2>8, <3>2, <3>4, <3>5 DEF ChainInv, Wait
  <2>9. ASSUME NEW r, r \in {<<Run>>, <<Leave, Run>>},
               Wait(M, << >>, FALSE), Later, Tail(M) = r, Head(M) = AsyncWait(Again)
        PROVE  ChainInv'
    <3>1. StartWait(Main)
      BY <1>3, <2>1, <2>3, <2>9, Dispatch
    <3>2. Alone' /\ todo'[Main] = r /\ executed' = executed
      <4>1. << >> \o r = r
        <5>1. Run \in Calls /\ Leave \in Calls
          BY DEF Run, Leave, Call, Calls, Special, Plain, Basic, Bare
        <5>2. \A c, d \in Calls : <<c>> \in Seq(Calls) /\ <<c, d>> \in Seq(Calls)
          OBVIOUS
        <5>3. <<Run>> \in Seq(Calls) /\ <<Leave, Run>> \in Seq(Calls)
          BY <5>1, <5>2, Zenon
        <5>4. r \in Seq(Calls)
          BY <2>9, <5>3
        <5>. QED
          BY <5>4, ConcatEmptySeq
      <4>. QED
        BY <2>2, <2>9, <3>1, <4>1 DEF StartWait
    <3>3. timer' = [timer EXCEPT !.waiting = TRUE, !.handler = Again]
      <4>1. Arg(Main).handler = Again
        BY <2>3, <2>9 DEF Arg
      <4>. QED
        BY <3>1, <4>1 DEF StartWait, Armed
    <3>4. timer'.waiting = TRUE /\ timer'.at = timer.at /\ timer'.handler = Again
      BY <2>5, <3>3 DEF Timer
    <3>5. ctx'.ready = ctx.ready
      BY <2>5, <3>1 DEF StartWait, Context
    <3>6. Later'
      BY <2>9, <3>2, <3>4 DEF Later
    <3>. QED
      BY <2>5, <2>6, <2>9, <3>2, <3>4, <3>5, <3>6 DEF ChainInv, Wait
  <2>10. CASE Wait(<<AsyncWait(Again), Run>>, << >>, FALSE) /\ Later
    <3>1. M = <<AsyncWait(Again), Run>> /\ Wait(M, << >>, FALSE)
      BY <2>10 DEF Wait
    <3>2. Tail(M) = <<Run>> /\ Head(M) = AsyncWait(Again)
      BY <3>1
    <3>. QED
      BY <2>9, <2>10, <3>1, <3>2
  <2>11. CASE Wait(<<AsyncWait(Again), Leave, Run>>, << >>, FALSE) /\ Later
    <3>1. M = <<AsyncWait(Again), Leave, Run>> /\ Wait(M, << >>, FALSE)
      BY <2>11 DEF Wait
    <3>2. Tail(M) = <<Leave, Run>> /\ Head(M) = AsyncWait(Again)
      BY <3>1
    <3>. QED
      BY <2>9, <2>11, <3>1, <3>2
  <2>12. CASE Wait(<<Run>>, << >>, TRUE) /\ Later
    <3>1. TakeHandler(Main) \/ ExpireTimer(Main) \/ RunReturns(Main)
      BY <1>3, <2>1, <2>3, <2>12, Tails, Dispatch DEF Wait
    <3>2. CASE RunReturns(Main)
      <4>1. Alone' /\ todo'[Main] = << >> /\ executed' = executed
        BY <2>2, <2>12, <3>2, Tails DEF RunReturns, Wait
      <4>. QED
        BY <2>5, <2>6, <4>1 DEF ChainInv
    <3>3. CASE ExpireTimer(Main)
      <4>1. Alone' /\ todo' = todo /\ executed' = executed
        BY <3>3 DEF ExpireTimer, Alone, ChainInv
      <4>2. timer'.waiting = FALSE
        BY <2>5, <3>3 DEF ExpireTimer, Timer
      <4>3. ctx'.ready = <<Again>>
        <5>1. Append(<< >>, Again) = <<Again>>
          OBVIOUS
        <5>2. ctx' = [ctx EXCEPT !.ready = <<Again>>]
          BY <2>12, <3>3, <5>1 DEF ExpireTimer, Completed, Wait
        <5>. QED
          BY <2>5, <5>2 DEF Context
      <4>4. now' >= Len(executed') + 3
        <5>1. n >= a /\ a >= e + 3
          BY <2>4, <2>12, <3>3 DEF ExpireTimer, Later
        <5>. QED
          BY <2>1, <2>4, <4>1, <5>1
      <4>. QED
        BY <2>5, <2>6, <2>12, <4>1, <4>2, <4>3, <4>4 DEF ChainInv, Wait
    <3>. QED
      BY <2>12, <3>1, <3>2, <3>3 DEF TakeHandler, Wait
  <2>13. CASE Wait(<<Run>>, <<Again>>, FALSE) /\ now >= Len(executed) + 3
    <3>1. TakeHandler(Main) \/ ExpireTimer(Main) \/ RunReturns(Main)
      BY <1>3, <2>1, <2>3, <2>13, Tails, Dispatch DEF Wait
    <3>2. CASE RunReturns(Main)
      <4>1. Alone' /\ todo'[Main] = << >> /\ executed' = executed
        BY <2>2, <2>13, <3>2, Tails DEF RunReturns, Wait
      <4>. QED
        BY <2>5, <2>6, <4>1 DEF ChainInv
    <3>3. CASE TakeHandler(Main)
      <4>1. Head(ctx.ready) = Again /\ Tail(ctx.ready) = << >>
        BY <2>13 DEF Wait
      <4>2. Body(Again) = <<Expires(1), AsyncWait(Again)>> /\ Again.name # "invoker" /\ Again.n = 0
        BY DEF Body, TimerHandler, Again, Handler
      <4>3. (<<Expires(1), AsyncWait(Again)>> \o <<Leave>>) \o <<Run>>
               = <<Expires(1), AsyncWait(Again), Leave, Run>>
        BY FourCalls
      <4>4. todo' = [todo EXCEPT ![Main] = (<<Expires(1), AsyncWait(Again)>> \o <<Leave>>) \o <<Run>>]
        BY <2>13, <3>3, <4>1, <4>2 DEF TakeHandler, First, Wait
      <4>5. Alone' /\ todo'[Main] = <<Expires(1), AsyncWait(Again), Leave, Run>>
        BY <4>3, <4>4, GoesOn DEF ChainInv
      <4>6. timer' = timer
        BY <3>3 DEF TakeHandler
      <4>7. ctx'.ready = << >>
        BY <2>5, <3>3, <4>1 DEF TakeHandler, Context
      <4>8. executed' \in Seq(Int) /\ Len(executed') = e + 1
        BY <2>4, <2>5, <3>3, <4>1, <4>2 DEF TakeHandler
      <4>9. Len(executed') + 2 <= now' /\ Paced' /\ now' >= 0
        BY <2>1, <2>4, <2>5, <2>13, <4>8 DEF Paced
      <4>. QED
        BY <2>13, <4>5, <4>6, <4>7, <4>8, <4>9 DEF ChainInv, Wait
    <3>. QED
      BY <2>13, <3>1, <3>2, <3>3 DEF ExpireTimer, Wait
  <2>14. CASE Wait(<<Leave, Run>>, << >>, TRUE) /\ Later
    <3>1. LeaveHandler(Main)
      BY <1>3, <2>1, <2>3, <2>14, Tails, Dispatch DEF Wait
    <3>2. /\ Alone' /\ todo'[Main] = <<Run>> /\ executed' = executed /\ timer' = timer
      BY <2>2, <2>14, <3>1, Tails DEF LeaveHandler, Wait
    <3>3. ctx'.ready = ctx.ready
      BY <2>5, <3>1, FinishesOne DEF LeaveHandler
    <3>. QED
      BY <2>5, <2>6, <2>14, <3>2, <3>3 DEF ChainInv, Wait, Later
  <2>. QED
    BY <2>1, <2>7, <2>8, <2>10, <2>11, <2>12, <2>13, <2>14 DEF ChainInv
<1>. QED
  BY <1>1, <1>2, <1>3 DEF Next

Repeating == {"Callback", "testCallback"}
Endless   == {"Chained", "chained_asynchronous_tasks"}

\* The pace of the timers
TimerInv ==
    /\ prog \in Repeating => CallbackInv
    /\ prog \in Endless => ChainInv

\* A timer that arms itself again invokes its handler once a second at the most;
\* the one that counts stops after six invocations.
THEOREM TimerPaceAlways == Spec => []TimerPace
<1>1. Init => GuardInductive /\ TimerInv
  <2>1. SUFFICES ASSUME Init PROVE GuardInductive /\ TimerInv
    OBVIOUS
  <2>2. GuardInductive
    BY <2>1, BInit, GInit, SizeAssumption DEF GuardInductive
  <2>3. Alone /\ todo[Main] = Program[prog]
    BY <2>1 DEF Init, Alone, Main, Thread
  <2>4. /\ ctx.ready = << >> /\ ctx.work = 0 /\ ctx.stopped = "no" /\ timer.waiting = FALSE
        /\ count = 0 /\ executed = << >> /\ now = 0
    BY <2>1 DEF Init
  <2>5. executed \in Seq(Int) /\ Len(executed) = 0 /\ now >= 0 /\ count \in Int
    BY <2>4
  <2>6. CASE prog \in Repeating
    <3>1. Program[prog] = <<Expires(1), AsyncWait(Msg), Run>>
      BY <2>6 DEF Repeating, Program, Callback, testCallback, Msg
    <3>. QED
      BY <2>2, <2>3, <2>4, <2>5, <2>6, <3>1 DEF TimerInv, CallbackInv, State, Repeating, Endless
  <2>7. CASE prog \in Endless
    <3>1. Program[prog] = <<Expires(3), AsyncWait(Again), Run>>
      BY <2>7 DEF Endless, Program, Chained, chained_asynchronous_tasks, Again
    <3>. QED
      BY <2>2, <2>3, <2>4, <2>5, <2>7, <3>1 DEF TimerInv, ChainInv, Wait, Paced, Repeating, Endless
  <2>. QED
    BY <2>2, <2>6, <2>7 DEF TimerInv
<1>2. GuardInductive /\ TimerInv /\ [Next]_vars => GuardInductive' /\ TimerInv'
  <2>1. SUFFICES ASSUME GuardInductive, TimerInv, [Next]_vars PROVE GuardInductive' /\ TimerInv'
    OBVIOUS
  <2>2. prog' = prog
    BY <2>1 DEF Next, Tick, ThreadStep, vars
  <2>3. GuardInductive'
    BY <2>1, <2>2, BStep, GStep DEF GuardInductive
  <2>4. prog \in Repeating \cup Endless => GInv /\ GInv'
    BY <2>1, <2>2, <2>3 DEF GuardInductive, Repeating, Endless, Backgrounds
  <2>. QED
    BY <2>1, <2>2, <2>3, <2>4, CallbackStep, ChainStep DEF TimerInv
<1>3. TimerInv => TimerPace
  <2>1. SUFFICES ASSUME TimerInv PROVE TimerPace
    OBVIOUS
  <2>2. prog \in Repeating => Len(executed) <= now /\ (Ended => Len(executed) = 6 /\ count = 5)
    <3>1. SUFFICES ASSUME CallbackInv PROVE Len(executed) <= now /\ (Ended => Len(executed) = 6 /\ count = 5)
      BY <2>1 DEF TimerInv
    <3>2. Ended => ~State(<<Expires(1), AsyncWait(Msg), Run>>, << >>, 0, FALSE)
                   /\ ~State(<<AsyncWait(Msg), Run>>, << >>, 0, FALSE)
                   /\ ~State(<<Run>>, << >>, 1, TRUE) /\ ~State(<<Run>>, <<Msg>>, 1, FALSE)
      BY DEF Ended, State
    <3>3. Ended => ~State(<<Call("message"), Leave, Run>>, << >>, 1, FALSE)
                   /\ ~State(<<Leave, Run>>, << >>, 2, TRUE) /\ ~State(<<Leave, Run>>, << >>, 1, FALSE)
      BY DEF Ended, State
    <3>. QED
      BY <3>1, <3>2, <3>3 DEF CallbackInv
  <2>3. prog \in Endless => Paced
    BY <2>1 DEF TimerInv, ChainInv
  <2>. QED
    BY <2>2, <2>3 DEF TimerPace, Repeating, Endless, Paced
<1>. QED
  BY <1>1, <1>2, <1>3, PTL DEF Spec

(* The strand.                                                             *)

Turn          == Call("turn")
LeavesStrand  == Call("leave_strand")

\* A thread takes its turn, or is inside of a handler of the strand.
InTurn == {<<Turn, Leave, Run>>, <<LeavesStrand, Turn, Leave, Run>>}

Turners == {t \in Thread : t # Main /\ todo[t] \in InTurn}

Others == \A t \in Thread : t # Main => todo[t] \in InTurn \cup {<< >>, <<Run>>, <<Leave, Run>>}

\* One turn is queued or taken while the strand is locked, and none while it is not.
OneTurn ==
    /\ \A u, v \in Turners : u = v
    /\ \/ ctx.ready = << >>
       \/ Len(ctx.ready) = 1 /\ ctx.ready[1].name = "invoker" /\ Turners = {}
    /\ ~strand.locked =>
          ctx.ready = << >> /\ Turners = {} /\ strand.turn = << >> /\ strand.next = << >>

\* The handlers of s are the posts number p + 1, p + 2, ...
Numbered(s, p) == \A k \in 1..Len(s) : s[k].name = "task" /\ s[k].n = p + k

\* What was started, then the turn, then what waits for the next one
Numbers ==
    /\ executed \in Seq(Int)
    /\ \A k \in 1..Len(executed) : executed[k] = k
    /\ Numbered(strand.turn, Len(executed))
    /\ Numbered(strand.next, Len(executed) + Len(strand.turn))

Posted == Len(executed) + Len(strand.turn) + Len(strand.next)

\* The main thread posts the handlers that follow, starts the threads and joins them.
Posting(s, p) ==
    \A k \in 1..Len(s) :
        \/ /\ s[k].op = "strand" /\ s[k].handler.name = "task" /\ s[k].handler.n = p + k
           /\ \A j \in 1..Len(s) : j < k => s[j].op = "strand"
        \/ s[k].op = "spawn" /\ s[k].thread # Main /\ s[k].body = <<Run>>
        \/ s[k].op = "join"

StrandInv ==
    /\ Others /\ OneTurn /\ Numbers
    /\ Posting(todo[Main], Posted)
    /\ ~timer.waiting

\* The next call of the main thread
LEMMA PostingTail ==
  ASSUME NEW s \in Seq(Calls), s # << >>, NEW p \in Nat, Posting(s, p)
  PROVE  /\ Head(s).op = "strand" =>
               Head(s).handler.name = "task" /\ Head(s).handler.n = p + 1 /\ Posting(Tail(s), p + 1)
         /\ Head(s).op = "spawn" => Head(s).thread # Main /\ Head(s).body = <<Run>>
         /\ Head(s).op \in {"spawn", "join"} => Posting(Tail(s), p)
         /\ Head(s).op \in {"strand", "spawn", "join"}
<1>. DEFINE u == Tail(s)
<1>1. /\ u \in Seq(Calls) /\ Head(s) = s[1]
      /\ Len(s) \in Nat \ {0} /\ Len(u) = Len(s) - 1
      /\ \A k \in 1..Len(u) : u[k] = s[k + 1]
  BY HeadTailProperties
<1>. HIDE DEF u
<1>2. 1 \in 1..Len(s) /\ \A k \in 1..Len(u) : k + 1 \in 1..Len(s) /\ 1 < k + 1 /\ p + (k + 1) = (p + 1) + k
  BY <1>1
<1>3. \A j, k \in 1..Len(u) : j < k => j + 1 < k + 1
  BY <1>1
<1>4. /\ Head(s).op = "strand" => Head(s).handler.name = "task" /\ Head(s).handler.n = p + 1
      /\ Head(s).op = "spawn" => Head(s).thread # Main /\ Head(s).body = <<Run>>
      /\ Head(s).op \in {"strand", "spawn", "join"}
  BY <1>1, <1>2 DEF Posting
<1>5. Posting(u, p + 1)
  <2>1. SUFFICES ASSUME NEW k \in 1..Len(u)
                 PROVE  \/ /\ u[k].op = "strand" /\ u[k].handler.name = "task"
                           /\ u[k].handler.n = (p + 1) + k
                           /\ \A j \in 1..Len(u) : j < k => u[j].op = "strand"
                        \/ u[k].op = "spawn" /\ u[k].thread # Main /\ u[k].body = <<Run>>
                        \/ u[k].op = "join"
    BY DEF Posting
  <2>2. u[k] = s[k + 1] /\ k + 1 \in 1..Len(s) /\ p + (k + 1) = (p + 1) + k
    BY <1>1, <1>2
  <2>3. CASE s[k + 1].op = "strand"
    <3>1. /\ s[k + 1].handler.name = "task" /\ s[k + 1].handler.n = p + (k + 1)
          /\ \A j \in 1..Len(s) : j < k + 1 => s[j].op = "strand"
      BY <2>2, <2>3 DEF Posting
    <3>2. ASSUME NEW j \in 1..Len(u), j < k PROVE u[j].op = "strand"
      <4>1. j + 1 \in 1..Len(s) /\ j + 1 < k + 1 /\ u[j] = s[j + 1]
        BY <1>1, <1>2, <1>3, <3>2
      <4>. QED
        BY <3>1, <4>1
    <3>. QED
      BY <2>2, <2>3, <3>1, <3>2
  <2>. QED
    BY <2>2, <2>3 DEF Posting
<1>6. ASSUME Head(s).op # "strand" PROVE Posting(u, p)
  <2>1. \A k \in 1..Len(u) : s[k + 1].op # "strand"
    BY <1>1, <1>2, <1>6 DEF Posting
  <2>. QED
    BY <1>1, <1>2, <2>1 DEF Posting
<1>. QED
  BY <1>4, <1>5, <1>6 DEF u

\* What a post brings
LEMMA NumberedMore ==
  ASSUME NEW S, NEW s \in Seq(S), NEW p \in Nat, Numbered(s, p)
  PROVE  /\ \A h \in S : h.name = "task" /\ h.n = p + Len(s) + 1 => Numbered(Append(s, h), p)
         /\ s # << >> => Head(s).name = "task" /\ Head(s).n = p + 1 /\ Numbered(Tail(s), p + 1)
<1>1. ASSUME NEW h \in S, h.name = "task", h.n = p + Len(s) + 1 PROVE Numbered(Append(s, h), p)
  <2>. DEFINE w == Append(s, h)
  <2>1. /\ Len(s) \in Nat /\ Len(w) = Len(s) + 1 /\ w[Len(s) + 1] = h
        /\ \A k \in 1..Len(s) : w[k] = s[k]
    BY AppendProperties
  <2>. HIDE DEF w
  <2>2. \A k \in 1..Len(w) : k \in 1..Len(s) \/ k = Len(s) + 1
    BY <2>1
  <2>3. p + (Len(s) + 1) = (p + Len(s)) + 1
    BY <2>1
  <2>4. Numbered(w, p)
    BY <1>1, <2>1, <2>2, <2>3 DEF Numbered
  <2>. QED
    BY <2>4 DEF w
<1>2. ASSUME s # << >> PROVE Head(s).name = "task" /\ Head(s).n = p + 1 /\ Numbered(Tail(s), p + 1)
  <2>1. /\ Head(s) = s[1] /\ Tail(s) \in Seq(S)
        /\ Len(s) \in Nat \ {0} /\ Len(Tail(s)) = Len(s) - 1
        /\ \A k \in 1..Len(Tail(s)) : Tail(s)[k] = s[k + 1]
    BY <1>2, HeadTailProperties
  <2>2. 1 \in 1..Len(s) /\ \A k \in 1..Len(Tail(s)) : k + 1 \in 1..Len(s) /\ p + (k + 1) = (p + 1) + k
    BY <2>1
  <2>. QED
    BY <2>1, <2>2 DEF Numbered
<1>. QED
  BY <1>1, <1>2

\* A thread but the main one makes a call.
LEMMA OneThread ==
  ASSUME StrandInv, NEW t \in Thread, t # Main, todo \in [Thread -> Seq(Calls)],
         NEW u, todo' = [todo EXCEPT ![t] = u],
         u \in InTurn \cup {<< >>, <<Run>>, <<Leave, Run>>}
  PROVE  /\ Others' /\ todo'[Main] = todo[Main]
         /\ u \in InTurn => Turners' = Turners \cup {t}
         /\ u \notin InTurn => Turners' = Turners \ {t}
<1>1. todo'[t] = u /\ \A v \in Thread : v # t => todo'[v] = todo[v]
  OBVIOUS
<1>2. Main \in Thread
  BY DEF Main, Thread
<1>3. Others' /\ todo'[Main] = todo[Main]
  BY <1>1, <1>2, Zenon DEF StrandInv, Others
<1>4. \A v : v \in Turners' <=> v \in Thread /\ v # Main /\ todo'[v] \in InTurn
  BY DEF Turners
<1>5. \A v : v \in Turners <=> v \in Thread /\ v # Main /\ todo[v] \in InTurn
  BY DEF Turners
<1>6. u \in InTurn => Turners' = Turners \cup {t}
  BY <1>1, <1>4, <1>5
<1>7. u \notin InTurn => Turners' = Turners \ {t}
  BY <1>1, <1>4, <1>5
<1>. QED
  BY <1>3, <1>6, <1>7

\* The main thread makes a call.
LEMMA MainCalls ==
  ASSUME StrandInv, todo \in [Thread -> Seq(Calls)], Then(Main, << >>), todo[Main] # << >>
  PROVE  Others' /\ todo'[Main] = Tail(todo[Main]) /\ Turners' = Turners
<1>1. Main \in Thread
  BY DEF Main, Thread
<1>2. Tail(todo[Main]) \in Seq(Calls)
  BY <1>1
<1>3. << >> \o Tail(todo[Main]) = Tail(todo[Main])
  BY <1>2, ConcatEmptySeq
<1>4. /\ todo'[Main] = Tail(todo[Main])
      /\ \A v \in Thread : v # Main => todo'[v] = todo[v]
  BY <1>1, <1>3 DEF Then
<1>. QED
  BY <1>4, Zenon DEF StrandInv, Others, Turners

\* The main thread posts, starts and joins.
LEMMA MainStep == ASSUME GInv, StrandInv, ThreadStep(Main) PROVE StrandInv'
<1>. DEFINE M == todo[Main]
            E == Len(executed)
            T == Len(strand.turn)
            N == Len(strand.next)
<1>1. /\ todo \in [Thread -> Seq(Calls)] /\ Main \in Thread /\ ctx \in Context /\ timer \in Timer
      /\ strand \in Strand
  BY DEF GInv, TypeInv, Main, Thread
<1>2. E \in Nat /\ T \in Nat /\ N \in Nat /\ Posted = E + T + N
  BY <1>1 DEF Strand, StrandInv, Numbers, Posted
<1>. HIDE DEF E, T, N
<1>3. M \in Seq(Calls) /\ M # << >> /\ Posted \in Nat
  <2>1. M # << >>
    BY Dispatch
  <2>. QED
    BY <1>1, <1>2, <2>1
<1>4. /\ Head(M).op = "strand" =>
           Head(M).handler.name = "task" /\ Head(M).handler.n = Posted + 1 /\ Posting(Tail(M), Posted + 1)
      /\ Head(M).op = "spawn" => Head(M).thread # Main /\ Head(M).body = <<Run>>
      /\ Head(M).op \in {"spawn", "join"} => Posting(Tail(M), Posted)
      /\ Head(M).op \in {"strand", "spawn", "join"}
  BY <1>3, PostingTail DEF StrandInv
<1>5. CASE Head(M).op = "join"
  <2>1. JoinThread(Main)
    BY <1>5, Dispatch
  <2>2. Others' /\ todo'[Main] = Tail(M) /\ Turners' = Turners
    BY <1>1, <1>3, <2>1, MainCalls DEF JoinThread
  <2>3. UNCHANGED <<ctx, strand, timer, executed>>
    BY <2>1 DEF JoinThread
  <2>. QED
    BY <1>4, <1>5, <2>2, <2>3 DEF StrandInv, OneTurn, Numbers, Numbered, Posted
<1>6. CASE Head(M).op = "spawn"
  <2>1. SpawnThread(Main)
    BY <1>6, Dispatch
  <2>2. UNCHANGED <<ctx, strand, timer, executed>>
    BY <2>1 DEF SpawnThread
  <2>3. todo' = [todo EXCEPT ![Main] = Tail(M), ![Head(M).thread] = <<Run>>]
    BY <1>4, <1>6, <2>1 DEF SpawnThread, Arg
  <2>4. /\ todo'[Main] = Tail(M)
        /\ \A v \in Thread : v # Main => todo'[v] = todo[v] \/ todo'[v] = <<Run>>
    BY <1>1, <1>4, <1>6, <2>3
  <2>5. Others'
    BY <2>4, Zenon DEF StrandInv, Others
  <2>6. <<Run>> \notin InTurn
    BY DEF InTurn
  <2>7. Turners' \subseteq Turners
    BY <2>4, <2>6 DEF Turners
  <2>8. OneTurn'
    BY <2>2, <2>7 DEF StrandInv, OneTurn
  <2>. QED
    BY <1>4, <1>6, <2>2, <2>4, <2>5, <2>8 DEF StrandInv, Numbers, Numbered, Posted
<1>7. CASE Head(M).op = "strand"
  <2>. DEFINE h == Head(M).handler
  <2>1. PostToStrand(Main)
    BY <1>7, Dispatch
  <2>2. Others' /\ todo'[Main] = Tail(M) /\ Turners' = Turners
    BY <1>1, <1>3, <2>1, MainCalls DEF PostToStrand
  <2>3. UNCHANGED <<timer, executed>>
    BY <2>1 DEF PostToStrand
  <2>4. h \in Handlers /\ h.name = "task" /\ h.n = Posted + 1 /\ Arg(Main).handler = h
    <3>1. Head(M) \in Calls
      BY <1>3, TailCalls
    <3>. QED
      BY <1>4, <1>7, <3>1 DEF Calls, Plain, Basic, Bare, Special, Arg
  <2>. HIDE DEF h
  <2>5. CASE strand.locked
    <3>1. strand' = [strand EXCEPT !.next = Append(strand.next, h)] /\ ctx' = ctx
      BY <2>1, <2>4, <2>5 DEF PostToStrand
    <3>2. strand'.locked = strand.locked /\ strand'.turn = strand.turn /\ strand'.next = Append(strand.next, h)
      BY <1>1, <3>1 DEF Strand
    <3>3. strand.next \in Seq(Handlers) /\ Len(strand.next) = N /\ Len(strand'.next) = N + 1
      BY <1>1, <3>2, AppendProperties DEF Strand, N
    <3>4. Numbered(strand'.next, E + T)
      <4>1. h.n = (E + T) + N + 1 /\ E + T \in Nat
        BY <1>2, <2>4
      <4>2. Numbered(strand.next, E + T)
        BY DEF StrandInv, Numbers, E, T
      <4>3. \A g \in Handlers : g.name = "task" /\ g.n = (E + T) + Len(strand.next) + 1
                                => Numbered(Append(strand.next, g), E + T)
        BY <3>3, <4>1, <4>2, NumberedMore
      <4>. QED
        BY <2>4, <3>2, <3>3, <4>1, <4>3
    <3>5. Posted' = Posted + 1
      <4>1. Posted' = E + T + (N + 1)
        BY <2>3, <3>2, <3>3 DEF Posted, E, T
      <4>. QED
        BY <1>2, <4>1
    <3>6. Numbers'
      BY <2>3, <3>2, <3>4 DEF StrandInv, Numbers, Numbered, E, T
    <3>7. OneTurn'
      BY <2>2, <2>5, <3>1, <3>2 DEF StrandInv, OneTurn
    <3>. QED
      BY <1>4, <1>7, <2>2, <2>3, <3>5, <3>6, <3>7 DEF StrandInv
  <2>6. CASE ~strand.locked
    <3>. DEFINE g == Handler("invoker", 0)
    <3>1. ctx.ready = << >> /\ Turners = {} /\ strand.turn = << >> /\ strand.next = << >>
      BY <2>6 DEF StrandInv, OneTurn
    <3>2. strand' = [strand EXCEPT !.locked = TRUE, !.turn = <<h>>] /\ ctx' = Queued(ctx, g)
      BY <2>1, <2>4, <2>6 DEF PostToStrand
    <3>3. strand'.locked = TRUE /\ strand'.turn = <<h>> /\ strand'.next = << >>
      BY <1>1, <3>1, <3>2 DEF Strand
    <3>4. T = 0 /\ N = 0 /\ Posted = E /\ Posted' = Posted + 1
      <4>1. T = 0 /\ N = 0 /\ Len(<<h>>) = 1
        BY <3>1 DEF T, N
      <4>2. Posted' = E + 1 + 0
        BY <2>3, <3>3 DEF Posted, E
      <4>. QED
        BY <1>2, <4>1, <4>2
    <3>5. Numbers'
      <4>1. Numbered(<<h>>, E)
        <5>1. \A k \in 1..Len(<<h>>) : k = 1 /\ <<h>>[k] = h
          OBVIOUS
        <5>. QED
          BY <2>4, <3>4, <5>1 DEF Numbered
      <4>2. Numbered(<< >>, E + 1)
        BY DEF Numbered
      <4>3. Len(<<h>>) = 1
        OBVIOUS
      <4>. QED
        BY <2>3, <3>3, <4>1, <4>2, <4>3 DEF StrandInv, Numbers, E
    <3>6. OneTurn'
      <4>1. ctx'.ready = <<[g EXCEPT !.guarded = ctx.guard]>>
        BY <1>1, <3>1, <3>2 DEF Queued, Context
      <4>2. Len(ctx'.ready) = 1 /\ ctx'.ready[1].name = "invoker"
        BY <4>1 DEF Handler
      <4>. QED
        BY <2>2, <3>1, <3>3, <4>2 DEF OneTurn
    <3>. QED
      BY <1>4, <1>7, <2>2, <2>3, <3>4, <3>5, <3>6 DEF StrandInv
  <2>. QED
    BY <2>5, <2>6
<1>. QED
  BY <1>4, <1>5, <1>6, <1>7

\* A call in front of the others
LEMMA InFront ==
  ASSUME NEW a, NEW b, NEW c, NEW d
  PROVE  <<a>> \o <<b, c, d>> = <<a, b, c, d>>
<1>. DEFINE S == {a, b, c, d}
<1>1. a \in S /\ b \in S /\ c \in S /\ d \in S
  OBVIOUS
<1>. HIDE DEF S
<1>. DEFINE q == <<a>>
            r == <<b, c, d>>
            u == <<a, b, c, d>>
<1>2. /\ q \in Seq(S) /\ r \in Seq(S) /\ u \in Seq(S)
      /\ Len(q) = 1 /\ Len(r) = 3 /\ Len(u) = 4
      /\ u[1] = q[1] /\ u[2] = r[1] /\ u[3] = r[2] /\ u[4] = r[3]
  BY <1>1
<1>. HIDE DEF q, r, u
<1>3. /\ q \o r \in Seq(S) /\ Len(q \o r) = 4
      /\ (q \o r)[1] = q[1] /\ (q \o r)[2] = r[1] /\ (q \o r)[3] = r[2] /\ (q \o r)[4] = r[3]
  <2>1. /\ q \o r \in Seq(S) /\ Len(q \o r) = Len(q) + Len(r)
        /\ \A i \in 1 .. Len(q) + Len(r) :
              (q \o r)[i] = IF i <= Len(q) THEN q[i] ELSE r[i - Len(q)]
    BY <1>2, ConcatProperties
  <2>2. /\ Len(q \o r) = 4
        /\ \A i \in 1..4 : (q \o r)[i] = IF i <= 1 THEN q[i] ELSE r[i - 1]
    BY <1>2, <2>1
  <2>. QED
    BY <2>1, <2>2
<1>4. \A k \in 1..4 : k = 1 \/ k = 2 \/ k = 3 \/ k = 4
  OBVIOUS
<1>5. \A k \in 1..Len(u) : (q \o r)[k] = u[k]
  BY <1>2, <1>3, <1>4
<1>6. q \o r = u
  BY <1>2, <1>3, <1>5, SeqEqual
<1>. QED
  BY <1>6 DEF q, r, u

\* The calls of a thread that has a turn
LEMMA TurnCalls ==
  /\ \A a, b, c, d : (<< >> \o <<a>>) \o <<b, c, d>> = <<a, b, c, d>>
  /\ Turn.op = "turn" /\ LeavesStrand.op = "leave_strand" /\ Leave.op = "leave" /\ Run.op = "run"
<1>1. ASSUME NEW a, NEW b, NEW c, NEW d PROVE (<< >> \o <<a>>) \o <<b, c, d>> = <<a, b, c, d>>
  <2>. DEFINE S == {a, b, c, d}
  <2>1. a \in S /\ b \in S /\ c \in S /\ d \in S
    OBVIOUS
  <2>. HIDE DEF S
  <2>2. <<a>> \in Seq(S) /\ <<b, c, d>> \in Seq(S) /\ <<a, b, c, d>> \in Seq(S)
    BY <2>1
  <2>3. << >> \o <<a>> = <<a>>
    BY <2>2, ConcatEmptySeq
  <2>4. <<a>> \o <<b, c, d>> = <<a, b, c, d>>
    BY InFront
  <2>. QED
    BY <2>3, <2>4
<1>2. Turn.op = "turn" /\ LeavesStrand.op = "leave_strand" /\ Leave.op = "leave" /\ Run.op = "run"
  BY DEF Turn, LeavesStrand, Leave, Run, Call
<1>. QED
  BY <1>1, <1>2

\* The other threads execute what was posted.
LEMMA OthersStep ==
  ASSUME GInv, StrandInv, NEW t \in Thread, t # Main, ThreadStep(t)
  PROVE  StrandInv'
<1>. DEFINE s == todo[t]
            E == Len(executed)
            T == Len(strand.turn)
            N == Len(strand.next)
<1>1. /\ todo \in [Thread -> Seq(Calls)] /\ ctx \in Context /\ timer \in Timer
      /\ strand \in Strand
  BY DEF GInv, TypeInv
<1>2. E \in Nat /\ T \in Nat /\ N \in Nat /\ Posted = E + T + N
  BY <1>1 DEF Strand, StrandInv, Numbers, Posted
<1>. HIDE DEF E, T, N
<1>3. s \in Seq(Calls) /\ s # << >>
  <2>1. s # << >>
    BY Dispatch
  <2>. QED
    BY <1>1, <2>1
<1>4. s \in InTurn \cup {<<Run>>, <<Leave, Run>>}
  BY <1>3 DEF StrandInv, Others
<1>5. \A u \in InTurn \cup {<< >>, <<Run>>, <<Leave, Run>>} :
         todo' = [todo EXCEPT ![t] = u]
         => /\ Others' /\ todo'[Main] = todo[Main]
            /\ u \in InTurn => Turners' = Turners \cup {t}
            /\ u \notin InTurn => Turners' = Turners \ {t}
  BY <1>1, OneThread
<1>6. <<Turn, Leave, Run>> \in InTurn /\ <<LeavesStrand, Turn, Leave, Run>> \in InTurn
      /\ << >> \notin InTurn /\ <<Run>> \notin InTurn /\ <<Leave, Run>> \notin InTurn
  BY DEF InTurn
<1>7. CASE s = <<Run>>
  <2>1. TakeHandler(t) \/ RunReturns(t)
    <3>1. Head(s).op = "run"
      BY <1>7, TurnCalls
    <3>. QED
      BY <3>1, Dispatch DEF StrandInv, ExpireTimer
  <2>2. CASE TakeHandler(t)
    <3>1. Len(ctx.ready) = 1 /\ ctx.ready[1].name = "invoker" /\ Turners = {}
      BY <2>2 DEF TakeHandler, StrandInv, OneTurn
    <3>2. Head(ctx.ready).name = "invoker" /\ Tail(ctx.ready) = << >>
      <4>1. ctx.ready \in Seq(Handlers) /\ ctx.ready # << >>
        BY <1>1, <3>1 DEF Context
      <4>2. Head(ctx.ready) = ctx.ready[1] /\ Len(Tail(ctx.ready)) = 0 /\ Tail(ctx.ready) \in Seq(Handlers)
        BY <3>1, <4>1, HeadTailProperties
      <4>. QED
        BY <3>1, <4>2, EmptySeq
    <3>3. todo' = [todo EXCEPT ![t] = <<Turn, Leave, Run>>]
      <4>1. Body(Head(ctx.ready)) = <<Turn>>
        BY <3>2 DEF Body, Turn
      <4>2. todo' = [todo EXCEPT ![t] = (<<Turn>> \o <<Leave>>) \o <<Run>>]
        BY <1>7, <2>2, <4>1 DEF TakeHandler, First
      <4>. QED
        BY <4>2, Tails
    <3>4. Others' /\ todo'[Main] = todo[Main] /\ Turners' = {t}
      BY <1>5, <1>6, <3>1, <3>3
    <3>5. UNCHANGED <<strand, timer, executed>>
      BY <2>2, <3>2 DEF TakeHandler
    <3>6. ctx'.ready = << >>
      BY <1>1, <2>2, <3>2 DEF TakeHandler, Context
    <3>7. strand.locked
      BY <2>2 DEF StrandInv, OneTurn, TakeHandler
    <3>8. OneTurn'
      BY <3>4, <3>5, <3>6, <3>7 DEF OneTurn
    <3>. QED
      BY <3>4, <3>5, <3>8 DEF StrandInv, Numbers, Numbered, Posted
  <2>3. CASE RunReturns(t)
    <3>1. todo' = [todo EXCEPT ![t] = << >>]
      <4>1. << >> \o Tail(s) = << >>
        BY <1>7, Tails
      <4>. QED
        BY <2>3, <4>1 DEF RunReturns, Then
    <3>2. Others' /\ todo'[Main] = todo[Main] /\ Turners' \subseteq Turners
      BY <1>5, <1>6, <3>1
    <3>3. UNCHANGED <<strand, timer, executed>> /\ ctx'.ready = ctx.ready
      BY <1>1, <2>3 DEF RunReturns, Context
    <3>4. OneTurn'
      BY <3>2, <3>3 DEF StrandInv, OneTurn
    <3>. QED
      BY <3>2, <3>3, <3>4 DEF StrandInv, Numbers, Numbered, Posted
  <2>. QED
    BY <2>1, <2>2, <2>3
<1>8. CASE s = <<Leave, Run>>
  <2>1. LeaveHandler(t)
    <3>1. Head(s).op = "leave"
      BY <1>8, TurnCalls
    <3>. QED
      BY <3>1, Dispatch
  <2>2. todo' = [todo EXCEPT ![t] = <<Run>>]
    <3>1. << >> \o Tail(s) = <<Run>>
      BY <1>8, Tails
    <3>. QED
      BY <2>1, <3>1 DEF LeaveHandler, Then
  <2>3. Others' /\ todo'[Main] = todo[Main] /\ Turners' \subseteq Turners
    BY <1>5, <1>6, <2>2
  <2>4. UNCHANGED <<strand, timer, executed>> /\ ctx'.ready = ctx.ready
    BY <1>1, <2>1, FinishesOne DEF LeaveHandler
  <2>5. OneTurn'
    BY <2>3, <2>4 DEF StrandInv, OneTurn
  <2>. QED
    BY <2>3, <2>4, <2>5 DEF StrandInv, Numbers, Numbered, Posted
<1>9. CASE s = <<LeavesStrand, Turn, Leave, Run>>
  <2>1. LeaveStrand(t)
    <3>1. Head(s).op = "leave_strand"
      BY <1>9, TurnCalls
    <3>. QED
      BY <3>1, Dispatch
  <2>2. todo' = [todo EXCEPT ![t] = <<Turn, Leave, Run>>]
    <3>1. << >> \o Tail(s) = <<Turn, Leave, Run>>
      BY <1>9, Tails
    <3>. QED
      BY <2>1, <3>1 DEF LeaveStrand, Then
  <2>3. t \in Turners
    BY <1>6, <1>9 DEF Turners
  <2>4. Others' /\ todo'[Main] = todo[Main] /\ Turners' = Turners
    BY <1>5, <1>6, <2>2, <2>3
  <2>5. UNCHANGED <<ctx, strand, timer, executed>>
    BY <2>1 DEF LeaveStrand
  <2>6. OneTurn'
    BY <2>4, <2>5 DEF StrandInv, OneTurn
  <2>. QED
    BY <2>4, <2>5, <2>6 DEF StrandInv, Numbers, Numbered, Posted
<1>10. CASE s = <<Turn, Leave, Run>>
  <2>1. TakeTurn(t) \/ EndTurn(t)
    <3>1. Head(s).op = "turn"
      BY <1>10, TurnCalls
    <3>. QED
      BY <3>1, Dispatch
  <2>2. t \in Turners /\ ctx.ready = << >> /\ strand.locked /\ \A u \in Turners : u = t
    <3>1. t \in Turners
      BY <1>6, <1>10 DEF Turners
    <3>. QED
      BY <3>1 DEF StrandInv, OneTurn
  <2>3. CASE TakeTurn(t)
    <3>. DEFINE h == Head(strand.turn)
    <3>1. strand.turn \in Seq(Handlers) /\ strand.turn # << >> /\ Len(strand.turn) = T
      BY <1>1, <2>3 DEF TakeTurn, Strand, T
    <3>2. h.name = "task" /\ h.n = E + 1 /\ Numbered(Tail(strand.turn), E + 1)
      <4>1. Numbered(strand.turn, E)
        BY DEF StrandInv, Numbers, E
      <4>. QED
        BY <1>2, <3>1, <4>1, NumberedMore
    <3>3. T \in Nat \ {0} /\ Len(Tail(strand.turn)) = T - 1
      BY <3>1
    <3>4. Body(h) = << >>
      BY <3>2 DEF Body
    <3>. HIDE DEF h
    <3>5. todo' = [todo EXCEPT ![t] = <<LeavesStrand, Turn, Leave, Run>>]
      <4>1. todo' = [todo EXCEPT ![t] = (<< >> \o <<LeavesStrand>>) \o <<Turn, Leave, Run>>]
        BY <1>10, <2>3, <3>4 DEF TakeTurn, First, h, LeavesStrand
      <4>. QED
        BY <4>1, TurnCalls
    <3>6. Others' /\ todo'[Main] = todo[Main] /\ Turners' = Turners
      BY <1>5, <1>6, <2>2, <3>5
    <3>7. /\ UNCHANGED <<ctx, timer>> /\ executed' = Append(executed, E + 1)
          /\ strand' = [strand EXCEPT !.turn = Tail(strand.turn)]
      BY <2>3, <3>2 DEF TakeTurn, h
    <3>8. /\ strand'.locked = strand.locked /\ strand'.turn = Tail(strand.turn)
          /\ strand'.next = strand.next
      BY <1>1, <3>7 DEF Strand
    <3>9. executed' \in Seq(Int) /\ Len(executed') = E + 1 /\ \A k \in 1..Len(executed') : executed'[k] = k
      <4>1. executed \in Seq(Int) /\ Len(executed) = E /\ \A k \in 1..E : executed[k] = k
        BY DEF StrandInv, Numbers, E
      <4>2. /\ executed' \in Seq(Int) /\ Len(executed') = E + 1 /\ executed'[E + 1] = E + 1
            /\ \A k \in 1..E : executed'[k] = executed[k]
        BY <1>2, <3>7, <4>1, AppendProperties
      <4>. QED
        BY <1>2, <4>1, <4>2
    <3>10. (E + 1) + (T - 1) = E + T /\ (E + 1) + (T - 1) + N = E + T + N
      BY <1>2
    <3>11. Numbers' /\ Posted' = Posted
      <4>1. Numbered(strand'.next, E + T)
        BY <3>8 DEF StrandInv, Numbers, E, T
      <4>2. Len(strand'.turn) = T - 1 /\ Len(strand'.next) = N
        BY <3>3, <3>8 DEF N
      <4>3. Posted' = (E + 1) + (T - 1) + N
        BY <3>9, <4>2 DEF Posted
      <4>. QED
        BY <1>2, <3>2, <3>8, <3>9, <3>10, <4>1, <4>2, <4>3 DEF Numbers, Numbered
    <3>12. OneTurn'
      BY <2>2, <3>6, <3>7, <3>8 DEF StrandInv, OneTurn
    <3>. QED
      BY <3>6, <3>7, <3>11, <3>12 DEF StrandInv
  <2>4. CASE EndTurn(t)
    <3>1. todo' = [todo EXCEPT ![t] = <<Leave, Run>>]
      <4>1. << >> \o Tail(s) = <<Leave, Run>>
        BY <1>10, Tails
      <4>. QED
        BY <2>4, <4>1 DEF EndTurn, Then
    <3>2. Others' /\ todo'[Main] = todo[Main] /\ Turners' = {}
      BY <1>5, <1>6, <2>2, <3>1
    <3>3. /\ UNCHANGED <<timer, executed>> /\ strand.turn = << >>
          /\ strand'.locked = (strand.next # << >>) /\ strand'.turn = strand.next /\ strand'.next = << >>
      BY <2>4 DEF EndTurn
    <3>4. Numbers' /\ Posted' = Posted
      <4>1. T = 0 /\ Len(strand'.turn) = N /\ Len(strand'.next) = 0
        BY <3>3 DEF T, N
      <4>2. E + T = E /\ E + N + 0 = E + T + N
        BY <1>2, <4>1
      <4>3. Numbered(strand'.turn, E)
        BY <3>3, <4>2 DEF StrandInv, Numbers, E, T
      <4>4. Numbered(strand'.next, E + N)
        BY <3>3 DEF Numbered
      <4>5. Posted' = E + N + 0
        BY <3>3, <4>1 DEF Posted, E
      <4>. QED
        BY <1>2, <3>3, <4>1, <4>2, <4>3, <4>4, <4>5 DEF StrandInv, Numbers, E
    <3>5. strand.next # << >> => Len(ctx'.ready) = 1 /\ ctx'.ready[1].name = "invoker"
      <4>. DEFINE g == Handler("invoker", 0)
      <4>1. SUFFICES ASSUME strand.next # << >> PROVE Len(ctx'.ready) = 1 /\ ctx'.ready[1].name = "invoker"
        OBVIOUS
      <4>2. ctx' = Queued(ctx, g)
        BY <2>4, <4>1 DEF EndTurn
      <4>3. ctx'.ready = <<[g EXCEPT !.guarded = ctx.guard]>>
        BY <1>1, <2>2, <4>2 DEF Queued, Context
      <4>. QED
        BY <4>3 DEF Handler
    <3>6. strand.next = << >> => ctx' = ctx
      BY <2>4 DEF EndTurn
    <3>7. OneTurn'
      BY <2>2, <3>2, <3>3, <3>5, <3>6 DEF OneTurn
    <3>. QED
      BY <3>2, <3>3, <3>4, <3>7 DEF StrandInv
  <2>. QED
    BY <2>1, <2>3, <2>4
<1>. QED
  BY <1>4, <1>7, <1>8, <1>9, <1>10 DEF InTurn

\* The n calls of a come before the m calls of b.
Joint(a, b, n, m) ==
    /\ a \o b \in Seq(Plain) /\ Len(a \o b) = n + m
    /\ \A k \in 1..n : (a \o b)[k] = a[k]
    /\ \A k \in 1..(n + m) : k > n => (a \o b)[k] = b[k - n]

\* One part of a program comes before another.
LEMMA Joined ==
  ASSUME NEW a, NEW b, NEW n, NEW m, a \in Seq(Plain), b \in Seq(Plain), n \in Nat, m \in Nat,
         Len(a) = n, Len(b) = m
  PROVE  Joint(a, b, n, m)
<1>. DEFINE u == a \o b
<1>1. /\ u \in Seq(Plain) /\ Len(u) = Len(a) + Len(b)
      /\ \A i \in 1 .. Len(a) + Len(b) : u[i] = IF i <= Len(a) THEN a[i] ELSE b[i - Len(a)]
  BY ConcatProperties
<1>. HIDE DEF u
<1>2. \A i \in 1 .. n + m : u[i] = IF i <= n THEN a[i] ELSE b[i - n]
  BY <1>1
<1>3. \A k \in 1..n : k \in 1..(n + m) /\ k <= n
  OBVIOUS
<1>4. \A k \in 1..(n + m) : k > n => ~(k <= n)
  OBVIOUS
<1>5. /\ \A k \in 1..n : u[k] = a[k]
      /\ \A k \in 1..(n + m) : k > n => u[k] = b[k - n]
  BY <1>2, <1>3, <1>4
<1>. QED
  BY <1>1, <1>5 DEF u, Joint

\* A thread that is still to be started has nothing to do, and is started once.
Unstarted ==
    \A k \in 1..Len(todo[Main]) : todo[Main][k].op = "spawn" =>
        /\ todo[Main][k].thread \in Thread /\ todo[todo[Main][k].thread] = << >>
        /\ \A j \in 1..Len(todo[Main]) :
              todo[Main][j].op = "spawn" /\ todo[Main][j].thread = todo[Main][k].thread => j = k

\* The posts are numbered from 1, and nothing has started.
LEMMA StrandInit ==
  ASSUME Init, SizeAssumption, prog = "Strand_Example"
  PROVE  StrandInv /\ Unstarted
<1>. DEFINE a == Each(Posts, StrandTask)
            b == Each(Runners, SpawnRunner)
            c == Each(Runners, Join)
            s == (a \o b) \o c
<1>1. todo[Main] = s /\ \A t \in Thread : t # Main => todo[t] = << >>
  <2>1. Program["Strand_Example"] = s
    BY DEF Program, Strand_Example
  <2>. QED
    BY <2>1 DEF Init, Main, Thread
<1>2. /\ a \in Seq(Plain) /\ b \in Seq(Plain) /\ c \in Seq(Plain)
  BY Loops DEF SizeAssumption
<1>3. /\ Posts \in Nat /\ Runners \in Nat /\ Len(a) = Posts /\ Len(b) = Runners /\ Len(c) = Runners
      /\ \A k \in 1..Posts : a[k] = StrandTask(k)
      /\ \A k \in 1..Runners : b[k] = SpawnRunner(k) /\ c[k] = Join(k)
  BY DEF Each, SizeAssumption
<1>. HIDE DEF a, b, c
<1>4. /\ a \o b \in Seq(Plain) /\ Len(a \o b) = Posts + Runners
      /\ \A k \in 1..Posts : (a \o b)[k] = a[k]
      /\ \A k \in 1..(Posts + Runners) : k > Posts => (a \o b)[k] = b[k - Posts]
  <2>1. Joint(a, b, Posts, Runners)
    BY <1>2, <1>3, Joined
  <2>. QED
    BY <1>3, <2>1 DEF Joint
<1>5. /\ Len(s) = (Posts + Runners) + Runners
      /\ \A k \in 1..(Posts + Runners) : s[k] = (a \o b)[k]
      /\ \A k \in 1..Len(s) : k > Posts + Runners => s[k] = c[k - (Posts + Runners)]
  <2>1. Posts + Runners \in Nat
    BY <1>3
  <2>2. Joint(a \o b, c, Posts + Runners, Runners)
    BY <1>2, <1>3, <1>4, <2>1, Joined
  <2>. QED
    BY <2>2 DEF Joint
<1>. HIDE DEF s
<1>6. Posting(s, 0)
  <2>1. \A k \in 1..Posts : k \in 1..(Posts + Runners) /\ s[k] = StrandTask(k)
    BY <1>3, <1>4, <1>5
  <2>2. SUFFICES ASSUME NEW k \in 1..Len(s)
                 PROVE  \/ /\ s[k].op = "strand" /\ s[k].handler.name = "task" /\ s[k].handler.n = 0 + k
                           /\ \A j \in 1..Len(s) : j < k => s[j].op = "strand"
                        \/ s[k].op = "spawn" /\ s[k].thread # Main /\ s[k].body = <<Run>>
                        \/ s[k].op = "join"
    BY DEF Posting
  <2>3. \A i \in Int : /\ StrandTask(i).op = "strand" /\ StrandTask(i).handler.name = "task"
                       /\ StrandTask(i).handler.n = i
                       /\ SpawnRunner(i).op = "spawn" /\ SpawnRunner(i).thread = i
                       /\ SpawnRunner(i).body = <<Run>>
                       /\ Join(i).op = "join"
    BY DEF StrandTask, PostStrand, Handler, SpawnRunner, Spawn, Join
  <2>4. CASE k <= Posts
    <3>1. k \in 1..Posts /\ \A j \in 1..Len(s) : j < k => j \in 1..Posts
      BY <1>3, <1>5, <2>4
    <3>. QED
      BY <2>1, <2>3, <3>1
  <2>5. CASE k > Posts /\ k <= Posts + Runners
    <3>1. k \in 1..(Posts + Runners) /\ k - Posts \in 1..Runners /\ k - Posts # Main
      BY <1>3, <1>5, <2>5 DEF Main
    <3>2. s[k] = SpawnRunner(k - Posts)
      BY <1>3, <1>4, <1>5, <2>5, <3>1
    <3>. QED
      BY <2>3, <3>1, <3>2
  <2>6. CASE k > Posts + Runners
    <3>1. k - (Posts + Runners) \in 1..Runners
      BY <1>3, <1>5, <2>6
    <3>2. s[k] = Join(k - (Posts + Runners))
      BY <1>3, <1>5, <2>6, <3>1
    <3>. QED
      BY <2>3, <3>1, <3>2
  <2>. QED
    BY <1>3, <1>5, <2>4, <2>5, <2>6
<1>7. /\ executed = << >> /\ strand.turn = << >> /\ strand.next = << >> /\ ctx.ready = << >>
      /\ timer.waiting = FALSE
  BY DEF Init
<1>8. Posted = 0
  BY <1>7 DEF Posted
<1>9. << >> \notin InTurn
  BY DEF InTurn
<1>10. Others /\ Turners = {}
  BY <1>1, <1>9 DEF Others, Turners
<1>11. ASSUME NEW k \in 1..Len(s), s[k].op = "spawn"
       PROVE  k - Posts \in 1..Runners /\ s[k].thread = k - Posts
  <2>1. /\ \A i : StrandTask(i).op = "strand" /\ Join(i).op = "join"
        /\ \A i : SpawnRunner(i).thread = i
    BY DEF StrandTask, PostStrand, Join, SpawnRunner, Spawn
  <2>2. CASE k <= Posts
    <3>1. k \in 1..Posts /\ k \in 1..(Posts + Runners)
      BY <1>3, <1>5, <2>2
    <3>2. s[k] = StrandTask(k)
      BY <1>3, <1>4, <1>5, <3>1
    <3>. QED
      BY <1>11, <2>1, <3>2
  <2>3. CASE k > Posts + Runners
    <3>1. k - (Posts + Runners) \in 1..Runners
      BY <1>3, <1>5, <2>3
    <3>2. s[k] = Join(k - (Posts + Runners))
      BY <1>3, <1>5, <2>3, <3>1
    <3>. QED
      BY <1>11, <2>1, <3>2
  <2>4. CASE k > Posts /\ k <= Posts + Runners
    <3>1. k \in 1..(Posts + Runners) /\ k - Posts \in 1..Runners
      BY <1>3, <1>5, <2>4
    <3>2. s[k] = SpawnRunner(k - Posts)
      BY <1>3, <1>4, <1>5, <2>4, <3>1
    <3>. QED
      BY <2>1, <3>1, <3>2
  <2>. QED
    BY <1>3, <1>5, <2>2, <2>3, <2>4
<1>12. Unstarted
  <2>1. SUFFICES ASSUME NEW k \in 1..Len(s), s[k].op = "spawn"
                 PROVE  /\ s[k].thread \in Thread /\ todo[s[k].thread] = << >>
                        /\ \A j \in 1..Len(s) : s[j].op = "spawn" /\ s[j].thread = s[k].thread => j = k
    BY <1>1 DEF Unstarted
  <2>2. k - Posts \in 1..Runners /\ s[k].thread = k - Posts
    BY <1>11, <2>1
  <2>3. s[k].thread \in Thread /\ s[k].thread # Main
    BY <1>3, <2>2 DEF Thread, Main
  <2>4. ASSUME NEW j \in 1..Len(s), s[j].op = "spawn", s[j].thread = s[k].thread PROVE j = k
    <3>1. j - Posts = k - Posts
      BY <1>11, <2>2, <2>4
    <3>. QED
      BY <1>3, <1>5, <3>1
  <2>. QED
    BY <1>1, <2>3, <2>4
<1>13. StrandInv
  BY <1>1, <1>6, <1>7, <1>8, <1>10 DEF StrandInv, OneTurn, Numbers, Numbered
<1>. QED
  BY <1>12, <1>13

\* The handlers of the strand come one at a time, in the order of their posts.
THEOREM StrandSerialAlways == Spec => []StrandSerial
<1>. DEFINE Inv == GuardInductive /\ (prog = "Strand_Example" => StrandInv)
<1>1. Init => Inv
  BY BInit, GInit, StrandInit, SizeAssumption DEF GuardInductive
<1>2. Inv /\ [Next]_vars => Inv'
  <2>1. SUFFICES ASSUME Inv, [Next]_vars PROVE Inv'
    OBVIOUS
  <2>2. prog' = prog
    BY <2>1 DEF Next, Tick, ThreadStep, vars
  <2>3. GuardInductive'
    BY <2>1, <2>2, BStep, GStep DEF GuardInductive
  <2>4. ASSUME prog = "Strand_Example" PROVE StrandInv'
    <3>1. GInv /\ StrandInv
      BY <2>1, <2>4 DEF GuardInductive, Backgrounds
    <3>2. CASE Tick \/ UNCHANGED vars
      <4>1. UNCHANGED <<todo, ctx, strand, timer, executed>>
        BY <3>2 DEF Tick, vars
      <4>. QED
        BY <3>1, <4>1 DEF StrandInv, Others, OneTurn, Turners, Numbers, Numbered, Posted
    <3>3. ASSUME NEW t \in Thread, ThreadStep(t) PROVE StrandInv'
      BY <3>1, <3>3, MainStep, OthersStep
    <3>. QED
      BY <2>1, <3>2, <3>3 DEF Next
  <2>. QED
    BY <2>2, <2>3, <2>4
<1>3. Inv => StrandSerial
  <2>1. SUFFICES ASSUME StrandInv, GInv
                 PROVE  /\ Cardinality({t \in Thread : At(t, "leave_strand")}) <= 1
                        /\ \A k \in DOMAIN executed : executed[k] = k
    BY DEF StrandSerial, GuardInductive, Backgrounds
  <2>2. \A k \in DOMAIN executed : executed[k] = k
    BY <2>1 DEF StrandInv, Numbers
  <2>. DEFINE A == {t \in Thread : At(t, "leave_strand")}
  <2>3. A \subseteq Turners
    <3>1. SUFFICES ASSUME NEW t \in Thread, At(t, "leave_strand") PROVE t # Main /\ todo[t] \in InTurn
      BY DEF Turners
    <3>2. todo[t] # << >> /\ Head(todo[t]).op = "leave_strand"
      BY <3>1 DEF At
    <3>3. CASE t = Main
      <4>1. todo[t] \in Seq(Calls) /\ Posting(todo[t], Posted)
        BY <2>1, <3>3 DEF GInv, TypeInv, StrandInv
      <4>2. 1 \in 1..Len(todo[t]) /\ Head(todo[t]) = todo[t][1]
        BY <3>2, <4>1, HeadTailProperties
      <4>. QED
        BY <3>2, <4>1, <4>2 DEF Posting
    <3>4. CASE t # Main
      <4>1. todo[t] \in InTurn \cup {<<Run>>, <<Leave, Run>>}
        BY <2>1, <3>2, <3>4 DEF StrandInv, Others
      <4>2. Head(<<Run>>) = Run /\ Head(<<Leave, Run>>) = Leave
        OBVIOUS
      <4>. QED
        BY <3>2, <3>4, <4>1, <4>2, TurnCalls
    <3>. QED
      BY <3>3, <3>4
  <2>4. \A u, v \in A : u = v
    BY <2>1, <2>3 DEF StrandInv, OneTurn
  <2>. HIDE DEF A
  <2>5. Cardinality(A) <= 1
    <3>1. CASE A = {}
      BY <3>1, FS_EmptySet
    <3>2. ASSUME NEW u \in A PROVE Cardinality(A) <= 1
      <4>1. A = {u}
        BY <2>4, <3>2
      <4>2. Cardinality(A) = 1
        BY <4>1, FS_Singleton
      <4>. QED
        BY <4>2
    <3>. QED
      BY <3>1, <3>2
  <2>. QED
    BY <2>2, <2>5 DEF A
<1>. QED
  BY <1>1, <1>2, <1>3, PTL DEF Spec

(* The future of a timer that is cancelled.                                *)

Promise  == Handler("promise", 0)
Sets(e)  == [op |-> "set", ec |-> e]
Cancel   == Call("cancel")
Get      == Call("get")

\* An expiry that was in time, unless the timer was cancelled before
Fine == now >= timer.at /\ (timer.cancelled = NoOne \/ timer.cancelled >= timer.at)

\* The expiry is reported, or it is going to be.
Success ==
    \/ fut = "value"
    \/ todo[1] = <<Sets("ok"), Leave, Run>>
    \/ \E k \in 1..Len(ctx.ready) : ctx.ready[k].ec = "ok"

\* The one other thread runs the handler.
Runs ==
    /\ \A t \in Thread : t # Main /\ t # 1 => todo[t] = << >>
    /\ todo[1] \in {<< >>, <<Run>>, <<Leave, Run>>,
                    <<Sets("ok"), Leave, Run>>, <<Sets("aborted"), Leave, Run>>}

Unarmed ==
    /\ todo[Main] \in {<<Expires(4), SpawnRunner(1), AsyncWait(Promise), Sleep(2), Cancel, Get, Join(1)>>,
                       <<SpawnRunner(1), AsyncWait(Promise), Sleep(2), Cancel, Get, Join(1)>>,
                       <<AsyncWait(Promise), Sleep(2), Cancel, Get, Join(1)>>}
    /\ ~Success /\ ~timer.waiting /\ timer.cancelled = NoOne

Pausing ==
    /\ \/ todo[Main] = <<Cancel, Get, Join(1)>>
       \/ \E c \in Calls : todo[Main] = <<c, Cancel, Get, Join(1)>> /\ c.op \in {"sleep", "asleep"}
    /\ timer.cancelled = NoOne

Cancelled ==
    /\ todo[Main] \in {<<Get, Join(1)>>, <<Join(1)>>, << >>}
    /\ ~timer.waiting

FutureInv ==
    /\ Runs
    /\ \A k \in 1..Len(ctx.ready) : ctx.ready[k].name = "promise"
    /\ Success => Fine
    /\ timer.waiting => timer.handler = Promise
    /\ Unarmed \/ Pausing \/ Cancelled

\* The calls of the main thread
LEMMA FutureCalls ==
  /\ \A a, b, c, d, e : /\ << >> \o Tail(<<a, b, c, d, e>>) = <<b, c, d, e>>
                        /\ Head(<<a, b, c, d, e>>) = a /\ <<a, b, c, d, e>> # << >>
  /\ \A a, b, c, d, e, f : /\ << >> \o Tail(<<a, b, c, d, e, f>>) = <<b, c, d, e, f>>
                           /\ Tail(<<a, b, c, d, e, f>>) = <<b, c, d, e, f>>
                           /\ Head(<<a, b, c, d, e, f>>) = a /\ <<a, b, c, d, e, f>> # << >>
  /\ \A a, b, c, d, e, f, g : /\ << >> \o Tail(<<a, b, c, d, e, f, g>>) = <<b, c, d, e, f, g>>
                              /\ Head(<<a, b, c, d, e, f, g>>) = a
                              /\ <<a, b, c, d, e, f, g>> # << >>
  /\ \A a, b, c, d : <<a>> \o Tail(<<a, b, c, d>>) = <<a, b, c, d>>
  /\ Expires(4).op = "expires" /\ SpawnRunner(1).op = "spawn" /\ AsyncWait(Promise).op = "async_wait"
  /\ SpawnRunner(1).thread = 1 /\ SpawnRunner(1).body = <<Run>> /\ AsyncWait(Promise).handler = Promise
  /\ Cancel.op = "cancel" /\ Get.op = "get" /\ Join(1).op = "join"
  /\ Sleep(2).op = "sleep" /\ Sleep(2) \in Calls
  /\ \A e : Sets(e).op = "set" /\ Sets(e).ec = e
  /\ Leave.op = "leave" /\ Run.op = "run"
<1>1. \A a, b, c, d, e : /\ << >> \o Tail(<<a, b, c, d, e>>) = <<b, c, d, e>>
                         /\ Head(<<a, b, c, d, e>>) = a /\ <<a, b, c, d, e>> # << >>
  OBVIOUS
<1>2. \A a, b, c, d, e, f : /\ << >> \o Tail(<<a, b, c, d, e, f>>) = <<b, c, d, e, f>>
                            /\ Tail(<<a, b, c, d, e, f>>) = <<b, c, d, e, f>>
                            /\ Head(<<a, b, c, d, e, f>>) = a /\ <<a, b, c, d, e, f>> # << >>
  OBVIOUS
<1>3. \A a, b, c, d, e, f, g : /\ << >> \o Tail(<<a, b, c, d, e, f, g>>) = <<b, c, d, e, f, g>>
                               /\ Head(<<a, b, c, d, e, f, g>>) = a
                               /\ <<a, b, c, d, e, f, g>> # << >>
  OBVIOUS
<1>4. \A a, b, c, d : <<a>> \o Tail(<<a, b, c, d>>) = <<a, b, c, d>>
  <2>1. SUFFICES ASSUME NEW a, NEW b, NEW c, NEW d
                 PROVE  <<a>> \o Tail(<<a, b, c, d>>) = <<a, b, c, d>>
    OBVIOUS
  <2>2. Tail(<<a, b, c, d>>) = <<b, c, d>>
    OBVIOUS
  <2>3. <<a>> \o <<b, c, d>> = <<a, b, c, d>>
    BY InFront
  <2>. QED
    BY <2>2, <2>3
<1>5. /\ Expires(4).op = "expires" /\ SpawnRunner(1).op = "spawn" /\ AsyncWait(Promise).op = "async_wait"
      /\ SpawnRunner(1).thread = 1 /\ SpawnRunner(1).body = <<Run>> /\ AsyncWait(Promise).handler = Promise
      /\ Cancel.op = "cancel" /\ Get.op = "get" /\ Join(1).op = "join"
      /\ Sleep(2).op = "sleep"
      /\ \A e : Sets(e).op = "set" /\ Sets(e).ec = e
      /\ Leave.op = "leave" /\ Run.op = "run"
  BY DEF Expires, SpawnRunner, Spawn, AsyncWait, Cancel, Get, Join, Sleep, Sets, Leave, Run, Call
<1>6. Sleep(2) \in Calls
  BY PlainCalls DEF Calls
<1>. QED
  BY <1>1, <1>2, <1>3, <1>4, <1>5, <1>6

\* The other thread runs the handler.
LEMMA PromiseStep ==
  ASSUME GInv, FutureInv, ThreadStep(1)
  PROVE  FutureInv'
<1>. DEFINE s == todo[1]
<1>1. /\ todo \in [Thread -> Seq(Calls)] /\ ctx \in Context /\ timer \in Timer
      /\ Main \in Thread /\ 1 \in Thread /\ 1 # Main
  BY DEF GInv, TypeInv, Main, Thread
<1>2. s # << >> /\ now' = now
  BY Dispatch
<1>3. ASSUME NEW u, u \in {<< >>, <<Run>>, <<Leave, Run>>, <<Sets("ok"), Leave, Run>>, <<Sets("aborted"), Leave, Run>>},
             todo' = [todo EXCEPT ![1] = u]
      PROVE  Runs' /\ todo'[Main] = todo[Main] /\ todo'[1] = u
  <2>1. todo'[1] = u /\ \A v \in Thread : v # 1 => todo'[v] = todo[v]
    BY <1>1, <1>3
  <2>. QED
    BY <1>1, <1>3, <2>1 DEF FutureInv, Runs
<1>4. ASSUME Runs', todo'[Main] = todo[Main], Success' => Success, timer' = timer,
             \A k \in 1..Len(ctx'.ready) : ctx'.ready[k].name = "promise"
      PROVE  FutureInv'
  <2>1. Success' => Fine'
    BY <1>2, <1>4 DEF FutureInv, Fine
  <2>2. Unarmed \/ Pausing \/ Cancelled => (Unarmed \/ Pausing \/ Cancelled)'
    BY <1>4 DEF Unarmed, Pausing, Cancelled
  <2>. QED
    BY <1>4, <2>1, <2>2 DEF FutureInv
<1>5. <<Sets("ok"), Leave, Run>> \notin {<< >>, <<Run>>, <<Leave, Run>>, <<Sets("aborted"), Leave, Run>>}
  <2>1. Sets("ok") # Sets("aborted")
    BY FutureCalls
  <2>. QED
    BY <2>1
<1>6. s \in {<<Run>>, <<Leave, Run>>, <<Sets("ok"), Leave, Run>>, <<Sets("aborted"), Leave, Run>>}
  BY <1>2 DEF FutureInv, Runs
<1>7. CASE s = <<Run>>
  <2>1. TakeHandler(1) \/ ExpireTimer(1) \/ RunReturns(1)
    <3>1. Head(s).op = "run"
      BY <1>7, FutureCalls
    <3>. QED
      BY <3>1, Dispatch
  <2>2. CASE TakeHandler(1)
    <3>. DEFINE h == Head(ctx.ready)
                r == Tail(ctx.ready)
    <3>1. /\ ctx.ready \in Seq(Handlers) /\ ctx.ready # << >> /\ h = ctx.ready[1]
          /\ Len(ctx.ready) \in Nat \ {0} /\ Len(r) = Len(ctx.ready) - 1
          /\ \A k \in 1..Len(r) : r[k] = ctx.ready[k + 1]
          /\ h \in Handlers
      BY <1>1, <2>2, HeadTailProperties DEF TakeHandler, Context
    <3>2. 1 \in 1..Len(ctx.ready) /\ \A k \in 1..Len(r) : k + 1 \in 1..Len(ctx.ready)
      BY <3>1
    <3>3. h.name = "promise" /\ h.ec \in {"ok", "aborted"}
      BY <3>1, <3>2 DEF FutureInv, Handlers, Outcome
    <3>4. ctx'.ready = r /\ timer' = timer /\ fut' = fut
      BY <1>1, <2>2 DEF TakeHandler, Context
    <3>5. todo' = [todo EXCEPT ![1] = <<Sets(h.ec), Leave, Run>>]
      <4>1. Body(h) = <<Sets(h.ec)>>
        BY <3>3 DEF Body, Sets
      <4>2. todo' = [todo EXCEPT ![1] = (<<Sets(h.ec)>> \o <<Leave>>) \o <<Run>>]
        BY <1>7, <2>2, <4>1 DEF TakeHandler, First
      <4>. QED
        BY <4>2, Tails
    <3>. HIDE DEF h, r
    <3>6. Runs' /\ todo'[Main] = todo[Main] /\ todo'[1] = <<Sets(h.ec), Leave, Run>>
      BY <1>3, <3>3, <3>5
    <3>7. Success' => Success
      <4>1. h.ec = "aborted" => todo'[1] # <<Sets("ok"), Leave, Run>>
        BY <1>5, <3>6
      <4>2. h.ec = "ok" => Success
        BY <3>1, <3>2 DEF Success
      <4>3. (\E k \in 1..Len(ctx'.ready) : ctx'.ready[k].ec = "ok") => Success
        BY <3>1, <3>2, <3>4 DEF Success
      <4>. QED
        BY <3>3, <3>4, <4>1, <4>2, <4>3 DEF Success
    <3>8. \A k \in 1..Len(ctx'.ready) : ctx'.ready[k].name = "promise"
      BY <3>1, <3>2, <3>4 DEF FutureInv
    <3>. QED
      BY <1>4, <3>4, <3>6, <3>7, <3>8
  <2>3. CASE ExpireTimer(1)
    <3>1. /\ UNCHANGED <<todo, fut>> /\ timer.waiting /\ now >= timer.at
          /\ ctx' = Completed(ctx, Promise) /\ timer' = [timer EXCEPT !.waiting = FALSE]
      BY <2>3 DEF ExpireTimer, FutureInv
    <3>2. timer'.waiting = FALSE /\ timer'.at = timer.at /\ timer'.cancelled = timer.cancelled
      BY <1>1, <3>1 DEF Timer
    <3>3. Pausing
      BY <3>1 DEF FutureInv, Unarmed, Cancelled
    <3>4. Fine'
      BY <1>2, <3>1, <3>2, <3>3 DEF Fine, Pausing
    <3>5. \A k \in 1..Len(ctx'.ready) : ctx'.ready[k].name = "promise"
      <4>1. ctx.ready \in Seq(Handlers) /\ ctx'.ready = Append(ctx.ready, Promise)
        BY <1>1, <3>1 DEF Completed, Context
      <4>2. /\ Len(ctx'.ready) = Len(ctx.ready) + 1 /\ Len(ctx.ready) \in Nat
            /\ ctx'.ready[Len(ctx.ready) + 1] = Promise
            /\ \A k \in 1..Len(ctx.ready) : ctx'.ready[k] = ctx.ready[k]
        BY <4>1
      <4>3. \A k \in 1..Len(ctx.ready) + 1 : k \in 1..Len(ctx.ready) \/ k = Len(ctx.ready) + 1
        BY <4>2
      <4>4. Promise.name = "promise"
        BY DEF Promise, Handler
      <4>. QED
        BY <4>2, <4>3, <4>4 DEF FutureInv
    <3>6. Runs' /\ Pausing'
      BY <3>1, <3>2, <3>3 DEF FutureInv, Runs, Pausing
    <3>. QED
      BY <3>2, <3>4, <3>5, <3>6 DEF FutureInv
  <2>4. CASE RunReturns(1)
    <3>1. todo' = [todo EXCEPT ![1] = << >>]
      <4>1. << >> \o Tail(s) = << >>
        BY <1>7, Tails
      <4>. QED
        BY <2>4, <4>1 DEF RunReturns, Then
    <3>2. ctx'.ready = ctx.ready /\ timer' = timer /\ fut' = fut
      BY <1>1, <2>4 DEF RunReturns, Context
    <3>3. Runs' /\ todo'[Main] = todo[Main] /\ todo'[1] = << >>
      BY <1>3, <3>1
    <3>4. Success' => Success
      BY <1>5, <3>2, <3>3 DEF Success
    <3>. QED
      BY <1>4, <3>2, <3>3, <3>4 DEF FutureInv
  <2>. QED
    BY <2>1, <2>2, <2>3, <2>4
<1>8. CASE s = <<Leave, Run>>
  <2>1. LeaveHandler(1)
    <3>1. Head(s).op = "leave"
      BY <1>8, FutureCalls
    <3>. QED
      BY <3>1, Dispatch
  <2>2. todo' = [todo EXCEPT ![1] = <<Run>>]
    <3>1. << >> \o Tail(s) = <<Run>>
      BY <1>8, Tails
    <3>. QED
      BY <2>1, <3>1 DEF LeaveHandler, Then
  <2>3. ctx'.ready = ctx.ready /\ timer' = timer /\ fut' = fut
    BY <1>1, <2>1, FinishesOne DEF LeaveHandler
  <2>4. Runs' /\ todo'[Main] = todo[Main] /\ todo'[1] = <<Run>>
    BY <1>3, <2>2
  <2>5. Success' => Success
    BY <1>5, <2>3, <2>4 DEF Success
  <2>. QED
    BY <1>4, <2>3, <2>4, <2>5 DEF FutureInv
<1>9. ASSUME NEW e \in {"ok", "aborted"}, s = <<Sets(e), Leave, Run>> PROVE FutureInv'
  <2>1. Settle(1) /\ Head(s) = Sets(e) /\ Head(s).op = "set"
    <3>1. Head(s) = Sets(e) /\ Sets(e).op = "set"
      BY <1>9, FutureCalls
    <3>. QED
      BY <3>1, Dispatch
  <2>2. todo' = [todo EXCEPT ![1] = <<Leave, Run>>] /\ ctx' = ctx /\ timer' = timer
    <3>1. << >> \o Tail(s) = <<Leave, Run>>
      BY <1>9, Tails
    <3>2. Then(1, << >>) /\ ctx' = ctx /\ timer' = timer
      BY <2>1 DEF Settle
    <3>. QED
      BY <3>1, <3>2 DEF Then
  <2>3. fut' = IF e = "ok" THEN "value" ELSE "error"
    <3>1. Arg(1).ec = e
      BY <2>1, FutureCalls DEF Arg
    <3>2. ~At(1, "get")
      BY <2>1 DEF At
    <3>. QED
      BY <2>1, <3>1, <3>2 DEF Settle
  <2>4. Runs' /\ todo'[Main] = todo[Main] /\ todo'[1] = <<Leave, Run>>
    BY <1>3, <2>2
  <2>5. Success' => Success
    <3>1. e = "ok" => Success
      BY <1>9 DEF Success
    <3>2. e # "ok" => fut' # "value"
      BY <2>3
    <3>. QED
      BY <1>5, <2>2, <2>4, <3>1, <3>2 DEF Success
  <2>. QED
    BY <1>4, <2>2, <2>4, <2>5 DEF FutureInv
<1>. QED
  BY <1>6, <1>7, <1>8, <1>9

\* The main thread arms the timer, waits and cancels it.
LEMMA CancelsStep ==
  ASSUME GInv, FutureInv, now >= 0, ThreadStep(Main)
  PROVE  FutureInv'
<1>. DEFINE M == todo[Main]
<1>1. /\ todo \in [Thread -> Seq(Calls)] /\ ctx \in Context /\ timer \in Timer /\ now \in Int
      /\ Main \in Thread /\ 1 \in Thread /\ 1 # Main
  BY DEF GInv, TypeInv, Main, Thread
<1>2. M # << >> /\ now' = now
  BY Dispatch
<1>3. ASSUME NEW u, todo' = [todo EXCEPT ![Main] = u]
      PROVE  todo'[Main] = u /\ todo'[1] = todo[1] /\ Runs'
  <2>1. todo'[Main] = u /\ \A v \in Thread : v # Main => todo'[v] = todo[v]
    BY <1>1, <1>3
  <2>. QED
    BY <1>1, <2>1 DEF FutureInv, Runs
<1>4. \A r : << >> \o Tail(M) = r /\ Then(Main, << >>) => todo' = [todo EXCEPT ![Main] = r]
  BY DEF Then
<1>5. CASE M = <<Expires(4), SpawnRunner(1), AsyncWait(Promise), Sleep(2), Cancel, Get, Join(1)>>
  <2>1. SetExpiry(Main) /\ << >> \o Tail(M) = <<SpawnRunner(1), AsyncWait(Promise), Sleep(2), Cancel, Get, Join(1)>>
    <3>1. Head(M).op = "expires"
      BY <1>5, FutureCalls
    <3>. QED
      BY <1>5, <3>1, Dispatch, FutureCalls
  <2>2. /\ todo' = [todo EXCEPT ![Main] = <<SpawnRunner(1), AsyncWait(Promise), Sleep(2), Cancel, Get, Join(1)>>]
        /\ UNCHANGED <<ctx, fut>> /\ timer' = [timer EXCEPT !.at = now + Arg(Main).after]
    BY <1>4, <2>1 DEF SetExpiry
  <2>3. /\ todo'[Main] = <<SpawnRunner(1), AsyncWait(Promise), Sleep(2), Cancel, Get, Join(1)>>
        /\ todo'[1] = todo[1] /\ Runs'
    BY <1>3, <2>2
  <2>4. timer'.waiting = timer.waiting /\ timer'.cancelled = timer.cancelled /\ timer'.handler = timer.handler
    BY <1>1, <2>2 DEF Timer
  <2>5. Unarmed
    BY <1>5 DEF FutureInv, Pausing, Cancelled
  <2>6. ~Success' /\ Unarmed'
    BY <2>2, <2>3, <2>4, <2>5 DEF Unarmed, Success
  <2>. QED
    BY <2>2, <2>3, <2>4, <2>6 DEF FutureInv
<1>6. CASE M = <<SpawnRunner(1), AsyncWait(Promise), Sleep(2), Cancel, Get, Join(1)>>
  <2>1. SpawnThread(Main) /\ Tail(M) = <<AsyncWait(Promise), Sleep(2), Cancel, Get, Join(1)>>
        /\ Arg(Main) = SpawnRunner(1)
    <3>1. Head(M) = SpawnRunner(1) /\ Head(M).op = "spawn"
      BY <1>6, FutureCalls
    <3>. QED
      BY <1>6, <3>1, Dispatch, FutureCalls DEF Arg
  <2>2. /\ todo' = [todo EXCEPT ![Main] = <<AsyncWait(Promise), Sleep(2), Cancel, Get, Join(1)>>, ![1] = <<Run>>]
        /\ UNCHANGED <<ctx, fut, timer>>
    BY <2>1, FutureCalls DEF SpawnThread
  <2>3. /\ todo'[Main] = <<AsyncWait(Promise), Sleep(2), Cancel, Get, Join(1)>> /\ todo'[1] = <<Run>>
        /\ \A v \in Thread : v # Main /\ v # 1 => todo'[v] = todo[v]
    BY <1>1, <2>2
  <2>4. Runs'
    BY <2>3 DEF FutureInv, Runs
  <2>5. Unarmed
    BY <1>6 DEF FutureInv, Pausing, Cancelled
  <2>6. <<Run>> # <<Sets("ok"), Leave, Run>>
    OBVIOUS
  <2>7. ~Success' /\ Unarmed'
    BY <2>2, <2>3, <2>5, <2>6 DEF Unarmed, Success
  <2>. QED
    BY <2>2, <2>4, <2>7 DEF FutureInv
<1>7. CASE M = <<AsyncWait(Promise), Sleep(2), Cancel, Get, Join(1)>>
  <2>1. StartWait(Main) /\ << >> \o Tail(M) = <<Sleep(2), Cancel, Get, Join(1)>> /\ Arg(Main).handler = Promise
    <3>1. Head(M) = AsyncWait(Promise) /\ Head(M).op = "async_wait"
      BY <1>7, FutureCalls
    <3>. QED
      BY <1>7, <3>1, Dispatch, FutureCalls DEF Arg
  <2>2. /\ todo' = [todo EXCEPT ![Main] = <<Sleep(2), Cancel, Get, Join(1)>>]
        /\ fut' = fut /\ timer' = [timer EXCEPT !.waiting = TRUE, !.handler = Promise]
        /\ ctx'.ready = ctx.ready
    BY <1>1, <1>4, <2>1 DEF StartWait, Armed, Context
  <2>3. todo'[Main] = <<Sleep(2), Cancel, Get, Join(1)>> /\ todo'[1] = todo[1] /\ Runs'
    BY <1>3, <2>2
  <2>4. timer'.cancelled = timer.cancelled /\ timer'.handler = Promise
    BY <1>1, <2>2 DEF Timer
  <2>5. Unarmed
    BY <1>7 DEF FutureInv, Pausing, Cancelled
  <2>6. ~Success'
    BY <2>2, <2>3, <2>5 DEF Unarmed, Success
  <2>7. Pausing'
    BY <2>3, <2>4, <2>5, FutureCalls DEF Unarmed, Pausing
  <2>. QED
    BY <2>2, <2>3, <2>4, <2>6, <2>7 DEF FutureInv
<1>8. ASSUME NEW c \in Calls, M = <<c, Cancel, Get, Join(1)>>, c.op \in {"sleep", "asleep"}
      PROVE  FutureInv'
  <2>1. Head(M) = c /\ Tail(M) = <<Cancel, Get, Join(1)>>
    BY <1>8
  <2>2. FallAsleep(Main) \/ WakeUp(Main)
    BY <1>8, <2>1, Dispatch
  <2>3. UNCHANGED <<ctx, fut, timer>>
    BY <2>2 DEF FallAsleep, WakeUp
  <2>4. Pausing
    <3>1. M # << >> /\ Head(M).op \in {"sleep", "asleep"}
      BY <1>8, <2>1
    <3>2. ~Unarmed
      BY <3>1, FutureCalls DEF Unarmed
    <3>3. ~Cancelled
      BY <3>1, FutureCalls DEF Cancelled
    <3>. QED
      BY <3>2, <3>3 DEF FutureInv
  <2>5. CASE WakeUp(Main)
    <3>1. todo' = [todo EXCEPT ![Main] = <<Cancel, Get, Join(1)>>]
      <4>1. << >> \o Tail(M) = <<Cancel, Get, Join(1)>>
        BY <1>8, Tails
      <4>. QED
        BY <1>4, <2>5, <4>1 DEF WakeUp
    <3>2. todo'[Main] = <<Cancel, Get, Join(1)>> /\ todo'[1] = todo[1] /\ Runs'
      BY <1>3, <3>1
    <3>3. Pausing' /\ (Success' => Success) /\ Fine' = Fine
      BY <1>2, <2>3, <2>4, <3>2 DEF Pausing, Success, Fine
    <3>. QED
      BY <2>3, <3>2, <3>3 DEF FutureInv
  <2>6. CASE FallAsleep(Main)
    <3>. DEFINE a == Asleep(Main)
    <3>1. a \in Calls /\ a.op = "asleep"
      <4>1. c.op = "sleep"
        BY <2>1, <2>6 DEF FallAsleep, At
      <4>2. PICK f \in Int : f = c.for
        BY <4>1 DEF Calls, Plain, Basic, Bare, Special
      <4>3. now + f \in Int /\ Arg(Main).for = f
        BY <1>1, <2>1, <4>2 DEF Arg
      <4>. QED
        BY <4>3 DEF Asleep, Calls, Plain, Basic
    <3>. HIDE DEF a
    <3>2. todo' = [todo EXCEPT ![Main] = <<a, Cancel, Get, Join(1)>>]
      <4>1. <<a>> \o Tail(M) = <<a, Cancel, Get, Join(1)>>
        BY <2>1, InFront
      <4>2. Then(Main, <<a>>)
        BY <2>6 DEF FallAsleep, a
      <4>. QED
        BY <4>1, <4>2 DEF Then
    <3>3. todo'[Main] = <<a, Cancel, Get, Join(1)>> /\ todo'[1] = todo[1] /\ Runs'
      BY <1>3, <3>2
    <3>4. Pausing' /\ (Success' => Success) /\ Fine' = Fine
      BY <1>2, <2>3, <2>4, <3>1, <3>3 DEF Pausing, Success, Fine
    <3>. QED
      BY <2>3, <3>3, <3>4 DEF FutureInv
  <2>. QED
    BY <2>2, <2>5, <2>6
<1>9. CASE M = <<Cancel, Get, Join(1)>>
  <2>1. CancelTimer(Main) /\ << >> \o Tail(M) = <<Get, Join(1)>>
    <3>1. Head(M) = Cancel
      BY <1>9, Tails
    <3>2. Head(M).op = "cancel"
      BY <3>1, FutureCalls
    <3>. QED
      BY <1>9, <3>2, Dispatch, Tails
  <2>2. /\ todo' = [todo EXCEPT ![Main] = <<Get, Join(1)>>] /\ fut' = fut
        /\ timer' = [timer EXCEPT !.waiting = FALSE, !.cancelled = now]
        /\ ctx' = IF timer.waiting
                  THEN Completed(ctx, [timer.handler EXCEPT !.ec = "aborted"]) ELSE ctx
    BY <1>4, <2>1 DEF CancelTimer
  <2>3. todo'[Main] = <<Get, Join(1)>> /\ todo'[1] = todo[1] /\ Runs'
    BY <1>3, <2>2
  <2>4. timer'.waiting = FALSE /\ timer'.cancelled = now /\ timer'.at = timer.at
    BY <1>1, <2>2 DEF Timer
  <2>5. /\ \A k \in 1..Len(ctx'.ready) : ctx'.ready[k].name = "promise"
        /\ (\E k \in 1..Len(ctx'.ready) : ctx'.ready[k].ec = "ok")
              => \E k \in 1..Len(ctx.ready) : ctx.ready[k].ec = "ok"
    <3>1. CASE ~timer.waiting
      BY <2>2, <3>1 DEF FutureInv
    <3>2. CASE timer.waiting
      <4>. DEFINE g == [Promise EXCEPT !.ec = "aborted"]
      <4>1. ctx' = Completed(ctx, g)
        BY <2>2, <3>2 DEF FutureInv
      <4>2. ctx.ready \in Seq(Handlers) /\ ctx'.ready = Append(ctx.ready, g)
        BY <1>1, <4>1 DEF Completed, Context
      <4>3. g.name = "promise" /\ g.ec = "aborted"
        BY DEF Promise, Handler
      <4>. HIDE DEF g
      <4>4. /\ Len(ctx'.ready) = Len(ctx.ready) + 1 /\ Len(ctx.ready) \in Nat
            /\ ctx'.ready[Len(ctx.ready) + 1] = g
            /\ \A k \in 1..Len(ctx.ready) : ctx'.ready[k] = ctx.ready[k]
        BY <4>2
      <4>5. \A k \in 1..Len(ctx.ready) + 1 : k \in 1..Len(ctx.ready) \/ k = Len(ctx.ready) + 1
        BY <4>4
      <4>. QED
        BY <4>3, <4>4, <4>5 DEF FutureInv
    <3>. QED
      BY <3>1, <3>2
  <2>6. Success' => Success
    BY <2>2, <2>3, <2>5 DEF Success
  <2>7. Success' => Fine'
    <3>1. Success => now >= timer.at
      BY DEF FutureInv, Fine
    <3>. QED
      BY <1>2, <2>4, <2>6, <3>1 DEF Fine
  <2>. QED
    BY <2>3, <2>4, <2>5, <2>7 DEF FutureInv, Cancelled
<1>10. ASSUME NEW r \in {<<Join(1)>>, << >>}, Then(Main, << >>), << >> \o Tail(M) = r, Cancelled,
              UNCHANGED <<ctx, timer, fut>>
       PROVE  FutureInv'
  <2>1. todo'[Main] = r /\ todo'[1] = todo[1] /\ Runs'
    BY <1>3, <1>4, <1>10
  <2>. QED
    BY <1>2, <1>10, <2>1 DEF FutureInv, Cancelled, Success, Fine
<1>11. CASE M = <<Get, Join(1)>> /\ Cancelled
  <2>1. Settle(Main) /\ << >> \o Tail(M) = <<Join(1)>> /\ Head(M).op = "get"
    <3>1. Head(M) = Get
      BY <1>11, Tails
    <3>2. Head(M).op = "get"
      BY <3>1, FutureCalls
    <3>. QED
      BY <1>11, <3>2, Dispatch, Tails
  <2>2. Then(Main, << >>) /\ UNCHANGED <<ctx, timer, fut>>
    BY <2>1 DEF Settle, At
  <2>. QED
    BY <1>10, <1>11, <2>1, <2>2
<1>12. CASE M = <<Join(1)>> /\ Cancelled
  <2>1. JoinThread(Main) /\ << >> \o Tail(M) = << >>
    <3>1. Head(M) = Join(1)
      BY <1>12, Tails
    <3>2. Head(M).op = "join"
      BY <3>1, FutureCalls
    <3>. QED
      BY <1>12, <3>2, Dispatch, Tails
  <2>2. Then(Main, << >>) /\ UNCHANGED <<ctx, timer, fut>>
    BY <2>1 DEF JoinThread
  <2>. QED
    BY <1>10, <1>12, <2>1, <2>2
<1>. QED
  <2>1. CASE Unarmed
    BY <1>5, <1>6, <1>7, <2>1 DEF Unarmed
  <2>2. CASE Pausing
    BY <1>8, <1>9, <2>2 DEF Pausing
  <2>3. CASE Cancelled
    BY <1>2, <1>11, <1>12, <2>3 DEF Cancelled
  <2>. QED
    BY <2>1, <2>2, <2>3 DEF FutureInv

\* A timer without a cancel() stays so.
LEMMA StaysUncancelled ==
  ASSUME NEW t, ThreadStep(t), ~At(t, "cancel"), timer \in Timer \cup BTimer
  PROVE  timer'.cancelled = timer.cancelled
<1>1. CASE timer' = timer
  BY <1>1
<1>2. ASSUME NEW v, timer' = [timer EXCEPT !.at = v] PROVE timer'.cancelled = timer.cancelled
  BY <1>2 DEF Timer, BTimer
<1>3. ASSUME NEW h, timer' = Armed(timer, h) PROVE timer'.cancelled = timer.cancelled
  BY <1>3 DEF Armed, Timer, BTimer
<1>4. ASSUME NEW h, timer' = [Armed(timer, h) EXCEPT !.at = @ + 1] PROVE timer'.cancelled = timer.cancelled
  BY <1>4 DEF Armed, Timer, BTimer
<1>5. ASSUME timer' = [timer EXCEPT !.waiting = FALSE] PROVE timer'.cancelled = timer.cancelled
  BY <1>5 DEF Timer, BTimer
<1>6. CASE SetExpiry(t) \/ StartWait(t) \/ CountMessage(t) \/ ExpireTimer(t)
  BY <1>1, <1>2, <1>3, <1>4, <1>5, <1>6 DEF SetExpiry, StartWait, CountMessage, ExpireTimer
<1>7. CASE SpawnThread(t) \/ JoinThread(t) \/ FallAsleep(t) \/ WakeUp(t) \/ LockMutex(t) \/ MakeGuard(t)
           \/ GuardReset(t) \/ StopContext(t) \/ PostHandler(t) \/ PostToStrand(t)
  BY <1>1, <1>7 DEF SpawnThread, JoinThread, FallAsleep, WakeUp, LockMutex, MakeGuard, GuardReset,
                    StopContext, PostHandler, PostToStrand
<1>8. CASE Settle(t) \/ TakeHandler(t) \/ LeaveHandler(t) \/ TakeTurn(t) \/ EndTurn(t) \/ LeaveStrand(t)
           \/ RunReturns(t)
  BY <1>1, <1>8 DEF Settle, TakeHandler, LeaveHandler, TakeTurn, EndTurn, LeaveStrand, RunReturns
<1>. QED
  BY <1>6, <1>7, <1>8 DEF ThreadStep, CancelTimer

Ordinary == prog # "Future_Exception_Handling" => timer.cancelled = NoOne

\* The program begins with an idle timer.
LEMMA FutureInit == ASSUME Init, prog = "Future_Exception_Handling" PROVE FutureInv
<1>1. /\ todo[Main] = <<Expires(4), SpawnRunner(1), AsyncWait(Promise), Sleep(2), Cancel, Get, Join(1)>>
      /\ \A t \in Thread : t # Main => todo[t] = << >>
      /\ 1 \in Thread /\ 1 # Main
  BY DEF Init, Main, Thread, Program, Future_Exception_Handling, SpawnRunner, Promise, Cancel, Get
<1>2. ctx.ready = << >> /\ fut = "pending" /\ timer.waiting = FALSE /\ timer.cancelled = NoOne
  BY DEF Init, NoOne
<1>3. todo[1] = << >> /\ << >> # <<Sets("ok"), Leave, Run>>
  BY <1>1
<1>4. ~Success
  BY <1>2, <1>3 DEF Success
<1>. QED
  BY <1>1, <1>2, <1>3, <1>4 DEF FutureInv, Runs, Unarmed

\* Every step of this program keeps what is known of the future.
LEMMA FutureStep == ASSUME GInv, FutureInv, now >= 0, [Next]_vars PROVE FutureInv'
<1>1. CASE UNCHANGED vars
  BY <1>1 DEF vars, FutureInv, Runs, Success, Fine, Unarmed, Pausing, Cancelled
<1>2. CASE Tick
  <2>1. now' = now + 1 /\ UNCHANGED <<todo, ctx, timer, fut>>
    BY <1>2 DEF Tick
  <2>2. timer \in Timer /\ now \in Int
    BY DEF GInv, TypeInv
  <2>3. (Success' => Success) /\ (Unarmed \/ Pausing \/ Cancelled => (Unarmed \/ Pausing \/ Cancelled)')
    BY <2>1 DEF Success, Unarmed, Pausing, Cancelled
  <2>4. Fine => Fine'
    BY <2>1, <2>2 DEF Fine, Timer
  <2>. QED
    BY <2>1, <2>3, <2>4 DEF FutureInv, Runs
<1>3. ASSUME NEW t \in Thread, ThreadStep(t) PROVE FutureInv'
  <2>1. todo[t] # << >>
    BY <1>3, Dispatch
  <2>2. t = Main \/ t = 1
    BY <2>1 DEF FutureInv, Runs
  <2>. QED
    BY <1>3, <2>2, CancelsStep, PromiseStep
<1>. QED
  BY <1>1, <1>2, <1>3 DEF Next

\* Time does not run backwards.
LEMMA NowStep == ASSUME now \in Int, now >= 0, [Next]_vars PROVE now' \in Int /\ now' >= 0
<1>1. now' = now \/ now' = now + 1
  BY Dispatch DEF Next, Tick, vars
<1>. QED
  BY <1>1

\* A cancel that comes before the expiry is never reported as an expired timer.
THEOREM CancelAlways == Spec => []CancelInTimeFails
<1>. DEFINE Inv == /\ GuardInductive /\ now \in Int /\ now >= 0 /\ Ordinary
                   /\ prog = "Future_Exception_Handling" => FutureInv
<1>1. Init => Inv
  <2>1. Init => GuardInductive
    BY BInit, GInit, SizeAssumption DEF GuardInductive
  <2>2. Init => now \in Int /\ now >= 0 /\ timer.cancelled = NoOne
    BY DEF Init, NoOne
  <2>. QED
    BY <2>1, <2>2, FutureInit DEF Ordinary
<1>2. Inv /\ [Next]_vars => Inv'
  <2>1. SUFFICES ASSUME Inv, [Next]_vars PROVE Inv'
    OBVIOUS
  <2>2. prog' = prog
    BY <2>1 DEF Next, Tick, ThreadStep, vars
  <2>3. GuardInductive'
    BY <2>1, <2>2, BStep, GStep DEF GuardInductive
  <2>4. now' \in Int /\ now' >= 0
    BY <2>1, NowStep
  <2>5. prog = "Future_Exception_Handling" => FutureInv'
    BY <2>1, FutureStep DEF GuardInductive, Backgrounds
  <2>6. ASSUME prog # "Future_Exception_Handling" PROVE timer'.cancelled = NoOne
    <3>1. CASE UNCHANGED timer
      BY <2>1, <2>6, <3>1 DEF Ordinary
    <3>2. ASSUME NEW t \in Thread, ThreadStep(t) PROVE timer'.cancelled = NoOne
      <4>1. todo[t] # << >>
        BY <3>2, Dispatch
      <4>2. ~At(t, "cancel")
        <5>1. CASE prog \in Backgrounds
          <6>1. BInv
            BY <2>1, <5>1 DEF GuardInductive
          <6>2. t = Main
            BY <4>1, <6>1 DEF BInv, Alone, Main, Thread
          <6>3. todo[Main] \in {<<Guard, Expires(1), AsyncWait(Expired), Run>>,
                               <<Expires(1), AsyncWait(Expired), Run>>, <<AsyncWait(Expired), Run>>,
                               <<Run>>, <<ResetGuard, Leave, Run>>, <<Leave, Run>>}
            BY <4>1, <6>1, <6>2, Zenon DEF BInv
          <6>4. Head(todo[Main]) \in {Guard, Expires(1), AsyncWait(Expired), Run, ResetGuard, Leave}
            BY <6>3
          <6>. QED
            BY <6>2, <6>4 DEF At, Guard, Expires, AsyncWait, Run, ResetGuard, Leave, Call
        <5>2. CASE prog \notin Backgrounds
          <6>1. GInv /\ todo[t] \in Seq(Calls) /\ ~Has(todo[t], "cancel")
            BY <2>1, <2>6, <5>2 DEF GuardInductive, GInv, TypeInv, NoCancel
          <6>. QED
            BY <4>1, <6>1, TailCalls DEF At
        <5>. QED
          BY <5>1, <5>2
      <4>3. timer \in Timer \cup BTimer
        BY <2>1 DEF GuardInductive, GInv, TypeInv, BInv, Fields
      <4>. QED
        BY <2>1, <2>6, <3>2, <4>2, <4>3, StaysUncancelled DEF Ordinary
    <3>. QED
      BY <2>1, <3>1, <3>2 DEF Next, Tick, vars
  <2>. QED
    BY <2>2, <2>3, <2>4, <2>5, <2>6 DEF Ordinary
<1>3. Inv => CancelInTimeFails
  <2>1. SUFFICES ASSUME Inv, timer.cancelled >= 0, timer.cancelled < timer.at, fut = "value" PROVE FALSE
    BY DEF CancelInTimeFails
  <2>2. timer.cancelled # NoOne
    BY <2>1 DEF NoOne
  <2>3. FutureInv /\ GInv
    BY <2>1, <2>2 DEF Ordinary, GuardInductive, Backgrounds
  <2>4. Fine /\ timer \in Timer
    BY <2>1, <2>3 DEF FutureInv, Success, GInv, TypeInv
  <2>. QED
    BY <2>1, <2>2, <2>4 DEF Fine, Timer
<1>. QED
  BY <1>1, <1>2, <1>3, PTL DEF Spec

(* What a thread has still to do, in the order in which it does it.        *)

\* No call of s is one of A.
Lacks(s, A) == \A c \in ToSet(s) : c.op \notin A

\* The calls of A are made before those of B.
Before(s, A, B) == \A j, k \in 1..Len(s) : s[j].op \in A /\ s[k].op \in B => j < k

\* The threads that have nothing to do with the io_context
Idle == {<<Sleep(1)>>, <<Sleep(2)>>}

\* Every other thread is joined after it was started.
Joins(s) ==
    \A k \in 1..Len(s) : s[k].op = "spawn" /\ s[k].body \notin Idle =>
        \E j \in 1..Len(s) : k < j /\ s[j] = Join(s[k].thread)

\* A sequence as the set of its elements
LEMMA Elements ==
  ASSUME NEW S, NEW s \in Seq(S)
  PROVE  /\ \A c : c \in ToSet(s) <=> \E k \in 1..Len(s) : c = s[k]
         /\ ToSet(s) \subseteq S
         /\ \A o : Has(s, o) <=> \E c \in ToSet(s) : c.op = o
         /\ \A A : Lacks(s, A) <=> \A k \in 1..Len(s) : s[k].op \notin A
<1>1. DOMAIN s = 1..Len(s)
  BY LenProperties
<1>2. \A c : c \in ToSet(s) <=> \E k \in 1..Len(s) : c = s[k]
  BY <1>1 DEF ToSet
<1>3. ToSet(s) \subseteq S
  BY <1>2, ElementOfSeq
<1>. QED
  BY <1>2, <1>3 DEF Has, Lacks

\* Without its first call
LEMMA TheRest ==
  ASSUME NEW S, NEW s \in Seq(S), s # << >>
  PROVE  /\ Tail(s) \in Seq(S) /\ Head(s) \in S
         /\ ToSet(s) = {Head(s)} \cup ToSet(Tail(s))
         /\ Joins(s) => /\ Joins(Tail(s))
                        /\ Head(s).op = "spawn" /\ Head(s).body \notin Idle =>
                              Join(Head(s).thread) \in ToSet(Tail(s))
         /\ \A A, B : Before(s, A, B) => /\ Before(Tail(s), A, B)
                                         /\ Head(s).op \in B => Lacks(Tail(s), A)
<1>. DEFINE u == Tail(s)
<1>1. /\ u \in Seq(S) /\ Head(s) = s[1] /\ Head(s) \in S
      /\ Len(s) \in Nat \ {0} /\ Len(u) = Len(s) - 1
      /\ \A k \in 1..Len(u) : u[k] = s[k + 1]
  BY HeadTailProperties
<1>. HIDE DEF u
<1>2. \A k \in 1..Len(u) : k + 1 \in 1..Len(s)
  BY <1>1
<1>3. 1 \in 1..Len(s) /\ \A k \in 1..Len(s) : k # 1 => k - 1 \in 1..Len(u) /\ s[k] = u[k - 1]
  BY <1>1
<1>4. ToSet(s) = {Head(s)} \cup ToSet(u)
  <2>1. \A c : c \in ToSet(s) <=> \E k \in 1..Len(s) : c = s[k]
    BY Elements
  <2>2. \A c : c \in ToSet(u) <=> \E k \in 1..Len(u) : c = u[k]
    BY <1>1, Elements
  <2>3. ASSUME NEW c \in ToSet(s) PROVE c \in {Head(s)} \cup ToSet(u)
    <3>1. PICK k \in 1..Len(s) : c = s[k]
      BY <2>1
    <3>. QED
      BY <1>1, <1>3, <2>2, <3>1
  <2>4. ASSUME NEW c \in ToSet(u) PROVE c \in ToSet(s)
    <3>1. PICK k \in 1..Len(u) : c = u[k]
      BY <2>2
    <3>. QED
      BY <1>1, <1>2, <2>1, <3>1
  <2>5. Head(s) \in ToSet(s)
    BY <1>1, <1>3, <2>1
  <2>. QED
    BY <2>3, <2>4, <2>5
<1>5. ASSUME Joins(s) PROVE Joins(u)
  <2>1. SUFFICES ASSUME NEW k \in 1..Len(u), u[k].op = "spawn", u[k].body \notin Idle
                 PROVE  \E j \in 1..Len(u) : k < j /\ u[j] = Join(u[k].thread)
    BY DEF Joins
  <2>2. k + 1 \in 1..Len(s) /\ s[k + 1] = u[k]
    BY <1>1, <1>2
  <2>3. PICK j \in 1..Len(s) : k + 1 < j /\ s[j] = Join(s[k + 1].thread)
    BY <1>5, <2>1, <2>2 DEF Joins
  <2>4. j - 1 \in 1..Len(u) /\ s[j] = u[j - 1] /\ k < j - 1
    BY <1>1, <1>3, <2>3
  <2>. QED
    BY <2>2, <2>3, <2>4
<1>6. ASSUME Joins(s), Head(s).op = "spawn", Head(s).body \notin Idle
      PROVE  Join(Head(s).thread) \in ToSet(u)
  <2>1. PICK j \in 1..Len(s) : 1 < j /\ s[j] = Join(s[1].thread)
    BY <1>1, <1>3, <1>6 DEF Joins
  <2>2. j - 1 \in 1..Len(u) /\ s[j] = u[j - 1]
    BY <1>3, <2>1
  <2>3. u[j - 1] \in ToSet(u)
    BY <1>1, <2>2, Elements
  <2>. QED
    BY <1>1, <2>1, <2>2, <2>3
<1>7. ASSUME NEW A, NEW B, Before(s, A, B)
      PROVE  Before(u, A, B) /\ (Head(s).op \in B => Lacks(u, A))
  <2>1. Before(u, A, B)
    <3>1. SUFFICES ASSUME NEW j \in 1..Len(u), NEW k \in 1..Len(u), u[j].op \in A, u[k].op \in B
                   PROVE  j < k
      BY DEF Before
    <3>2. j + 1 < k + 1
      BY <1>1, <1>2, <1>7, <3>1 DEF Before
    <3>. QED
      BY <3>2
  <2>2. ASSUME Head(s).op \in B, NEW k \in 1..Len(u), u[k].op \in A PROVE FALSE
    <3>1. k + 1 < 1
      BY <1>1, <1>2, <1>3, <1>7, <2>2 DEF Before
    <3>. QED
      BY <3>1
  <2>. QED
    BY <1>1, <2>1, <2>2, Elements
<1>8. \A A, B : Before(s, A, B) => Before(u, A, B) /\ (Head(s).op \in B => Lacks(u, A))
  BY <1>7
<1>9. Joins(s) => /\ Joins(u)
                  /\ Head(s).op = "spawn" /\ Head(s).body \notin Idle => Join(Head(s).thread) \in ToSet(u)
  BY <1>5, <1>6
<1>. QED
  BY <1>1, <1>4, <1>8, <1>9, Zenon DEF u

\* One after the other
LEMMA Together ==
  ASSUME NEW S, NEW a \in Seq(S), NEW s \in Seq(S)
  PROVE  /\ a \o s \in Seq(S)
         /\ ToSet(a \o s) = ToSet(a) \cup ToSet(s)
         /\ /\ Joins(s)
            /\ \A c \in ToSet(a) : c.op = "spawn" /\ c.body \notin Idle => Join(c.thread) \in ToSet(s)
            => Joins(a \o s)
         /\ Joins(a) /\ Lacks(s, {"spawn"}) => Joins(a \o s)
         /\ \A A, B : /\ Before(a, A, B) /\ Before(s, A, B)
                      /\ Lacks(a, B) \/ Lacks(s, A)
                      => Before(a \o s, A, B)
<1>. DEFINE u == a \o s
            n == Len(a)
<1>1. /\ u \in Seq(S) /\ Len(u) = n + Len(s) /\ n \in Nat /\ Len(s) \in Nat
      /\ \A k \in 1..n : u[k] = a[k]
      /\ \A k \in 1..Len(u) : k > n => u[k] = s[k - n]
  BY ConcatProperties
<1>. HIDE DEF u
<1>2. \A k \in 1..Len(u) : k \notin 1..n => k > n /\ k - n \in 1..Len(s) /\ u[k] = s[k - n]
  BY <1>1
<1>3. \A k \in 1..n : k \in 1..Len(u) /\ u[k] = a[k]
  BY <1>1
<1>4. \A k \in 1..Len(s) : k + n \in 1..Len(u) /\ u[k + n] = s[k] /\ k + n > n /\ k + n \notin 1..n
  <2>1. SUFFICES ASSUME NEW k \in 1..Len(s)
                 PROVE  k + n \in 1..Len(u) /\ u[k + n] = s[k] /\ k + n > n /\ k + n \notin 1..n
    OBVIOUS
  <2>2. k + n \in 1..Len(u) /\ k + n > n /\ (k + n) - n = k
    BY <1>1
  <2>. QED
    BY <1>1, <2>2
<1>5. /\ \A c : c \in ToSet(a) <=> \E k \in 1..n : c = a[k]
      /\ \A c : c \in ToSet(s) <=> \E k \in 1..Len(s) : c = s[k]
      /\ \A c : c \in ToSet(u) <=> \E k \in 1..Len(u) : c = u[k]
      /\ \A A : Lacks(a, A) <=> \A k \in 1..n : a[k].op \notin A
      /\ \A A : Lacks(s, A) <=> \A k \in 1..Len(s) : s[k].op \notin A
  BY <1>1, Elements
<1>6. ToSet(u) = ToSet(a) \cup ToSet(s)
  <2>1. ASSUME NEW c \in ToSet(u) PROVE c \in ToSet(a) \cup ToSet(s)
    <3>1. PICK k \in 1..Len(u) : c = u[k]
      BY <1>5
    <3>. QED
      BY <1>2, <1>3, <1>5, <3>1
  <2>2. ASSUME NEW c \in ToSet(a) PROVE c \in ToSet(u)
    BY <1>3, <1>5
  <2>3. ASSUME NEW c \in ToSet(s) PROVE c \in ToSet(u)
    <3>1. PICK k \in 1..Len(s) : c = s[k]
      BY <1>5
    <3>2. k + n \in 1..Len(u) /\ u[k + n] = c
      BY <1>4, <3>1
    <3>. QED
      BY <1>5, <3>2
  <2>. QED
    BY <2>1, <2>2, <2>3
<1>7. ASSUME Joins(s),
             \A c \in ToSet(a) : c.op = "spawn" /\ c.body \notin Idle => Join(c.thread) \in ToSet(s)
      PROVE  Joins(u)
  <2>1. SUFFICES ASSUME NEW k \in 1..Len(u), u[k].op = "spawn", u[k].body \notin Idle
                 PROVE  \E j \in 1..Len(u) : k < j /\ u[j] = Join(u[k].thread)
    BY DEF Joins
  <2>2. CASE k \in 1..n
    <3>1. Join(u[k].thread) \in ToSet(s)
      BY <1>3, <1>5, <1>7, <2>1, <2>2
    <3>2. PICK i \in 1..Len(s) : s[i] = Join(u[k].thread)
      BY <1>5, <3>1
    <3>3. i + n \in 1..Len(u) /\ u[i + n] = s[i] /\ k < i + n
      BY <1>1, <1>4, <2>2
    <3>. QED
      BY <3>2, <3>3
  <2>3. CASE k \notin 1..n
    <3>1. k - n \in 1..Len(s) /\ u[k] = s[k - n]
      BY <1>2, <2>3
    <3>2. PICK i \in 1..Len(s) : k - n < i /\ s[i] = Join(u[k].thread)
      BY <1>7, <2>1, <3>1 DEF Joins
    <3>3. i + n \in 1..Len(u) /\ u[i + n] = s[i] /\ k < i + n
      BY <1>1, <1>4, <3>2
    <3>. QED
      BY <3>2, <3>3
  <2>. QED
    BY <2>2, <2>3
<1>8. ASSUME Joins(a), Lacks(s, {"spawn"}) PROVE Joins(u)
  <2>1. SUFFICES ASSUME NEW k \in 1..Len(u), u[k].op = "spawn", u[k].body \notin Idle
                 PROVE  \E j \in 1..Len(u) : k < j /\ u[j] = Join(u[k].thread)
    BY DEF Joins
  <2>2. k \in 1..n
    BY <1>2, <1>5, <1>8, <2>1
  <2>3. PICK j \in 1..n : k < j /\ a[j] = Join(a[k].thread)
    BY <1>3, <1>8, <2>1, <2>2 DEF Joins
  <2>. QED
    BY <1>3, <2>2, <2>3
<1>9. ASSUME NEW A, NEW B, Before(a, A, B), Before(s, A, B), Lacks(a, B) \/ Lacks(s, A)
      PROVE  Before(u, A, B)
  <2>1. SUFFICES ASSUME NEW j \in 1..Len(u), NEW k \in 1..Len(u), u[j].op \in A, u[k].op \in B
                 PROVE  j < k
    BY DEF Before
  <2>2. CASE j \in 1..n /\ k \in 1..n
    BY <1>3, <1>9, <2>1, <2>2 DEF Before
  <2>3. CASE j \notin 1..n /\ k \notin 1..n
    <3>1. j - n < k - n
      BY <1>2, <1>9, <2>1, <2>3 DEF Before
    <3>. QED
      BY <1>1, <3>1
  <2>4. CASE j \in 1..n /\ k \notin 1..n
    BY <1>1, <1>2, <2>4
  <2>5. CASE j \notin 1..n /\ k \in 1..n
    <3>1. j - n \in 1..Len(s) /\ s[j - n].op \in A
      BY <1>2, <2>1, <2>5
    <3>2. a[k].op \in B
      BY <1>3, <2>1, <2>5
    <3>3. ~Lacks(s, A)
      BY <1>5, <3>1
    <3>4. ~Lacks(a, B)
      BY <1>5, <2>5, <3>2
    <3>. QED
      BY <1>9, <3>3, <3>4
  <2>. QED
    BY <2>2, <2>3, <2>4, <2>5
<1>. QED
  BY <1>1, <1>6, <1>7, <1>8, <1>9 DEF u

\* The programs whose handler starts a thread, and the one that waits for a future
Detachers == {"Main_Thread", "run_async_task"}
Future    == "Future_Exception_Handling"

\* The programs that never call run()
Runless == {"Experiments_Timer", "SimpleAsynchTest"}

\* The calls that bring a handler, and all that may queue one
Brings == {"post", "strand", "async_wait"}
Adding == Brings \cup {"message", "turn"}
Closing == {"leave", "run", "reset"}

\* Handlers that start no thread and leave stop() and the guard alone
CalmNames(p) ==
    {"task", "print", "slow", "pool_task", "timer_handler", "message", "promise"}
    \cup (IF p = "Strand_Example" THEN {"invoker"} ELSE {})

Calm(p) == {h \in Handlers : h.name \in CalmNames(p)}

\* A call of a handler, or of a thread that was started
MildCall(p, c) ==
    /\ c.op \in Brings => c.handler \in Calm(p) /\ ~c.handler.guarded
    /\ c.op \in {"strand", "turn"} => p = "Strand_Example"

OtherCall(p, c) == MildCall(p, c) /\ c.op \notin {"spawn", "join", "stop"}

\* What the threads are started with
BodiesOf(p) ==
    Idle \cup (IF p \in Runless THEN {} ELSE {<<Run>>})
    \cup (IF p = "runBackgroundTask" THEN {<<Sleep(1), Post(Handler("slow", 1))>>} ELSE {})

\* A call of the main thread
MainCall(p, c) ==
    /\ MildCall(p, c)
    /\ c.op = "spawn" => /\ c.thread # Main /\ c.body \in BodiesOf(p)
                         /\ p \notin Runless /\ c.thread = 1 => c.body = <<Run>>

\* What the tables have in common
TableOK(p, s) ==
    /\ \A c \in ToSet(s) : MainCall(p, c)
    /\ Joins(s)
    /\ p \in Runless => Lacks(s, Adding \cup {"run", "stop"})
    /\ p # Future =>
          /\ Before(s, Adding, Closing)
          /\ Before(s, {"spawn", "join", "run"}, {"stop"})
          /\ p \notin Runless => Has(s, "run") \/ SpawnRunner(1) \in ToSet(s)
    /\ p \notin {Future, "runBackgroundTask"} =>
          Has(s, "make_work_guard") \/ Before(s, Adding, {"spawn"})

\* Calls that are not there are in order.
LEMMA NoOrder ==
  ASSUME NEW S, NEW s \in Seq(S), NEW A, NEW B, Lacks(s, A) \/ Lacks(s, B)
  PROVE  Before(s, A, B)
<1>1. \A C : Lacks(s, C) <=> \A k \in 1..Len(s) : s[k].op \notin C
  BY Elements
<1>. QED
  BY <1>1 DEF Before

\* The programs of one thread
LEMMA OneThreadTable ==
  ASSUME NEW p, p \notin Runless, NEW s \in Seq(Calls), NEW n \in Nat \ {0}, Len(s) = n, s[n].op = "run",
         \A k \in 1..n : k # n =>
            /\ s[k].op \in {"post", "expires", "async_wait", "wait"}
            /\ s[k].op \in Brings => s[k].handler \in Calm(p) /\ ~s[k].handler.guarded
  PROVE  TableOK(p, s)
<1>1. /\ \A c : c \in ToSet(s) <=> \E k \in 1..n : c = s[k]
      /\ \A A : Lacks(s, A) <=> \A k \in 1..n : s[k].op \notin A
  BY Elements
<1>2. n \in 1..n
  OBVIOUS
<1>3. \A k \in 1..n : s[k].op \in {"post", "expires", "async_wait", "wait", "run"}
  OBVIOUS
<1>4. \A c \in ToSet(s) : MainCall(p, c)
  BY <1>1, <1>3 DEF MainCall, MildCall, Brings
<1>5. Lacks(s, {"spawn"}) /\ Lacks(s, {"stop"})
  BY <1>1, <1>3
<1>6. Joins(s)
  BY <1>3 DEF Joins
<1>7. Before(s, Adding, {"spawn"}) /\ Before(s, {"spawn", "join", "run"}, {"stop"})
  BY <1>5, NoOrder
<1>8. Before(s, Adding, Closing)
  <2>1. SUFFICES ASSUME NEW j \in 1..Len(s), NEW k \in 1..Len(s), s[j].op \in Adding, s[k].op \in Closing
                 PROVE  j < k
    BY DEF Before
  <2>2. k = n
    BY <1>3, <2>1 DEF Closing
  <2>3. j # n
    BY <2>1 DEF Adding, Brings
  <2>. QED
    BY <2>2, <2>3
<1>9. Has(s, "run")
  BY <1>2 DEF Has
<1>. QED
  BY <1>4, <1>6, <1>7, <1>8, <1>9 DEF TableOK

\* The handlers that the programs name
LEMMA CalmOnes ==
  /\ \A p, s : \A k \in Int : s \in CalmNames(p) => Handler(s, k) \in Calm(p) /\ ~Handler(s, k).guarded
  /\ \A p : {"task", "print", "slow", "pool_task", "timer_handler", "message", "promise"} \subseteq CalmNames(p)
  /\ \A h : Post(h).op = "post" /\ Post(h).handler = h
  /\ \A h : AsyncWait(h).op = "async_wait" /\ AsyncWait(h).handler = h
  /\ \A h : PostStrand(h).op = "strand" /\ PostStrand(h).handler = h
  /\ \A i : Expires(i).op = "expires" /\ Sleep(i).op = "sleep"
  /\ \A i : Join(i).op = "join" /\ Join(i).thread = i
  /\ \A i, b : Spawn(i, b).op = "spawn" /\ Spawn(i, b).thread = i /\ Spawn(i, b).body = b
  /\ \A o : Call(o).op = o
  /\ Run.op = "run" /\ Leave.op = "leave" /\ Guard.op = "make_work_guard" /\ ResetGuard.op = "reset"
<1>1. \A p, s : s \in CalmNames(p) => s \in Names
  BY DEF CalmNames, Names
<1>2. \A p, s : \A k \in Int : s \in CalmNames(p) => Handler(s, k) \in Calm(p) /\ ~Handler(s, k).guarded
  BY <1>1, PlainCalls DEF Calm, Handler
<1>3. \A p : {"task", "print", "slow", "pool_task", "timer_handler", "message", "promise"} \subseteq CalmNames(p)
  BY DEF CalmNames
<1>4. /\ \A h : Post(h).op = "post" /\ Post(h).handler = h
      /\ \A h : AsyncWait(h).op = "async_wait" /\ AsyncWait(h).handler = h
      /\ \A h : PostStrand(h).op = "strand" /\ PostStrand(h).handler = h
  BY DEF Post, AsyncWait, PostStrand
<1>5. /\ \A i : Expires(i).op = "expires" /\ Sleep(i).op = "sleep"
      /\ \A i : Join(i).op = "join" /\ Join(i).thread = i
      /\ \A i, b : Spawn(i, b).op = "spawn" /\ Spawn(i, b).thread = i /\ Spawn(i, b).body = b
  BY DEF Expires, Sleep, Join, Spawn
<1>6. /\ \A o : Call(o).op = o
      /\ Run.op = "run" /\ Leave.op = "leave" /\ Guard.op = "make_work_guard" /\ ResetGuard.op = "reset"
  BY DEF Call, Run, Leave, Guard, ResetGuard
<1>. QED
  BY <1>2, <1>3, <1>4, <1>5, <1>6

OneThreaded ==
    {"example_1", "getExecutor", "Post_vs_Dispatch", "post_vs_dispatch_task", "Chained",
     "chained_asynchronous_tasks", "run_single_thread", "Timeouts_SimpleTest", "Timer_Async",
     "Callback", "testCallback"}

\* They are such programs.
LEMMA OneThreadTables ==
  ASSUME SizeAssumption, NEW p \in OneThreaded
  PROVE  TableOK(p, Program[p])
<1>1. Program[p] \in Seq(Calls) /\ p \notin Runless
  <2>1. p \in Unguarded
    BY DEF OneThreaded, Unguarded
  <2>2. Program[p] \in Seq(Plain)
    BY <2>1, UnguardedPrograms
  <2>3. Seq(Plain) \subseteq Seq(Calls)
    BY DEF Calls
  <2>4. p \notin Runless
    BY DEF OneThreaded, Runless
  <2>. QED
    BY <2>2, <2>3, <2>4, Zenon
<1>. DEFINE s == Program[p]
<1>2. /\ \A c, d : Len(<<c, d>>) = 2 /\ <<c, d>>[1] = c /\ <<c, d>>[2] = d
      /\ \A c, d, e : Len(<<c, d, e>>) = 3 /\ <<c, d, e>>[1] = c /\ <<c, d, e>>[2] = d /\ <<c, d, e>>[3] = e
      /\ \A c, d, e, f : /\ Len(<<c, d, e, f>>) = 4 /\ <<c, d, e, f>>[1] = c /\ <<c, d, e, f>>[2] = d
                         /\ <<c, d, e, f>>[3] = e /\ <<c, d, e, f>>[4] = f
  OBVIOUS
<1>. DEFINE Good(c) == /\ c.op \in {"post", "expires", "async_wait", "wait"}
                       /\ c.op \in Brings => c.handler \in Calm(p) /\ ~c.handler.guarded
<1>3. /\ \A n \in {"task", "slow"}, k \in {1, 2} : Good(Post(Handler(n, k)))
      /\ \A n \in {"print", "message", "timer_handler"} : Good(AsyncWait(Handler(n, 0)))
      /\ \A i : Good(Expires(i)) /\ Good(Call("wait"))
  BY CalmOnes DEF Brings
<1>. HIDE DEF Good
<1>4. CASE p \in {"example_1"}
  <2>1. s = <<Post(Handler("task", 1)), Run>>
    BY <1>4 DEF Program, example_1
  <2>2. Len(s) = 2 /\ s[1] = Post(Handler("task", 1)) /\ s[2] = Run
    BY <1>2, <2>1
  <2>. HIDE DEF s
  <2>3. Good(s[1]) /\ s[2].op = "run"
    BY <1>3, <2>2, CalmOnes
  <2>4. PICK n \in Nat \ {0} : n = 2
    OBVIOUS
  <2>5. \A k \in 1..n : k # n => Good(s[k])
    BY <2>3, <2>4
  <2>. QED
    BY <1>1, <2>2, <2>3, <2>4, <2>5, OneThreadTable DEF Good, s
<1>5. CASE p \in {"Post_vs_Dispatch", "post_vs_dispatch_task", "getExecutor", "Chained",
                  "chained_asynchronous_tasks", "run_single_thread", "Timeouts_SimpleTest",
                  "Callback", "testCallback"}
  <2>1. \E c, d : s = <<c, d, Run>> /\ Good(c) /\ Good(d)
    BY <1>3, <1>5 DEF Program, Post_vs_Dispatch, post_vs_dispatch_task, getExecutor, Chained,
              chained_asynchronous_tasks, run_single_thread, Timeouts_SimpleTest, Callback,
              testCallback, PostTask
  <2>. HIDE DEF s
  <2>2. Len(s) = 3 /\ Good(s[1]) /\ Good(s[2]) /\ s[3].op = "run"
    BY <1>2, <2>1, CalmOnes
  <2>4. PICK n \in Nat \ {0} : n = 3
    OBVIOUS
  <2>5. \A k \in 1..n : k # n => Good(s[k])
    BY <2>2, <2>4
  <2>. QED
    BY <1>1, <2>2, <2>4, <2>5, OneThreadTable DEF Good, s
<1>6. CASE p = "Timer_Async"
  <2>1. \E c, d, e : s = <<c, d, e, Run>> /\ Good(c) /\ Good(d) /\ Good(e)
    BY <1>3, <1>6 DEF Program, Timer_Async
  <2>. HIDE DEF s
  <2>2. Len(s) = 4 /\ Good(s[1]) /\ Good(s[2]) /\ Good(s[3]) /\ s[4].op = "run"
    BY <1>2, <2>1, CalmOnes
  <2>4. PICK n \in Nat \ {0} : n = 4
    OBVIOUS
  <2>5. \A k \in 1..n : k # n => Good(s[k])
    BY <2>2, <2>4
  <2>. QED
    BY <1>1, <2>2, <2>4, <2>5, OneThreadTable DEF Good, s
<1>. QED
  BY <1>4, <1>5, <1>6 DEF OneThreaded

\* The calls of the loops, as sets
LEMMA LoopSets ==
  ASSUME NEW n \in Nat
  PROVE  /\ \A c \in ToSet(Each(n, PostTask)) \cup ToSet(Each(n, PostPoolTask)) \cup ToSet(Each(n, SlowPoolTask)) :
               c.op = "post" /\ \A p : c.handler \in Calm(p) /\ ~c.handler.guarded
         /\ \A c \in ToSet(Each(n, StrandTask)) :
               c.op = "strand" /\ \A p : c.handler \in Calm(p) /\ ~c.handler.guarded
         /\ \A c \in ToSet(Each(n, SpawnRunner)) : c.op = "spawn" /\ c.thread \in 1..n /\ c.body = <<Run>>
         /\ n # 0 => SpawnRunner(1) \in ToSet(Each(n, SpawnRunner))
         /\ \A c \in ToSet(Each(n, Join)) : c.op = "join"
         /\ \A i \in 1..n : Join(i) \in ToSet(Each(n, Join))
<1>1. /\ ToSet(Each(n, PostTask)) = {PostTask(i) : i \in 1..n}
      /\ ToSet(Each(n, PostPoolTask)) = {PostPoolTask(i) : i \in 1..n}
      /\ ToSet(Each(n, SlowPoolTask)) = {SlowPoolTask(i) : i \in 1..n}
      /\ ToSet(Each(n, StrandTask)) = {StrandTask(i) : i \in 1..n}
      /\ ToSet(Each(n, SpawnRunner)) = {SpawnRunner(i) : i \in 1..n}
      /\ ToSet(Each(n, Join)) = {Join(i) : i \in 1..n}
  BY DEF ToSet, Each
<1>2. \A p, i : i \in 1..n =>
         /\ Handler("task", i) \in Calm(p) /\ ~Handler("task", i).guarded
         /\ Handler("pool_task", i) \in Calm(p) /\ ~Handler("pool_task", i).guarded
         /\ Handler("slow", i) \in Calm(p) /\ ~Handler("slow", i).guarded
  BY CalmOnes
<1>3. \A c \in ToSet(Each(n, PostTask)) : c.op = "post" /\ \A p : c.handler \in Calm(p) /\ ~c.handler.guarded
  <2>1. \A i \in 1..n : PostTask(i).op = "post" /\ \A p : PostTask(i).handler \in Calm(p) /\ ~PostTask(i).handler.guarded
    BY <1>2, CalmOnes DEF PostTask
  <2>. QED
    BY <1>1, <2>1, Zenon
<1>4. \A c \in ToSet(Each(n, PostPoolTask)) : c.op = "post" /\ \A p : c.handler \in Calm(p) /\ ~c.handler.guarded
  <2>1. \A i \in 1..n : PostPoolTask(i).op = "post" /\ \A p : PostPoolTask(i).handler \in Calm(p) /\ ~PostPoolTask(i).handler.guarded
    BY <1>2, CalmOnes DEF PostPoolTask
  <2>. QED
    BY <1>1, <2>1, Zenon
<1>5. \A c \in ToSet(Each(n, SlowPoolTask)) : c.op = "post" /\ \A p : c.handler \in Calm(p) /\ ~c.handler.guarded
  <2>1. \A i \in 1..n : SlowPoolTask(i).op = "post" /\ \A p : SlowPoolTask(i).handler \in Calm(p) /\ ~SlowPoolTask(i).handler.guarded
    BY <1>2, CalmOnes DEF SlowPoolTask
  <2>. QED
    BY <1>1, <2>1, Zenon
<1>6. \A c \in ToSet(Each(n, StrandTask)) : c.op = "strand" /\ \A p : c.handler \in Calm(p) /\ ~c.handler.guarded
  <2>1. \A i \in 1..n : StrandTask(i).op = "strand" /\ \A p : StrandTask(i).handler \in Calm(p) /\ ~StrandTask(i).handler.guarded
    BY <1>2, CalmOnes DEF StrandTask
  <2>. QED
    BY <1>1, <2>1, Zenon
<1>7. \A c \in ToSet(Each(n, SpawnRunner)) : c.op = "spawn" /\ c.thread \in 1..n /\ c.body = <<Run>>
  <2>1. \A i \in 1..n : SpawnRunner(i).op = "spawn" /\ SpawnRunner(i).thread = i /\ SpawnRunner(i).body = <<Run>>
    BY DEF SpawnRunner, Spawn
  <2>2. SUFFICES ASSUME NEW c \in ToSet(Each(n, SpawnRunner))
                 PROVE  c.op = "spawn" /\ c.thread \in 1..n /\ c.body = <<Run>>
    OBVIOUS
  <2>3. PICK i \in 1..n : c = SpawnRunner(i)
    BY <1>1, <2>2, Zenon
  <2>. QED
    BY <2>1, <2>3, Zenon
<1>8. n # 0 => SpawnRunner(1) \in ToSet(Each(n, SpawnRunner))
  BY <1>1
<1>9. /\ \A c \in ToSet(Each(n, Join)) : c.op = "join"
      /\ \A i \in 1..n : Join(i) \in ToSet(Each(n, Join))
  BY <1>1, CalmOnes
<1>. QED
  BY <1>3, <1>4, <1>5, <1>6, <1>7, <1>8, <1>9

\* What the programs write is a call.
LEMMA PlainAreCalls == Seq(Plain) \subseteq Seq(Calls)
BY DEF Calls

\* One call
LEMMA OneCall ==
  ASSUME NEW c \in Calls
  PROVE  <<c>> \in Seq(Calls) /\ ToSet(<<c>>) = {c} /\ \A A : Lacks(<<c>>, A) <=> c.op \notin A
<1>1. <<c>> \in Seq(Calls) /\ ToSet(<<c>>) = {c}
  BY DEF ToSet
<1>. QED
  BY <1>1 DEF Lacks

\* The loops that post, start the threads and join them
LEMMA ThreadTables ==
  ASSUME SizeAssumption, NEW p \in {"example_MultipleThreads", "Strand_Example"}
  PROVE  TableOK(p, Program[p])
<1>. DEFINE a == IF p = "Strand_Example" THEN Each(Posts, StrandTask) ELSE Each(Posts, PostTask)
            b == Each(Runners, SpawnRunner)
            c == Each(Runners, Join)
<1>1. Program[p] = (a \o b) \o c
  <2>1. CASE p = "Strand_Example"
    <3>1. Program[p] = Strand_Example
      BY <2>1 DEF Program
    <3>. QED
      BY <2>1, <3>1 DEF Strand_Example
  <2>2. CASE p = "example_MultipleThreads"
    <3>1. Program[p] = example_MultipleThreads
      BY <2>2 DEF Program
    <3>2. p # "Strand_Example"
      BY <2>2
    <3>. QED
      BY <3>1, <3>2 DEF example_MultipleThreads
  <2>. QED
    BY <2>1, <2>2
<1>2. Runners \in Nat /\ Runners # 0 /\ Posts \in Nat
  BY DEF SizeAssumption
<1>3. a \in Seq(Calls) /\ b \in Seq(Calls) /\ c \in Seq(Calls)
  <2>1. /\ Each(Posts, PostTask) \in Seq(Plain) /\ Each(Posts, StrandTask) \in Seq(Plain)
        /\ b \in Seq(Plain) /\ c \in Seq(Plain)
    BY <1>2, Loops
  <2>2. a \in Seq(Plain)
    BY <2>1
  <2>. QED
    BY <2>1, <2>2, PlainAreCalls, Zenon
<1>4. \A x \in ToSet(a) : /\ x.op \in {"post", "strand"} /\ (x.op = "strand" => p = "Strand_Example")
                          /\ x.handler \in Calm(p) /\ ~x.handler.guarded
  <2>1. /\ \A x \in ToSet(Each(Posts, PostTask)) : x.op = "post" /\ \A q : x.handler \in Calm(q) /\ ~x.handler.guarded
        /\ \A x \in ToSet(Each(Posts, StrandTask)) : x.op = "strand" /\ \A q : x.handler \in Calm(q) /\ ~x.handler.guarded
    BY <1>2, LoopSets
  <2>2. CASE p = "Strand_Example"
    BY <2>1, <2>2
  <2>3. CASE p # "Strand_Example"
    BY <2>1, <2>3
  <2>. QED
    BY <2>2, <2>3
<1>5. /\ \A x \in ToSet(b) : x.op = "spawn" /\ x.thread \in 1..Runners /\ x.body = <<Run>>
      /\ SpawnRunner(1) \in ToSet(b)
      /\ \A x \in ToSet(c) : x.op = "join"
      /\ \A i \in 1..Runners : Join(i) \in ToSet(c)
  BY <1>2, LoopSets
<1>. HIDE DEF a, b, c
<1>. DEFINE ab == a \o b
            s == ab \o c
<1>6. ab \in Seq(Calls) /\ ToSet(ab) = ToSet(a) \cup ToSet(b)
  BY <1>3, Together
<1>7. /\ \A A, B : Before(a, A, B) /\ Before(b, A, B) /\ (Lacks(a, B) \/ Lacks(b, A)) => Before(ab, A, B)
  BY <1>3, Together
<1>8. Lacks(a, {"spawn"}) /\ Lacks(b, Adding) /\ Lacks(a, Closing) /\ Lacks(b, Closing)
      /\ Lacks(c, Adding) /\ Lacks(c, {"spawn"}) /\ Lacks(c, Closing)
      /\ Lacks(a, {"stop"}) /\ Lacks(b, {"stop"}) /\ Lacks(c, {"stop"})
  BY <1>4, <1>5 DEF Lacks, Adding, Brings, Closing
<1>9. Before(ab, Adding, {"spawn"})
  BY <1>3, <1>7, <1>8, NoOrder
<1>10. /\ Lacks(ab, Closing) /\ Lacks(ab, {"stop"})
  BY <1>6, <1>8 DEF Lacks
<1>. HIDE DEF ab
<1>11. s \in Seq(Calls) /\ ToSet(s) = ToSet(ab) \cup ToSet(c)
  BY <1>3, <1>6, Together
<1>12. \A A, B : Before(ab, A, B) /\ Before(c, A, B) /\ (Lacks(ab, B) \/ Lacks(c, A)) => Before(s, A, B)
  BY <1>3, <1>6, Together
<1>13. Joins(s)
  <2>1. Joins(c)
    BY <1>3, <1>5, Elements DEF Joins
  <2>2. \A x \in ToSet(ab) : x.op = "spawn" /\ x.body \notin Idle => Join(x.thread) \in ToSet(c)
    BY <1>4, <1>5, <1>6
  <2>. QED
    BY <1>3, <1>6, <2>1, <2>2, Together
<1>. HIDE DEF s
<1>14. Before(s, Adding, {"spawn"})
  BY <1>3, <1>8, <1>9, <1>12, NoOrder
<1>15. Lacks(s, Closing) /\ Lacks(s, {"stop"})
  BY <1>8, <1>10, <1>11 DEF Lacks
<1>16. Before(s, Adding, Closing) /\ Before(s, {"spawn", "join", "run"}, {"stop"})
  BY <1>11, <1>15, NoOrder
<1>17. SpawnRunner(1) \in ToSet(s)
  BY <1>5, <1>6, <1>11
<1>18. \A x \in ToSet(s) : MainCall(p, x)
  <2>1. \A x \in ToSet(a) : MainCall(p, x)
    BY <1>4 DEF MainCall, MildCall, Brings, Runless
  <2>2. \A x \in ToSet(b) : MainCall(p, x)
    <3>1. \A x \in ToSet(b) : x.op = "spawn" /\ x.thread # Main /\ x.body = <<Run>> /\ <<Run>> \in BodiesOf(p)
      BY <1>5 DEF BodiesOf, Main, Runless
    <3>. QED
      BY <3>1 DEF MainCall, MildCall, Brings, Runless
  <2>3. \A x \in ToSet(c) : MainCall(p, x)
    BY <1>5 DEF MainCall, MildCall, Brings, Runless
  <2>. QED
    BY <1>6, <1>11, <2>1, <2>2, <2>3
<1>19. Program[p] = s
  BY <1>1 DEF s, ab
<1>. QED
  BY <1>13, <1>14, <1>16, <1>17, <1>18, <1>19 DEF TableOK, Runless, Future

\* The pools
LEMMA PoolTable ==
  ASSUME NEW p, p \notin Runless, NEW n \in Nat \ {0}, NEW tasks \in Seq(Calls), NEW last \in Seq(Calls),
         \A c \in ToSet(tasks) : c.op = "post" /\ c.handler \in Calm(p) /\ ~c.handler.guarded,
         \A c \in ToSet(last) : c.op = "stop"
  PROVE  TableOK(p, Pool(n, tasks, last))
<1>. DEFINE g == <<Guard>>
            b == Each(n, SpawnRunner)
            r == <<ResetGuard>>
            j == Each(n, Join)
<1>1. Guard \in Calls /\ ResetGuard \in Calls
  BY DEF Guard, ResetGuard, Call, Calls, Special
<1>2. /\ g \in Seq(Calls) /\ ToSet(g) = {Guard} /\ r \in Seq(Calls) /\ ToSet(r) = {ResetGuard}
      /\ Guard.op = "make_work_guard" /\ ResetGuard.op = "reset"
  BY <1>1, OneCall, CalmOnes
<1>3. b \in Seq(Calls) /\ j \in Seq(Calls)
  <2>1. b \in Seq(Plain) /\ j \in Seq(Plain)
    BY Loops
  <2>. QED
    BY <2>1, PlainAreCalls, Zenon
<1>4. /\ \A x \in ToSet(b) : x.op = "spawn" /\ x.thread \in 1..n /\ x.body = <<Run>>
      /\ SpawnRunner(1) \in ToSet(b)
      /\ \A x \in ToSet(j) : x.op = "join"
      /\ \A i \in 1..n : Join(i) \in ToSet(j)
  BY LoopSets
<1>. HIDE DEF g, b, r, j
<1>. DEFINE gb == g \o b
            gbt == gb \o tasks
            gbr == gbt \o r
            gbj == gbr \o j
            s == gbj \o last
<1>5. gb \in Seq(Calls) /\ ToSet(gb) = {Guard} \cup ToSet(b)
  BY <1>2, <1>3, Together
<1>. HIDE DEF gb
<1>6. gbt \in Seq(Calls) /\ ToSet(gbt) = ToSet(gb) \cup ToSet(tasks)
  BY <1>5, Together
<1>. HIDE DEF gbt
<1>7. gbr \in Seq(Calls) /\ ToSet(gbr) = ToSet(gbt) \cup {ResetGuard}
  BY <1>2, <1>6, Together
<1>8. Before(gbr, Adding, Closing)
  <2>1. Lacks(gbt, Closing) /\ Lacks(r, Adding)
    BY <1>2, <1>4, <1>5, <1>6 DEF Lacks, Closing, Adding, Brings
  <2>2. Before(gbt, Adding, Closing) /\ Before(r, Adding, Closing)
    BY <1>2, <1>6, <2>1, NoOrder
  <2>. QED
    BY <1>2, <1>6, <2>1, <2>2, Together
<1>. HIDE DEF gbr
<1>9. gbj \in Seq(Calls) /\ ToSet(gbj) = ToSet(gbr) \cup ToSet(j)
  BY <1>3, <1>7, Together
<1>10. Joins(gbj)
  <2>1. Joins(j)
    BY <1>3, <1>4, Elements DEF Joins
  <2>2. \A x \in ToSet(gbr) : x.op = "spawn" /\ x.body \notin Idle => Join(x.thread) \in ToSet(j)
    <3>1. \A x \in ToSet(gbr) : x.op = "spawn" => x \in ToSet(b)
      BY <1>2, <1>5, <1>6, <1>7
    <3>. QED
      BY <1>4, <3>1
  <2>. QED
    BY <1>3, <1>7, <2>1, <2>2, Together
<1>11. Before(gbj, Adding, Closing)
  <2>1. Lacks(j, Adding)
    BY <1>4 DEF Lacks, Adding, Brings
  <2>. QED
    BY <1>3, <1>7, <1>8, <2>1, NoOrder, Together
<1>. HIDE DEF gbj
<1>12. s \in Seq(Calls) /\ ToSet(s) = ToSet(gbj) \cup ToSet(last)
  BY <1>9, Together
<1>13. Lacks(last, Adding) /\ Lacks(last, {"spawn"}) /\ Lacks(last, {"spawn", "join", "run"})
  BY DEF Lacks, Adding, Brings
<1>14. Joins(s)
  BY <1>9, <1>10, <1>13, Together
<1>15. Before(s, Adding, Closing)
  BY <1>9, <1>11, <1>13, NoOrder, Together
<1>16. Before(s, {"spawn", "join", "run"}, {"stop"})
  <2>1. Lacks(gbj, {"stop"})
    BY <1>2, <1>4, <1>5, <1>6, <1>7, <1>9 DEF Lacks
  <2>2. Before(gbj, {"spawn", "join", "run"}, {"stop"}) /\ Before(last, {"spawn", "join", "run"}, {"stop"})
    BY <1>9, <1>13, <2>1, NoOrder
  <2>. QED
    BY <1>9, <1>13, <2>2, Together
<1>. HIDE DEF s
<1>17. ToSet(s) = {Guard} \cup ToSet(b) \cup ToSet(tasks) \cup {ResetGuard} \cup ToSet(j) \cup ToSet(last)
  BY <1>5, <1>6, <1>7, <1>9, <1>12
<1>18. \A x \in ToSet(s) : MainCall(p, x)
  <2>1. MainCall(p, Guard) /\ MainCall(p, ResetGuard)
    BY <1>2 DEF MainCall, MildCall, Brings, Adding
  <2>2. \A x \in ToSet(b) : MainCall(p, x)
    <3>1. \A x \in ToSet(b) : x.op = "spawn" /\ x.thread # Main /\ x.body = <<Run>> /\ <<Run>> \in BodiesOf(p)
      BY <1>4 DEF BodiesOf, Main
    <3>. QED
      BY <3>1 DEF MainCall, MildCall, Brings
  <2>3. \A x \in ToSet(tasks) : MainCall(p, x)
    BY DEF MainCall, MildCall, Brings, Adding
  <2>4. \A x \in ToSet(j) : MainCall(p, x)
    BY <1>4 DEF MainCall, MildCall, Brings, Adding
  <2>5. \A x \in ToSet(last) : MainCall(p, x)
    BY DEF MainCall, MildCall, Brings, Adding
  <2>. QED
    BY <1>17, <2>1, <2>2, <2>3, <2>4, <2>5
<1>19. SpawnRunner(1) \in ToSet(s) /\ Has(s, "make_work_guard")
  BY <1>2, <1>4, <1>12, <1>17, Elements
<1>20. Pool(n, tasks, last) = s
  BY DEF Pool, s, gbj, gbr, gbt, gb, g, b, r, j
<1>. QED
  BY <1>14, <1>15, <1>16, <1>18, <1>19, <1>20 DEF TableOK

\* The programs of two and three threads, written out
LEMMA LongTables ==
  ASSUME NEW p \in {"runBackgroundTask", "SingleContext", "SimpleAsynchTest", "Experiments_Timer", Future}
  PROVE  TableOK(p, Program[p])
<1>. DEFINE SlowPost == <<Sleep(1), Post(Handler("slow", 1))>>
<1>1. /\ \A q : /\ <<Sleep(1)>> \in BodiesOf(q) /\ <<Sleep(2)>> \in BodiesOf(q)
                /\ q \notin Runless => <<Run>> \in BodiesOf(q)
      /\ <<Sleep(1)>> \in Idle /\ <<Sleep(2)>> \in Idle
      /\ SlowPost \in BodiesOf("runBackgroundTask")
  BY DEF BodiesOf, Idle
<1>2. \A i : SpawnRunner(i).op = "spawn" /\ SpawnRunner(i).thread = i /\ SpawnRunner(i).body = <<Run>>
  BY DEF SpawnRunner, Spawn
<1>. HIDE DEF SlowPost
<1>. DEFINE s == Program[p]
<1>. DEFINE Simple(c) == c.op \in {"make_work_guard", "sleep", "reset", "join", "expires"}
<1>3. \A c : Simple(c) => MainCall(p, c)
  BY DEF MainCall, MildCall, Brings
<1>4. /\ Simple(Guard) /\ Simple(ResetGuard)
      /\ \A i : Simple(Sleep(i)) /\ Simple(Join(i)) /\ Simple(Expires(i))
  BY CalmOnes
<1>. HIDE DEF Simple
<1>5. CASE p = "runBackgroundTask"
  <2>1. s = <<Guard, SpawnRunner(1), Spawn(2, SlowPost), Sleep(3), ResetGuard, Join(2), Join(1)>>
    BY <1>5 DEF Program, runBackgroundTask, SlowPost
  <2>. HIDE DEF s
  <2>2. /\ Len(s) = 7 /\ s[1] = Guard /\ s[2] = SpawnRunner(1) /\ s[3] = Spawn(2, SlowPost)
        /\ s[4] = Sleep(3) /\ s[5] = ResetGuard /\ s[6] = Join(2) /\ s[7] = Join(1)
    BY <2>1
  <2>3. s \in Seq({Guard, SpawnRunner(1), Spawn(2, SlowPost), Sleep(3), ResetGuard, Join(2), Join(1)})
    BY <2>1
  <2>4. MainCall(p, SpawnRunner(1)) /\ MainCall(p, Spawn(2, SlowPost))
    BY <1>1, <1>2, <1>5, CalmOnes DEF MainCall, MildCall, Brings, Runless, Main
  <2>5. \A c \in ToSet(s) : MainCall(p, c)
    <3>1. ToSet(s) \subseteq {Guard, SpawnRunner(1), Spawn(2, SlowPost), Sleep(3), ResetGuard, Join(2), Join(1)}
      BY <2>3, Elements
    <3>. QED
      BY <1>3, <1>4, <2>4, <3>1
  <2>6. Joins(s)
    <3>1. \A k \in 1..7 : s[k].op = "spawn" => k = 2 \/ k = 3
      BY <2>2, CalmOnes
    <3>2. s[7] = Join(s[2].thread) /\ s[6] = Join(s[3].thread)
      BY <1>2, <2>2, CalmOnes
    <3>. QED
      BY <2>2, <3>1, <3>2 DEF Joins
  <2>7. Lacks(s, Adding) /\ Lacks(s, {"stop"})
    <3>1. \A k \in 1..7 : s[k].op \in {"make_work_guard", "spawn", "sleep", "reset", "join"}
      BY <1>2, <2>2, CalmOnes
    <3>. QED
      BY <2>2, <2>3, <3>1, Elements DEF Adding, Brings
  <2>8. Before(s, Adding, Closing) /\ Before(s, {"spawn", "join", "run"}, {"stop"})
    BY <2>3, <2>7, NoOrder
  <2>9. SpawnRunner(1) \in ToSet(s)
    BY <2>2, <2>3, Elements
  <2>. QED
    BY <1>5, <2>5, <2>6, <2>8, <2>9 DEF TableOK, Runless, Future, s
<1>6. CASE p = "SingleContext"
  <2>. DEFINE S == {Guard, SpawnRunner(1), SystemTask(1), SystemTask(2), SystemTask(3), Sleep(5),
                    ResetGuard, Join(1)}
  <2>1. s = <<Guard, SpawnRunner(1), SystemTask(1), SystemTask(2), SystemTask(3), Sleep(5),
              ResetGuard, Join(1)>>
    BY <1>6 DEF Program, SingleContext
  <2>. HIDE DEF s
  <2>2. /\ Len(s) = 8 /\ s[1] = Guard /\ s[2] = SpawnRunner(1) /\ s[3] = SystemTask(1)
        /\ s[4] = SystemTask(2) /\ s[5] = SystemTask(3) /\ s[6] = Sleep(5) /\ s[7] = ResetGuard
        /\ s[8] = Join(1)
    BY <2>1
  <2>3. s \in Seq(S)
    BY <2>1
  <2>4. \A i \in {1, 2, 3} : /\ SystemTask(i).op = "spawn" /\ SystemTask(i).thread \notin {Main, 1}
                            /\ SystemTask(i).body = <<Sleep(2)>>
    BY DEF SystemTask, Spawn, Main
  <2>5. MainCall(p, SpawnRunner(1)) /\ \A i \in {1, 2, 3} : MainCall(p, SystemTask(i))
    BY <1>1, <1>2, <1>6, <2>4 DEF MainCall, MildCall, Brings, Runless, Main
  <2>6. \A c \in ToSet(s) : MainCall(p, c)
    <3>1. ToSet(s) \subseteq S
      BY <2>3, Elements
    <3>. QED
      BY <1>3, <1>4, <2>5, <3>1
  <2>7. Joins(s)
    <3>1. \A k \in 1..8 : s[k].op = "spawn" /\ s[k].body \notin Idle => k = 2
      BY <1>1, <2>2, <2>4, CalmOnes
    <3>2. s[8] = Join(s[2].thread)
      BY <1>2, <2>2, CalmOnes
    <3>. QED
      BY <2>2, <3>1, <3>2 DEF Joins
  <2>8. Lacks(s, Adding) /\ Lacks(s, {"stop"})
    <3>1. \A k \in 1..8 : s[k].op \in {"make_work_guard", "spawn", "sleep", "reset", "join"}
      BY <1>2, <2>2, <2>4, CalmOnes
    <3>2. \A A : Lacks(s, A) <=> \A k \in 1..8 : s[k].op \notin A
      BY <2>2, <2>3, Elements
    <3>. QED
      BY <3>1, <3>2 DEF Adding, Brings
  <2>9. /\ Before(s, Adding, Closing) /\ Before(s, {"spawn", "join", "run"}, {"stop"})
        /\ Before(s, Adding, {"spawn"})
    BY <2>3, <2>8, NoOrder
  <2>10. SpawnRunner(1) \in ToSet(s)
    BY <2>2, <2>3, Elements
  <2>. QED
    BY <1>6, <2>6, <2>7, <2>9, <2>10 DEF TableOK, Runless, Future, s
<1>7. CASE p \in Runless
  <2>1. CASE p = "SimpleAsynchTest"
    <3>1. s = <<Spawn(1, <<Sleep(1)>>), Join(1)>>
      BY <2>1 DEF Program, SimpleAsynchTest
    <3>. HIDE DEF s
    <3>2. PICK b : b = <<Sleep(1)>>
      OBVIOUS
    <3>3. Len(s) = 2 /\ s[1] = Spawn(1, b) /\ s[2] = Join(1) /\ s \in Seq({Spawn(1, b), Join(1)})
      BY <3>1, <3>2
    <3>4. MainCall(p, Spawn(1, b))
      BY <1>1, <1>7, <3>2, CalmOnes DEF MainCall, MildCall, Brings, Adding, Main
    <3>5. ToSet(s) \subseteq {Spawn(1, b), Join(1)}
      BY <3>3, Elements
    <3>6. \A c \in ToSet(s) : MainCall(p, c)
      BY <1>3, <1>4, <3>4, <3>5
    <3>7. Joins(s)
      <4>1. \A k \in 1..2 : s[k].op = "spawn" => s[k].body \in Idle
        BY <1>1, <3>2, <3>3, CalmOnes
      <4>. QED
        BY <3>3, <4>1 DEF Joins
    <3>8. Lacks(s, Adding) /\ Lacks(s, {"stop"}) /\ Lacks(s, Adding \cup {"run", "stop"})
      BY <3>5, CalmOnes DEF Lacks, Adding, Brings
    <3>9. /\ Before(s, Adding, Closing) /\ Before(s, {"spawn", "join", "run"}, {"stop"})
          /\ Before(s, Adding, {"spawn"})
      BY <3>3, <3>8, NoOrder
    <3>. QED
      BY <1>7, <3>6, <3>7, <3>8, <3>9 DEF TableOK, s
  <2>2. CASE p = "Experiments_Timer"
    <3>1. s = <<Expires(3), Call("wait")>>
      BY <2>2 DEF Program, Experiments_Timer
    <3>. HIDE DEF s
    <3>3. s \in Seq({Expires(3), Call("wait")})
      BY <3>1
    <3>4. MainCall(p, Call("wait")) /\ Call("wait").op = "wait"
      BY CalmOnes DEF MainCall, MildCall, Brings, Adding
    <3>5. ToSet(s) \subseteq {Expires(3), Call("wait")}
      BY <3>3, Elements
    <3>6. \A c \in ToSet(s) : MainCall(p, c)
      BY <1>3, <1>4, <3>4, <3>5
    <3>8. Lacks(s, Adding) /\ Lacks(s, {"stop"}) /\ Lacks(s, {"spawn"}) /\ Lacks(s, Adding \cup {"run", "stop"})
      BY <3>5, CalmOnes DEF Lacks, Adding, Brings
    <3>7. Joins(s)
      BY <3>3, <3>8, Elements DEF Joins
    <3>9. /\ Before(s, Adding, Closing) /\ Before(s, {"spawn", "join", "run"}, {"stop"})
          /\ Before(s, Adding, {"spawn"})
      BY <3>3, <3>8, NoOrder
    <3>. QED
      BY <1>7, <3>6, <3>7, <3>8, <3>9 DEF TableOK, s
  <2>. QED
    BY <1>7, <2>1, <2>2 DEF Runless
<1>8. CASE p = Future
  <2>. DEFINE S == {Expires(4), SpawnRunner(1), AsyncWait(Promise), Sleep(2), Cancel, Get, Join(1)}
  <2>1. s = <<Expires(4), SpawnRunner(1), AsyncWait(Promise), Sleep(2), Cancel, Get, Join(1)>>
    BY <1>8 DEF Program, Future, Future_Exception_Handling, Promise, Cancel, Get
  <2>. HIDE DEF s
  <2>2. /\ Len(s) = 7 /\ s[1] = Expires(4) /\ s[2] = SpawnRunner(1) /\ s[3] = AsyncWait(Promise)
        /\ s[4] = Sleep(2) /\ s[5] = Cancel /\ s[6] = Get /\ s[7] = Join(1)
    BY <2>1
  <2>3. s \in Seq(S)
    BY <2>1
  <2>4. /\ MainCall(p, SpawnRunner(1)) /\ MainCall(p, Cancel) /\ MainCall(p, Get)
        /\ MainCall(p, AsyncWait(Promise))
    <3>1. Promise \in Calm(p) /\ ~Promise.guarded
      BY CalmOnes DEF Promise
    <3>2. p \notin Runless
      BY <1>8 DEF Runless, Future
    <3>3. MainCall(p, SpawnRunner(1))
      BY <1>1, <1>2, <3>2 DEF MainCall, MildCall, Brings, Main
    <3>4. MainCall(p, Cancel) /\ MainCall(p, Get)
      BY <3>2, CalmOnes DEF MainCall, MildCall, Brings, Cancel, Get
    <3>5. MainCall(p, AsyncWait(Promise))
      BY <3>1, <3>2, CalmOnes DEF MainCall, MildCall, Brings
    <3>. QED
      BY <3>3, <3>4, <3>5
  <2>5. \A c \in ToSet(s) : MainCall(p, c)
    <3>1. ToSet(s) \subseteq S
      BY <2>3, Elements
    <3>. QED
      BY <1>3, <1>4, <2>4, <3>1
  <2>6. Joins(s)
    <3>1. \A k \in 1..7 : s[k].op = "spawn" => k = 2
      BY <2>2, CalmOnes, FutureCalls
    <3>2. s[7] = Join(s[2].thread)
      BY <1>2, <2>2, CalmOnes
    <3>. QED
      BY <2>2, <3>1, <3>2 DEF Joins
  <2>. QED
    BY <1>8, <2>5, <2>6 DEF TableOK, Runless, Future, s
<1>. QED
  BY <1>5, <1>6, <1>7, <1>8 DEF Runless

\* The programs whose handlers start no thread and leave the guard alone
LEMMA CommonTable ==
  ASSUME SizeAssumption, NEW p \in DOMAIN Program \ (Backgrounds \cup Detachers)
  PROVE  TableOK(p, Program[p])
<1>1. CASE p \in {"SimpleTest", "RunTest", "ThreadPool_Test", "Worker"}
  <2>1. /\ PoolSize \in Nat \ {0} /\ 1 \in Nat \ {0} /\ PoolTasks \in Nat /\ p \notin Runless
    BY <1>1 DEF SizeAssumption, Runless
  <2>2. << >> \in Seq(Calls) /\ ToSet(<< >>) = {}
    BY DEF ToSet
  <2>3. /\ <<Call("stop")>> \in Seq(Calls)
        /\ \A c \in ToSet(<<Call("stop")>>) : c.op = "stop"
    <3>1. Call("stop") \in Calls
      BY PlainCalls DEF Calls, Bare
    <3>. QED
      BY <3>1, OneCall, CalmOnes
  <2>4. /\ Each(PoolTasks, PostPoolTask) \in Seq(Calls) /\ Each(PoolTasks, SlowPoolTask) \in Seq(Calls)
    BY <2>1, Loops, PlainAreCalls, Zenon
  <2>5. /\ \A c \in ToSet(Each(PoolTasks, PostPoolTask)) : c.op = "post" /\ c.handler \in Calm(p) /\ ~c.handler.guarded
        /\ \A c \in ToSet(Each(PoolTasks, SlowPoolTask)) : c.op = "post" /\ c.handler \in Calm(p) /\ ~c.handler.guarded
    BY <2>1, LoopSets
  <2>6. TableOK(p, SimpleTest) /\ TableOK(p, RunTest)
    BY <2>1, <2>2, <2>3, <2>4, <2>5, PoolTable DEF SimpleTest, RunTest
  <2>7. TableOK(p, ThreadPool_Test) /\ TableOK(p, Worker)
    BY <2>1, <2>2, <2>3, <2>4, <2>5, PoolTable DEF ThreadPool_Test, Worker
  <2>. QED
    BY <1>1, <2>6, <2>7 DEF Program
<1>2. p \in OneThreaded => TableOK(p, Program[p])
  BY OneThreadTables
<1>3. p \in {"example_MultipleThreads", "Strand_Example"} => TableOK(p, Program[p])
  BY ThreadTables
<1>4. p \in {"runBackgroundTask", "SingleContext", "SimpleAsynchTest", "Experiments_Timer", Future}
         => TableOK(p, Program[p])
  BY LongTables
<1>. QED
  BY <1>1, <1>2, <1>3, <1>4 DEF Program, OneThreaded, Future, Backgrounds, Detachers

(* The steps, by what they make of the calls of their thread.              *)

\* Calls of the handlers of these programs
BodyOps == {"sleep", "lock", "unlock", "expires", "async_wait", "message", "set", "turn"}

\* What they do is in their bodies.
LEMMA CalmBodies ==
  ASSUME NEW p, NEW h \in Calm(p)
  PROVE  /\ Body(h) \in Seq(Calls)
         /\ \A c \in ToSet(Body(h)) : OtherCall(p, c) /\ c.op \in BodyOps
<1>1. h \in Handlers /\ h.name \in CalmNames(p)
  BY DEF Calm
<1>2. Body(h) \in Seq(Calls)
  BY <1>1, Bodies, PlainAreCalls
<1>. DEFINE Good(b) == \A c \in ToSet(b) : OtherCall(p, c) /\ c.op \in BodyOps
<1>3. Good(<< >>)
  BY DEF ToSet
<1>4. \A c : OtherCall(p, c) /\ c.op \in BodyOps => Good(<<c>>)
  BY DEF ToSet
<1>5. \A c, d : /\ OtherCall(p, c) /\ c.op \in BodyOps /\ OtherCall(p, d) /\ d.op \in BodyOps
                => Good(<<c, d>>)
  BY DEF ToSet
<1>6. \A c : c.op \in BodyOps \ {"async_wait", "turn"} => OtherCall(p, c)
  BY DEF OtherCall, MildCall, Brings, BodyOps
<1>7. OtherCall(p, AsyncWait(Handler("timer_handler", 0))) /\ AsyncWait(Handler("timer_handler", 0)).op \in BodyOps
  BY CalmOnes DEF OtherCall, MildCall, Brings, BodyOps
<1>. HIDE DEF Good
<1>8. CASE h.name \in {"task", "print"}
  <2>1. Body(h) = << >>
    BY <1>8 DEF Body
  <2>. QED
    BY <1>2, <1>3, <2>1 DEF Good
<1>9. CASE h.name = "slow"
  <2>1. Body(h) = <<Sleep(1)>>
    BY <1>9 DEF Body
  <2>2. Good(<<Sleep(1)>>)
    BY <1>4, <1>6, CalmOnes DEF BodyOps
  <2>. QED
    BY <1>2, <2>1, <2>2 DEF Good
<1>10. CASE h.name = "pool_task"
  <2>. DEFINE b == <<Call("lock"), Call("unlock"), Sleep(1), Call("lock"), Call("unlock")>>
  <2>1. Body(h) = b
    BY <1>10 DEF Body
  <2>2. b \in Seq({Call("lock"), Call("unlock"), Sleep(1)})
    OBVIOUS
  <2>. HIDE DEF b
  <2>3. ToSet(b) \subseteq {Call("lock"), Call("unlock"), Sleep(1)}
    BY <2>2, Elements
  <2>4. \A c \in {Call("lock"), Call("unlock"), Sleep(1)} : c.op \in BodyOps \ {"async_wait", "turn"}
    BY CalmOnes DEF BodyOps
  <2>5. Good(b)
    BY <1>6, <2>3, <2>4 DEF Good
  <2>. QED
    BY <1>2, <2>1, <2>5 DEF Good
<1>11. CASE h.name = "timer_handler"
  <2>1. Body(h) \in {<< >>, <<Expires(1), AsyncWait(Handler("timer_handler", 0))>>}
    BY <1>11 DEF Body, TimerHandler
  <2>2. OtherCall(p, Expires(1)) /\ Expires(1).op \in BodyOps
    BY <1>6, CalmOnes DEF BodyOps
  <2>3. Good(<<Expires(1), AsyncWait(Handler("timer_handler", 0))>>)
    BY <1>5, <1>7, <2>2, Zenon
  <2>. QED
    BY <1>2, <1>3, <2>1, <2>3 DEF Good
<1>12. CASE h.name = "message"
  <2>1. Body(h) = <<Call("message")>>
    BY <1>12 DEF Body, Message
  <2>2. Good(<<Call("message")>>)
    BY <1>4, <1>6, CalmOnes DEF BodyOps
  <2>. QED
    BY <1>2, <2>1, <2>2 DEF Good
<1>13. CASE h.name = "promise"
  <2>1. Body(h) = <<Sets(h.ec)>>
    BY <1>13 DEF Body, Sets
  <2>2. Sets(h.ec).op = "set"
    BY DEF Sets
  <2>3. Good(<<Sets(h.ec)>>)
    BY <1>4, <1>6, <2>2 DEF BodyOps
  <2>. QED
    BY <1>2, <2>1, <2>3 DEF Good
<1>14. CASE h.name = "invoker" /\ p = "Strand_Example"
  <2>1. Body(h) = <<Call("turn")>>
    BY <1>14 DEF Body
  <2>2. OtherCall(p, Call("turn")) /\ Call("turn").op \in BodyOps
    BY <1>14, CalmOnes DEF OtherCall, MildCall, Brings, BodyOps
  <2>3. Good(<<Call("turn")>>)
    BY <1>4, <2>2
  <2>. QED
    BY <1>2, <2>1, <2>3 DEF Good
<1>. QED
  BY <1>1, <1>8, <1>9, <1>10, <1>11, <1>12, <1>13, <1>14 DEF CalmNames

\* A call is made, and a pause comes in its place if it was a sleep.
Goes(t) ==
    /\ Head(todo[t]).op # "spawn"
    /\ Head(todo[t]).op = "join" => todo[Head(todo[t]).thread] = << >>
    /\ Head(todo[t]).op = "run" => ctx'.stopped # "no"
    /\ \E m \in Seq(Calls) : (\A c \in ToSet(m) : c.op = "asleep") /\ Then(t, m)

\* The calls of a handler come before those of the thread, and an end after them.
Enters(t) ==
    \E h, e : /\ \/ /\ Head(todo[t]).op = "run" /\ e = Leave
                    /\ ctx.ready # << >> /\ h = Head(ctx.ready)
                 \/ /\ Head(todo[t]).op = "turn" /\ e = LeavesStrand
                    /\ strand.turn # << >> /\ h = Head(strand.turn)
              /\ First(t, Body(h) \o <<e>>)

\* There is no other step.
LEMMA Moves ==
  ASSUME GInv, NEW t \in Thread, ThreadStep(t)
  PROVE  /\ todo[t] # << >>
         /\ Goes(t) \/ Enters(t) \/ SpawnThread(t) \/ ExpireTimer(t)
<1>1. todo[t] # << >>
  BY Dispatch
<1>2. CASE FallAsleep(t)
  <2>1. Head(todo[t]).op = "sleep" /\ Then(t, <<Asleep(t)>>)
    BY <1>2 DEF FallAsleep, At
  <2>2. Arg(t) \in Calls /\ Arg(t).op = "sleep"
    BY <1>2, TheCall DEF FallAsleep
  <2>3. Arg(t).for \in Int
    BY <2>2 DEF Calls, Plain, Basic, Bare, Special
  <2>4. Asleep(t) \in Calls /\ Asleep(t).op = "asleep"
    BY <2>3 DEF Asleep, Calls, Plain, Basic, GInv, TypeInv
  <2>5. <<Asleep(t)>> \in Seq(Calls) /\ \A c \in ToSet(<<Asleep(t)>>) : c.op = "asleep"
    BY <2>4, OneCall
  <2>. QED
    BY <1>1, <2>1, <2>5 DEF Goes
<1>3. << >> \in Seq(Calls) /\ \A c \in ToSet(<< >>) : c.op = "asleep"
  BY DEF ToSet
<1>4. CASE JoinThread(t)
  BY <1>1, <1>3, <1>4 DEF JoinThread, At, Arg, Goes
<1>5. CASE WakeUp(t) \/ LockMutex(t) \/ MakeGuard(t) \/ GuardReset(t) \/ StopContext(t) \/ PostHandler(t)
           \/ PostToStrand(t) \/ SetExpiry(t)
  <2>1. Then(t, << >>)
    BY <1>5 DEF WakeUp, LockMutex, MakeGuard, GuardReset, StopContext, PostHandler, PostToStrand, SetExpiry
  <2>2. Head(todo[t]).op \notin {"spawn", "join", "run"}
    BY <1>5 DEF WakeUp, LockMutex, MakeGuard, GuardReset, StopContext, PostHandler, PostToStrand, SetExpiry, At
  <2>. QED
    BY <1>1, <1>3, <2>1, <2>2 DEF Goes
<1>6. CASE StartWait(t) \/ CountMessage(t) \/ CancelTimer(t) \/ Settle(t) \/ LeaveHandler(t) \/ EndTurn(t)
           \/ LeaveStrand(t)
  <2>1. Then(t, << >>)
    BY <1>6 DEF StartWait, CountMessage, CancelTimer, Settle, LeaveHandler, EndTurn, LeaveStrand
  <2>2. Head(todo[t]).op \notin {"spawn", "join", "run"}
    BY <1>6 DEF StartWait, CountMessage, CancelTimer, Settle, LeaveHandler, EndTurn, LeaveStrand, At
  <2>. QED
    BY <1>1, <1>3, <2>1, <2>2 DEF Goes
<1>7. CASE TakeHandler(t)
  <2>1. Head(todo[t]).op = "run" /\ ctx.ready # << >> /\ First(t, Body(Head(ctx.ready)) \o <<Leave>>)
    BY <1>7 DEF TakeHandler, At
  <2>. QED
    BY <1>1, <2>1 DEF Enters
<1>8. CASE TakeTurn(t)
  <2>1. Head(todo[t]).op = "turn" /\ strand.turn # << >> /\ First(t, Body(Head(strand.turn)) \o <<LeavesStrand>>)
    BY <1>8 DEF TakeTurn, At, LeavesStrand
  <2>. QED
    BY <1>1, <2>1 DEF Enters
<1>9. CASE RunReturns(t)
  <2>1. Then(t, << >>) /\ Head(todo[t]).op = "run"
    BY <1>9 DEF RunReturns, At
  <2>2. ctx'.stopped # "no"
    BY <1>9 DEF RunReturns, GInv, TypeInv, Context
  <2>. QED
    BY <1>1, <1>3, <2>1, <2>2 DEF Goes
<1>. QED
  BY <1>1, <1>2, <1>4, <1>5, <1>6, <1>7, <1>8, <1>9 DEF ThreadStep

(* Every thread that uses the io_context is joined before main() returns.  *)

Free == [locked |-> FALSE, turn |-> << >>, next |-> << >>]

HandlersInv ==
    /\ ctx.ready \in Seq(Calm(prog))
    /\ strand.turn \in Seq(Calm(prog)) /\ strand.next \in Seq(Calm(prog))
    /\ timer.handler \in Calm(prog) /\ ~timer.handler.guarded
    /\ prog # "Strand_Example" => strand = Free

JoinInv ==
    /\ \A c \in ToSet(todo[Main]) : MainCall(prog, c)
    /\ Joins(todo[Main])
    /\ prog \in Runless => \A t \in Thread : Lacks(todo[t], Adding \cup {"run", "stop"})
    /\ \A t \in Thread : t # Main =>
          /\ \A c \in ToSet(todo[t]) : OtherCall(prog, c)
          /\ Uses(t) => Join(t) \in ToSet(todo[Main])

OInv == HandlersInv /\ JoinInv

\* The calls that use it
LEMMA UsesCalls ==
  \A t : Uses(t) <=> \E c \in ToSet(todo[t]) : c.op \in ContextCalls
BY DEF Uses, ToSet

\* A step that leaves the handlers calm and starts no thread
LEMMA Advancing ==
  ASSUME GInv, OInv, NEW t \in Thread, todo[t] # << >>, Goes(t), prog' = prog
  PROVE  JoinInv'
<1>1. PICK m \in Seq(Calls) : (\A c \in ToSet(m) : c.op = "asleep") /\ Then(t, m)
  BY DEF Goes
<1>. DEFINE s == todo[t]
            r == Tail(s)
            u == m \o r
<1>2. s \in Seq(Calls) /\ Main \in Thread /\ todo \in [Thread -> Seq(Calls)]
  BY DEF GInv, TypeInv, Main, Thread
<1>3. /\ r \in Seq(Calls) /\ ToSet(s) = {Head(s)} \cup ToSet(r)
      /\ Joins(s) => Joins(r)
  BY <1>2, TheRest
<1>4. todo' = [todo EXCEPT ![t] = u]
  BY <1>1 DEF Then
<1>. HIDE DEF r
<1>5. /\ u \in Seq(Calls) /\ ToSet(u) = ToSet(m) \cup ToSet(r)
      /\ Joins(r) => Joins(u)
  <2>1. \A c \in ToSet(m) : c.op # "spawn"
    BY <1>1
  <2>. QED
    BY <1>3, <2>1, Together
<1>6. \A p, c : c.op = "asleep" => MainCall(p, c) /\ OtherCall(p, c)
  BY DEF MainCall, OtherCall, MildCall, Brings, Adding
<1>7. todo'[t] = u /\ \A v \in Thread : v # t => todo'[v] = todo[v]
  BY <1>2, <1>4
<1>. HIDE DEF u
<1>8. \A v : /\ Uses(v) <=> \E c \in ToSet(todo[v]) : c.op \in ContextCalls
             /\ Uses(v)' <=> \E c \in ToSet(todo'[v]) : c.op \in ContextCalls
  BY DEF Uses, ToSet
<1>9. "asleep" \notin ContextCalls
  BY DEF ContextCalls
<1>12. prog \in Runless => \A v \in Thread : Lacks(todo'[v], Adding \cup {"run", "stop"})
  <2>1. prog \in Runless => Lacks(u, Adding \cup {"run", "stop"})
    BY <1>1, <1>3, <1>5 DEF OInv, JoinInv, Lacks, Adding, Brings
  <2>. QED
    BY <1>7, <2>1 DEF OInv, JoinInv
<1>10. CASE t = Main
  <2>1. \A c \in ToSet(todo'[Main]) : MainCall(prog, c)
    BY <1>1, <1>3, <1>5, <1>6, <1>7, <1>10 DEF OInv, JoinInv
  <2>2. Joins(todo'[Main])
    BY <1>3, <1>5, <1>7, <1>10 DEF OInv, JoinInv
  <2>3. ASSUME NEW v \in Thread, v # Main, Uses(v)'
        PROVE  Join(v) \in ToSet(todo'[Main])
    <3>1. Uses(v) /\ Join(v) \in ToSet(s)
      BY <1>7, <1>8, <1>10, <2>3 DEF OInv, JoinInv
    <3>2. Join(v) # Head(s)
      <4>1. SUFFICES ASSUME Join(v) = Head(s) PROVE FALSE
        OBVIOUS
      <4>2. Head(s).op = "join" /\ Head(s).thread = v
        BY <4>1, CalmOnes
      <4>3. todo[v] = << >>
        BY <4>2 DEF Goes
      <4>. QED
        BY <3>1, <4>3 DEF Uses
    <3>. QED
      BY <1>3, <1>5, <1>7, <1>10, <3>1, <3>2
  <2>. QED
    BY <1>7, <1>10, <1>12, <2>1, <2>2, <2>3 DEF OInv, JoinInv
<1>11. CASE t # Main
  <2>1. todo'[Main] = todo[Main]
    BY <1>2, <1>7, <1>11
  <2>2. \A c \in ToSet(u) : OtherCall(prog, c)
    BY <1>1, <1>3, <1>5, <1>6, <1>11 DEF OInv, JoinInv
  <2>3. Uses(t)' => Uses(t)
    BY <1>1, <1>3, <1>5, <1>7, <1>8, <1>9
  <2>4. \A v \in Thread : v # t => (Uses(v)' => Uses(v))
    BY <1>7, <1>8
  <2>. QED
    BY <1>7, <1>12, <2>1, <2>2, <2>3, <2>4 DEF OInv, JoinInv
<1>. QED
  BY <1>10, <1>11

\* A handler is called.
LEMMA Entering ==
  ASSUME GInv, OInv, NEW t \in Thread, todo[t] # << >>, Enters(t), prog' = prog
  PROVE  JoinInv'
<1>1. PICK h, e : /\ \/ /\ Head(todo[t]).op = "run" /\ e = Leave
                        /\ ctx.ready # << >> /\ h = Head(ctx.ready)
                     \/ /\ Head(todo[t]).op = "turn" /\ e = LeavesStrand
                        /\ strand.turn # << >> /\ h = Head(strand.turn)
                  /\ First(t, Body(h) \o <<e>>)
  BY DEF Enters
<1>2. h \in Calm(prog)
  BY <1>1 DEF OInv, HandlersInv
<1>3. /\ Body(h) \in Seq(Calls)
      /\ \A c \in ToSet(Body(h)) : OtherCall(prog, c) /\ c.op \in BodyOps
  BY <1>2, CalmBodies
<1>4. e \in Calls /\ e.op \in {"leave", "leave_strand"}
  BY <1>1, PlainCalls, CalmOnes DEF Leave, LeavesStrand, Calls, Special, Bare, Call
<1>. DEFINE s == todo[t]
            b == Body(h)
            f == b \o <<e>>
            u == f \o s
<1>5. s \in Seq(Calls) /\ Main \in Thread /\ todo \in [Thread -> Seq(Calls)]
  BY DEF GInv, TypeInv, Main, Thread
<1>6. todo' = [todo EXCEPT ![t] = u]
  BY <1>1 DEF First
<1>. HIDE DEF b
<1>7. f \in Seq(Calls) /\ ToSet(f) = ToSet(b) \cup {e}
  <2>1. <<e>> \in Seq(Calls) /\ ToSet(<<e>>) = {e}
    BY <1>4, OneCall
  <2>2. b \in Seq(Calls)
    BY <1>3 DEF b
  <2>3. PICK l \in Seq(Calls) : l = <<e>> /\ ToSet(l) = {e}
    BY <2>1
  <2>4. b \o l \in Seq(Calls) /\ ToSet(b \o l) = ToSet(b) \cup ToSet(l)
    BY <2>2, Together
  <2>. QED
    BY <2>3, <2>4
<1>. HIDE DEF f
<1>8. \A c \in ToSet(f) : OtherCall(prog, c) /\ MainCall(prog, c) /\ c.op \notin {"spawn", "join"}
  <2>1. \A c \in ToSet(b) : OtherCall(prog, c) /\ c.op \in BodyOps
    BY <1>3 DEF b
  <2>2. OtherCall(prog, e)
    BY <1>4 DEF OtherCall, MildCall, Brings
  <2>. QED
    BY <1>4, <1>7, <2>1, <2>2 DEF MainCall, OtherCall, BodyOps
<1>9. u \in Seq(Calls) /\ ToSet(u) = ToSet(f) \cup ToSet(s) /\ (Joins(s) => Joins(u))
  BY <1>5, <1>7, <1>8, Together
<1>10. todo'[t] = u /\ \A v \in Thread : v # t => todo'[v] = todo[v]
  BY <1>5, <1>6
<1>. HIDE DEF u
<1>11. \A v : /\ Uses(v) <=> \E c \in ToSet(todo[v]) : c.op \in ContextCalls
              /\ Uses(v)' <=> \E c \in ToSet(todo'[v]) : c.op \in ContextCalls
  BY DEF Uses, ToSet
<1>12. Head(s) \in ToSet(s) /\ Head(s).op \in {"run", "turn"}
  BY <1>1, <1>5, TheRest
<1>13. Uses(t)
  BY <1>11, <1>12 DEF ContextCalls
<1>14. prog \notin Runless
  BY <1>12 DEF OInv, JoinInv, Lacks, Adding, Brings
<1>15. CASE t = Main
  BY <1>8, <1>9, <1>10, <1>11, <1>14, <1>15 DEF OInv, JoinInv
<1>16. CASE t # Main
  <2>1. todo'[Main] = todo[Main]
    BY <1>5, <1>10, <1>16
  <2>2. \A c \in ToSet(u) : OtherCall(prog, c)
    BY <1>8, <1>9, <1>16 DEF OInv, JoinInv
  <2>3. \A v \in Thread : Uses(v)' => Uses(v)
    BY <1>10, <1>11, <1>13
  <2>. QED
    BY <1>10, <1>14, <2>1, <2>2, <2>3 DEF OInv, JoinInv
<1>. QED
  BY <1>15, <1>16

\* A thread is started.
LEMMA Starting ==
  ASSUME GInv, OInv, NEW t \in Thread, SpawnThread(t), prog' = prog
  PROVE  JoinInv'
<1>. DEFINE s == todo[t]
            c == Head(s)
            r == Tail(s)
<1>1. s # << >> /\ c.op = "spawn"
  BY DEF SpawnThread, At
<1>2. s \in Seq(Calls) /\ Main \in Thread /\ todo \in [Thread -> Seq(Calls)]
  BY DEF GInv, TypeInv, Main, Thread
<1>3. /\ r \in Seq(Calls) /\ ToSet(s) = {c} \cup ToSet(r)
      /\ Joins(s) => Joins(r) /\ (c.body \notin Idle => Join(c.thread) \in ToSet(r))
  BY <1>1, <1>2, TheRest
<1>4. todo' = [todo EXCEPT ![t] = r, ![c.thread] = c.body]
  BY DEF SpawnThread, Arg
<1>5. t = Main
  BY <1>1, <1>3 DEF OInv, JoinInv, OtherCall
<1>6. MainCall(prog, c)
  BY <1>3, <1>5 DEF OInv, JoinInv
<1>7. c.thread # Main /\ c.body \in BodiesOf(prog)
  BY <1>1, <1>6 DEF MainCall
<1>. DEFINE b == c.body
            w == c.thread
<1>. HIDE DEF r, b, c
<1>8. todo'[Main] = r /\ \A v \in Thread : v # Main => todo'[v] = IF v = w THEN b ELSE todo[v]
  BY <1>2, <1>4, <1>5, <1>7 DEF b
<1>9. \A x \in ToSet(b) : OtherCall(prog, x) /\ (prog \in Runless => x.op \notin Adding \cup {"run", "stop"})
  <2>1. ASSUME NEW x, b = <<x>>, x.op \in {"run", "sleep"}, prog \in Runless => x.op # "run"
        PROVE  \A y \in ToSet(b) : OtherCall(prog, y) /\ (prog \in Runless => y.op \notin Adding \cup {"run", "stop"})
    BY <2>1 DEF ToSet, OtherCall, MildCall, Brings, Adding
  <2>2. CASE b = <<Run>> /\ prog \notin Runless
    BY <2>1, <2>2, CalmOnes
  <2>3. CASE b \in Idle
    BY <2>1, <2>3, CalmOnes DEF Idle
  <2>4. CASE b = <<Sleep(1), Post(Handler("slow", 1))>> /\ prog = "runBackgroundTask"
    <3>1. ToSet(b) = {Sleep(1), Post(Handler("slow", 1))}
      BY <2>4 DEF ToSet
    <3>2. Handler("slow", 1) \in Calm(prog) /\ ~Handler("slow", 1).guarded
      BY CalmOnes
    <3>. QED
      BY <2>4, <3>1, <3>2, CalmOnes DEF OtherCall, MildCall, Brings, Runless
  <2>. QED
    BY <1>7, <2>2, <2>3, <2>4 DEF BodiesOf, b
<1>10. \A v : /\ Uses(v) <=> \E x \in ToSet(todo[v]) : x.op \in ContextCalls
              /\ Uses(v)' <=> \E x \in ToSet(todo'[v]) : x.op \in ContextCalls
  BY DEF Uses, ToSet
<1>11. b \in Idle => \A x \in ToSet(b) : x.op \notin ContextCalls
  <2>1. SUFFICES ASSUME NEW i, b = <<Sleep(i)>> PROVE \A x \in ToSet(b) : x.op \notin ContextCalls
    BY DEF Idle
  <2>2. ToSet(b) = {Sleep(i)}
    BY <2>1 DEF ToSet
  <2>. QED
    BY <2>2, CalmOnes DEF ContextCalls
<1>12. /\ \A x \in ToSet(r) : MainCall(prog, x)
       /\ Joins(r)
  BY <1>3, <1>5 DEF OInv, JoinInv
<1>13. prog \in Runless => \A v \in Thread : Lacks(todo'[v], Adding \cup {"run", "stop"})
  <2>1. prog \in Runless => Lacks(r, Adding \cup {"run", "stop"}) /\ Lacks(b, Adding \cup {"run", "stop"})
    BY <1>3, <1>9 DEF OInv, JoinInv, Lacks
  <2>. QED
    BY <1>8, <2>1 DEF OInv, JoinInv
<1>14. ASSUME NEW v \in Thread, v # Main, Uses(v)' PROVE Join(v) \in ToSet(r)
  <2>1. CASE v = w
    <3>1. b \notin Idle
      BY <1>8, <1>10, <1>11, <1>14, <2>1
    <3>. QED
      BY <1>3, <1>5, <2>1, <3>1 DEF OInv, JoinInv, b
  <2>2. CASE v # w
    <3>1. Uses(v)
      BY <1>8, <1>10, <1>14, <2>2
    <3>2. Join(v) \in ToSet(s)
      BY <1>5, <1>14, <3>1 DEF OInv, JoinInv
    <3>3. Join(v) # c
      BY <1>1, CalmOnes DEF c
    <3>. QED
      BY <1>3, <3>2, <3>3
  <2>. QED
    BY <2>1, <2>2
<1>15. \A v \in Thread : v # Main => \A x \in ToSet(todo'[v]) : OtherCall(prog, x)
  BY <1>8, <1>9 DEF OInv, JoinInv
<1>. QED
  BY <1>8, <1>12, <1>13, <1>14, <1>15 DEF JoinInv

\* The next call of a thread
LEMMA NextMild ==
  ASSUME GInv, OInv, NEW t \in Thread, todo[t] # << >>
  PROVE  /\ Head(todo[t]) \in Calls /\ Head(todo[t]) \in ToSet(todo[t])
         /\ MildCall(prog, Head(todo[t]))
         /\ t # Main => Head(todo[t]).op \notin {"spawn", "join", "stop"}
<1>1. todo[t] \in Seq(Calls)
  BY DEF GInv, TypeInv
<1>2. Head(todo[t]) \in Calls /\ Head(todo[t]) \in ToSet(todo[t])
  BY <1>1, TheRest
<1>. QED
  BY <1>2 DEF OInv, JoinInv, MainCall, OtherCall

\* The queue after a post and after the end of a wait
LEMMA QueueCalm ==
  ASSUME NEW p, ctx \in Context, ctx.ready \in Seq(Calm(p)), NEW h \in Calm(p)
  PROVE  /\ Queued(ctx, h).ready \in Seq(Calm(p))
         /\ Completed(ctx, h).ready \in Seq(Calm(p))
<1>. DEFINE g == [h EXCEPT !.guarded = ctx.guard]
            r == ctx.ready
<1>1. g \in Calm(p)
  BY DEF Calm, Handlers, Context
<1>. HIDE DEF g
<1>2. Append(r, g) \in Seq(Calm(p)) /\ Append(r, h) \in Seq(Calm(p))
  BY <1>1
<1>3. Queued(ctx, h).ready = Append(r, g) /\ Completed(ctx, h).ready = Append(r, h)
  BY DEF Queued, Completed, Context, g
<1>. QED
  BY <1>2, <1>3

\* The handlers that wait stay calm.
LEMMA HandlersStep ==
  ASSUME GInv, OInv, NEW t \in Thread, ThreadStep(t)
  PROVE  HandlersInv'
<1>1. todo[t] # << >> /\ prog' = prog
  BY Dispatch
<1>. DEFINE c == Head(todo[t])
<1>2. MildCall(prog, c) /\ (c.op # "cancel" \/ prog = Future)
  <2>1. MildCall(prog, c)
    BY <1>1, NextMild
  <2>2. prog # Future => ~Has(todo[t], "cancel")
    BY DEF GInv, NoCancel, Future
  <2>3. c.op = "cancel" => Has(todo[t], "cancel")
    BY <1>1, TailCalls DEF GInv, TypeInv
  <2>. QED
    BY <2>1, <2>2, <2>3
<1>3. /\ ctx \in Context /\ timer \in Timer /\ strand \in Strand
      /\ ctx.ready \in Seq(Calm(prog))
      /\ strand.turn \in Seq(Calm(prog)) /\ strand.next \in Seq(Calm(prog))
      /\ timer.handler \in Calm(prog) /\ ~timer.handler.guarded
      /\ prog # "Strand_Example" => strand = Free
  BY DEF GInv, TypeInv, OInv, HandlersInv
<1>4. Handler("invoker", 0) \in Calm("Strand_Example") /\ Handler("message", 0) \in Calm(prog) /\ ~Handler("message", 0).guarded
  <2>1. "invoker" \in CalmNames("Strand_Example")
    BY DEF CalmNames
  <2>. QED
    BY <2>1, CalmOnes
<1>5. CASE ctx'.ready = ctx.ready /\ strand' = strand /\ timer'.handler = timer.handler
  BY <1>1, <1>3, <1>5 DEF HandlersInv
<1>6. CASE JoinThread(t) \/ FallAsleep(t) \/ WakeUp(t) \/ LockMutex(t) \/ Settle(t) \/ LeaveStrand(t) \/ SpawnThread(t)
  BY <1>5, <1>6 DEF JoinThread, FallAsleep, WakeUp, LockMutex, Settle, LeaveStrand, SpawnThread
<1>7. CASE SetExpiry(t)
  <2>1. ctx' = ctx /\ strand' = strand /\ timer'.handler = timer.handler
    BY <1>3, <1>7 DEF SetExpiry, Timer
  <2>. QED
    BY <1>5, <2>1
<1>8. CASE MakeGuard(t) \/ GuardReset(t) \/ StopContext(t) \/ LeaveHandler(t) \/ RunReturns(t)
  <2>1. strand' = strand /\ timer' = timer
    BY <1>8 DEF MakeGuard, GuardReset, StopContext, LeaveHandler, RunReturns
  <2>2. ctx'.ready = ctx.ready
    BY <1>3, <1>8 DEF MakeGuard, GuardReset, StopContext, LeaveHandler, RunReturns, WorkFinished, Context
  <2>. QED
    BY <1>5, <2>1, <2>2
<1>9. CASE PostHandler(t)
  <2>1. c.handler \in Calm(prog)
    BY <1>2, <1>9 DEF PostHandler, At, MildCall, Brings
  <2>2. ctx' = Queued(ctx, c.handler) /\ strand' = strand /\ timer' = timer
    BY <1>9 DEF PostHandler, Arg
  <2>3. ctx'.ready \in Seq(Calm(prog))
    BY <1>3, <2>1, <2>2, QueueCalm
  <2>. QED
    BY <1>1, <1>3, <2>2, <2>3 DEF HandlersInv
<1>10. CASE PostToStrand(t)
  <2>1. c.handler \in Calm(prog) /\ prog = "Strand_Example"
    BY <1>2, <1>10 DEF PostToStrand, At, MildCall, Brings
  <2>2. timer' = timer /\ (ctx' = ctx \/ ctx' = Queued(ctx, Handler("invoker", 0)))
    BY <1>10 DEF PostToStrand
  <2>3. ctx'.ready \in Seq(Calm(prog))
    BY <1>3, <1>4, <2>1, <2>2, QueueCalm
  <2>4. \/ strand' = [strand EXCEPT !.next = Append(@, c.handler)]
        \/ strand' = [strand EXCEPT !.locked = TRUE, !.turn = <<c.handler>>]
    BY <1>10 DEF PostToStrand, Arg
  <2>5. CASE strand' = [strand EXCEPT !.next = Append(@, c.handler)]
    <3>1. strand'.turn = strand.turn /\ strand'.next = Append(strand.next, c.handler)
      BY <1>3, <2>5 DEF Strand
    <3>2. Append(strand.next, c.handler) \in Seq(Calm(prog))
      BY <1>3, <2>1
    <3>. QED
      BY <1>1, <1>3, <2>1, <2>2, <2>3, <3>1, <3>2 DEF HandlersInv
  <2>6. CASE strand' = [strand EXCEPT !.locked = TRUE, !.turn = <<c.handler>>]
    <3>1. strand'.turn = <<c.handler>> /\ strand'.next = strand.next
      BY <1>3, <2>6 DEF Strand
    <3>2. <<c.handler>> \in Seq(Calm(prog))
      BY <2>1
    <3>. QED
      BY <1>1, <1>3, <2>1, <2>2, <2>3, <3>1, <3>2 DEF HandlersInv
  <2>. QED
    BY <2>4, <2>5, <2>6
<1>11. CASE StartWait(t)
  <2>1. c.handler \in Calm(prog) /\ ~c.handler.guarded
    BY <1>2, <1>11 DEF StartWait, At, MildCall, Brings
  <2>2. timer'.handler = c.handler /\ strand' = strand /\ ctx'.ready = ctx.ready
    BY <1>3, <1>11 DEF StartWait, Arg, Armed, Timer, Context
  <2>. QED
    BY <1>1, <1>3, <2>1, <2>2 DEF HandlersInv
<1>12. CASE CountMessage(t)
  <2>1. timer' = timer \/ timer' = [Armed(timer, Handler("message", 0)) EXCEPT !.at = @ + 1]
    BY <1>12 DEF CountMessage
  <2>2. timer'.handler = timer.handler \/ timer'.handler = Handler("message", 0)
    BY <1>3, <2>1 DEF Armed, Timer
  <2>3. strand' = strand /\ ctx'.ready = ctx.ready
    BY <1>3, <1>12 DEF CountMessage, Context
  <2>. QED
    BY <1>1, <1>3, <1>4, <2>2, <2>3 DEF HandlersInv
<1>13. CASE CancelTimer(t)
  <2>. DEFINE a == [timer.handler EXCEPT !.ec = "aborted"]
  <2>1. a \in Calm(prog)
    BY <1>3 DEF Calm, Handlers, Outcome
  <2>. HIDE DEF a
  <2>2. timer'.handler = timer.handler /\ strand' = strand
    BY <1>3, <1>13 DEF CancelTimer, Timer
  <2>3. ctx' = ctx \/ ctx' = Completed(ctx, a)
    BY <1>13 DEF CancelTimer, a
  <2>4. ctx'.ready \in Seq(Calm(prog))
    BY <1>3, <2>1, <2>3, QueueCalm
  <2>. QED
    BY <1>1, <1>3, <2>2, <2>4 DEF HandlersInv
<1>14. CASE TakeHandler(t)
  <2>1. ctx.ready # << >> /\ ctx'.ready = Tail(ctx.ready) /\ strand' = strand /\ timer' = timer
    BY <1>3, <1>14 DEF TakeHandler, Context
  <2>2. ctx'.ready \in Seq(Calm(prog))
    BY <1>3, <2>1
  <2>. QED
    BY <1>1, <1>3, <2>1, <2>2 DEF HandlersInv
<1>15. CASE TakeTurn(t)
  <2>1. prog = "Strand_Example"
    BY <1>2, <1>15 DEF TakeTurn, At, MildCall
  <2>2. /\ strand.turn # << >> /\ strand' = [strand EXCEPT !.turn = Tail(@)]
        /\ ctx' = ctx /\ timer' = timer
    BY <1>15 DEF TakeTurn
  <2>3. strand'.turn \in Seq(Calm(prog)) /\ strand'.next \in Seq(Calm(prog))
    BY <1>3, <2>2 DEF Strand
  <2>. QED
    BY <1>1, <1>3, <2>1, <2>2, <2>3 DEF HandlersInv
<1>16. CASE EndTurn(t)
  <2>1. prog = "Strand_Example"
    BY <1>2, <1>16 DEF EndTurn, At, MildCall
  <2>2. /\ strand' = [locked |-> strand.next # << >>, turn |-> strand.next, next |-> << >>]
        /\ timer' = timer /\ (ctx' = ctx \/ ctx' = Queued(ctx, Handler("invoker", 0)))
    BY <1>16 DEF EndTurn
  <2>3. ctx'.ready \in Seq(Calm(prog))
    BY <1>3, <1>4, <2>1, <2>2, QueueCalm
  <2>4. strand'.turn \in Seq(Calm(prog)) /\ strand'.next \in Seq(Calm(prog))
    BY <1>3, <2>2
  <2>. QED
    BY <1>1, <1>3, <2>1, <2>2, <2>3, <2>4 DEF HandlersInv
<1>17. CASE ExpireTimer(t)
  <2>1. timer'.handler = timer.handler /\ strand' = strand /\ ctx' = Completed(ctx, timer.handler)
    BY <1>3, <1>17 DEF ExpireTimer, Timer
  <2>2. ctx'.ready \in Seq(Calm(prog))
    BY <1>3, <2>1, QueueCalm
  <2>. QED
    BY <1>1, <1>3, <2>1, <2>2 DEF HandlersInv
<1>. QED
  BY <1>6, <1>7, <1>8, <1>9, <1>10, <1>11, <1>12, <1>13, <1>14, <1>15, <1>16, <1>17 DEF ThreadStep

\* Every step of these programs keeps the invariant.
LEMMA OStep == ASSUME GInv, OInv, [Next]_vars PROVE OInv'
<1>1. CASE UNCHANGED vars
  BY <1>1 DEF vars, OInv, HandlersInv, JoinInv, Uses
<1>2. CASE Tick
  BY <1>2 DEF Tick, OInv, HandlersInv, JoinInv, Uses
<1>3. ASSUME NEW t \in Thread, ThreadStep(t) PROVE OInv'
  <2>1. prog' = prog
    BY <1>3, Dispatch
  <2>2. HandlersInv'
    BY <1>3, HandlersStep
  <2>3. todo[t] # << >> /\ (Goes(t) \/ Enters(t) \/ SpawnThread(t) \/ ExpireTimer(t))
    BY <1>3, Moves
  <2>4. CASE ExpireTimer(t)
    <3>1. todo' = todo
      BY <2>4 DEF ExpireTimer
    <3>. QED
      BY <2>1, <2>2, <3>1 DEF OInv, JoinInv, Uses
  <2>. QED
    BY <2>1, <2>2, <2>3, <2>4, Advancing, Entering, Starting DEF OInv
<1>. QED
  BY <1>1, <1>2, <1>3 DEF Next

Common == prog \notin Backgrounds \cup Detachers

\* It holds at the start of a program.
LEMMA OInit == ASSUME Init, Common PROVE OInv
<1>1. /\ todo[Main] = Program[prog] /\ \A t \in Thread : t # Main => todo[t] = << >>
      /\ Main \in Thread
  BY DEF Init, Main, Thread
<1>2. TableOK(prog, todo[Main])
  BY <1>1, SizeAssumption, CommonTable DEF Init, Common
<1>3. ToSet(<< >>) = {}
  BY DEF ToSet
<1>4. \A t \in Thread : t # Main => (\A c \in ToSet(todo[t]) : OtherCall(prog, c)) /\ ~Uses(t)
  BY <1>1, <1>3 DEF Uses
<1>5. prog \in Runless => \A t \in Thread : Lacks(todo[t], Adding \cup {"run", "stop"})
  BY <1>1, <1>2, <1>3 DEF TableOK, Lacks
<1>6. JoinInv
  BY <1>2, <1>4, <1>5 DEF JoinInv, TableOK
<1>7. Handler("print", 0) \in Calm(prog) /\ ~Handler("print", 0).guarded
  BY CalmOnes
<1>8. HandlersInv
  BY <1>7 DEF Init, HandlersInv, Free
<1>. QED
  BY <1>6, <1>8 DEF OInv

\* Nobody uses the io_context at their end.
LEMMA OEnd == ASSUME GInv, OInv PROVE NoDanglingContext
<1>1. SUFFICES ASSUME Ended, NEW t \in Thread, Uses(t) PROVE FALSE
  BY DEF NoDanglingContext
<1>2. todo[Main] = << >> /\ ToSet(<< >>) = {}
  BY <1>1 DEF Ended, ToSet
<1>3. t # Main
  BY <1>1, <1>2, UsesCalls
<1>. QED
  BY <1>1, <1>2, <1>3 DEF OInv, JoinInv

(* The programs whose handler starts a thread that stops the io_context.   *)

StopIt == Post(Handler("stop", 0))

\* One handler waits, and it is one of these.
Waiting(A) == Len(ctx.ready) = 1 /\ ctx.ready[1].name \in A

\* The guard keeps run() going.
Held == ctx.guard /\ ctx.stopped = "no"

\* The main thread returns to run() from the handler.
Returns ==
    \/ todo[Main] \in {<<Leave, Run>>, <<Run>>}
    \/ \E c \in Calls : todo[Main] = <<c, Leave, Run>> /\ c.op \in {"sleep", "asleep"}

\* The handler is posted, called, and starts the thread.
Detaches ==
    /\ todo[1] = << >> /\ ctx.stopped = "no"
    /\ \/ /\ ctx.ready = << >>
          /\ \E k \in {"detach", "detach_loop"} :
                \/ todo[Main] = <<Guard, Post(Handler(k, 1)), Run>>
                \/ todo[Main] = <<Post(Handler(k, 1)), Run>> /\ ctx.guard
       \/ Waiting({"detach", "detach_loop"}) /\ todo[Main] = <<Run>> /\ ctx.guard
       \/ /\ ctx.ready = << >> /\ ctx.guard
          /\ todo[Main] \in {<<Spawn(1, PostsStop), Leave, Run>>,
                             <<Spawn(1, PostsStop), Sleep(2), Leave, Run>>}

\* The thread sleeps and posts the stop.
Detached ==
    /\ Returns /\ Held
    /\ \/ /\ ctx.ready = << >>
          /\ \/ todo[1] = <<StopIt>>
             \/ \E c \in Calls : todo[1] = <<c, StopIt>> /\ c.op \in {"sleep", "asleep"}
       \/ Waiting({"stop"}) /\ todo[1] = << >>

Stopped ==
    /\ todo[1] = << >> /\ ctx.ready = << >>
    /\ \/ todo[Main] = <<Call("stop"), Leave, Run>>
       \/ todo[Main] \in {<<Leave, Run>>, <<Run>>, << >>} /\ ctx.stopped # "no"

DetachInv ==
    /\ strand = Free /\ ~timer.waiting
    /\ \A t \in Thread : t # Main /\ t # 1 => todo[t] = << >>
    /\ Detaches \/ Detached \/ Stopped

\* The calls of the two threads
LEMMA DetachCalls ==
  /\ \A k : Post(Handler(k, 1)).op = "post" /\ Post(Handler(k, 1)).handler = Handler(k, 1)
  /\ \A t, b : Spawn(t, b).op = "spawn" /\ Spawn(t, b).thread = t /\ Spawn(t, b).body = b
  /\ Guard.op = "make_work_guard" /\ Run.op = "run" /\ Leave.op = "leave" /\ Call("stop").op = "stop"
  /\ StopIt.op = "post" /\ StopIt.handler = Handler("stop", 0)
  /\ Sleep(2).op = "sleep" /\ Sleep(2) \in Calls
  /\ \A k \in {"detach", "detach_loop", "stop"}, n \in {0, 1} : Handler(k, n) \in Handlers /\ Handler(k, n).name = k
  /\ \A a, b, c, d : Tail(<<a, b, c, d>>) = <<b, c, d>> /\ <<a, b, c, d>> # << >>
  /\ \A a, b, c : Tail(<<a, b, c>>) = <<b, c>> /\ <<a, b, c>> # << >>
  /\ \A a, b : Tail(<<a, b>>) = <<b>> /\ <<a, b>> # << >>
  /\ \A a : Tail(<<a>>) = << >> /\ <<a>> # << >>
  /\ \A a, b, c : <<a>> \o Tail(<<b, c>>) = <<a, c>>
  /\ \A a, b, c, d : <<a>> \o Tail(<<b, c, d>>) = <<a, c, d>>
<1>1. /\ \A k : Post(Handler(k, 1)).op = "post" /\ Post(Handler(k, 1)).handler = Handler(k, 1)
      /\ \A t, b : Spawn(t, b).op = "spawn" /\ Spawn(t, b).thread = t /\ Spawn(t, b).body = b
      /\ Guard.op = "make_work_guard" /\ Run.op = "run" /\ Leave.op = "leave" /\ Call("stop").op = "stop"
      /\ StopIt.op = "post" /\ StopIt.handler = Handler("stop", 0)
      /\ Sleep(2).op = "sleep"
  BY CalmOnes DEF StopIt
<1>2. Sleep(2) \in Calls
  BY DEF Sleep, Calls, Plain, Basic
<1>3. \A k \in {"detach", "detach_loop", "stop"}, n \in {0, 1} : Handler(k, n) \in Handlers /\ Handler(k, n).name = k
  BY DEF Handler, Handlers, Names, Outcome
<1>4. /\ \A a, b, c, d : Tail(<<a, b, c, d>>) = <<b, c, d>> /\ <<a, b, c, d>> # << >>
      /\ \A a, b, c : Tail(<<a, b, c>>) = <<b, c>> /\ <<a, b, c>> # << >>
      /\ \A a, b : Tail(<<a, b>>) = <<b>> /\ <<a, b>> # << >>
      /\ \A a : Tail(<<a>>) = << >> /\ <<a>> # << >>
  OBVIOUS
<1>5. \A a, b : <<a>> \o <<b>> = <<a, b>>
  <2>1. SUFFICES ASSUME NEW a, NEW b PROVE <<a>> \o <<b>> = <<a, b>>
    OBVIOUS
  <2>. DEFINE S == {a, b}
  <2>2. a \in S /\ b \in S
    OBVIOUS
  <2>. HIDE DEF S
  <2>3. <<a>> \in Seq(S) /\ <<a, b>> = Append(<<a>>, b)
    BY <2>2
  <2>. QED
    BY <2>2, <2>3, AppendIsConcat
<1>6. \A a, b, c : <<a>> \o <<b, c>> = <<a, b, c>>
  <2>1. SUFFICES ASSUME NEW a, NEW b, NEW c PROVE <<a>> \o <<b, c>> = <<a, b, c>>
    OBVIOUS
  <2>. DEFINE S == {a, b, c}
  <2>2. a \in S /\ b \in S /\ c \in S
    OBVIOUS
  <2>. HIDE DEF S
  <2>3. /\ <<a>> \in Seq(S) /\ <<b>> \in Seq(S) /\ <<c>> \in Seq(S)
        /\ <<a, b>> \in Seq(S) /\ <<a, b, c>> = Append(<<a, b>>, c)
    BY <2>2
  <2>4. <<a>> \o <<b>> = <<a, b>> /\ <<b>> \o <<c>> = <<b, c>>
    BY <1>5
  <2>5. (<<a>> \o <<b>>) \o <<c>> = <<a>> \o (<<b>> \o <<c>>)
    BY <2>3, ConcatAssociative
  <2>6. <<a, b>> \o <<c>> = <<a, b, c>>
    BY <2>2, <2>3, AppendIsConcat
  <2>. QED
    BY <2>4, <2>5, <2>6
<1>. QED
  BY <1>1, <1>2, <1>3, <1>4, <1>5, <1>6

\* A thread begins or ends a pause that comes before r.
LEMMA Pauses ==
  ASSUME GInv, NEW t \in Thread, NEW c \in Calls, NEW r, todo[t] = <<c>> \o r, r \in Seq(Calls),
         c.op \in {"sleep", "asleep"}, ThreadStep(t)
  PROVE  /\ UNCHANGED <<ctx, timer, strand>>
         /\ \/ todo' = [todo EXCEPT ![t] = r]
            \/ \E d \in Calls : d.op = "asleep" /\ todo' = [todo EXCEPT ![t] = <<d>> \o r]
<1>1. Head(todo[t]) = c /\ Tail(todo[t]) = r
  OBVIOUS
<1>2. FallAsleep(t) \/ WakeUp(t)
  BY <1>1, Dispatch
<1>3. CASE WakeUp(t)
  <2>1. << >> \o r = r
    BY ConcatEmptySeq
  <2>. QED
    BY <1>1, <1>3, <2>1 DEF WakeUp, Then
<1>4. CASE FallAsleep(t)
  <2>1. c.op = "sleep"
    BY <1>1, <1>4 DEF FallAsleep, At
  <2>2. c.for \in Int
    BY <2>1 DEF Calls, Plain, Basic, Bare, Special
  <2>3. Asleep(t) \in Calls /\ Asleep(t).op = "asleep"
    BY <1>1, <2>2 DEF Asleep, Arg, Calls, Plain, Basic, GInv, TypeInv
  <2>4. todo' = [todo EXCEPT ![t] = <<Asleep(t)>> \o r] /\ UNCHANGED <<ctx, timer, strand>>
    BY <1>1, <1>4 DEF FallAsleep, Then
  <2>. QED
    BY <2>3, <2>4
<1>. QED
  BY <1>2, <1>3, <1>4

\* A handler is posted to the empty queue.
LEMMA QueuesOne ==
  ASSUME ctx \in Context, ctx.ready = << >>, NEW h \in Handlers, ctx' = Queued(ctx, h)
  PROVE  /\ Len(ctx'.ready) = 1 /\ ctx'.ready[1].name = h.name
         /\ ctx'.guard = ctx.guard /\ ctx'.stopped = ctx.stopped
<1>. DEFINE g == [h EXCEPT !.guarded = ctx.guard]
<1>1. g.name = h.name
  BY DEF Handlers
<1>. HIDE DEF g
<1>2. ctx'.ready = Append(<< >>, g) /\ ctx'.guard = ctx.guard /\ ctx'.stopped = ctx.stopped
  BY DEF Queued, Context, g
<1>3. Append(<< >>, g) = <<g>>
  OBVIOUS
<1>. QED
  BY <1>1, <1>2, <1>3

\* The one handler of a queue
LEMMA OnlyOne ==
  ASSUME NEW q \in Seq(Handlers), Len(q) = 1
  PROVE  q # << >> /\ Head(q) = q[1] /\ Tail(q) = << >>
<1>1. q # << >> /\ Head(q) = q[1]
  <2>1. q # << >>
    <3>1. SUFFICES ASSUME q = << >> PROVE FALSE
      OBVIOUS
    <3>2. Len(<< >>) = 0 /\ 0 # 1
      OBVIOUS
    <3>3. Len(q) = Len(<< >>)
      BY <3>1, Zenon
    <3>. QED
      BY <3>2, <3>3, Zenon
  <2>. QED
    BY <2>1, HeadTailProperties
<1>2. Tail(q) \in Seq(Handlers) /\ Len(Tail(q)) = Len(q) - 1
  BY <1>1, HeadTailProperties
<1>3. Len(Tail(q)) = 0
  BY <1>2
<1>. QED
  BY <1>1, <1>2, <1>3, EmptySeq

\* The main thread posts the handler and runs it.
LEMMA DetachesStep ==
  ASSUME GInv, GInv', DetachInv, Detaches, NEW t \in Thread, ThreadStep(t)
  PROVE  DetachInv'
<1>. DEFINE M == todo[Main]
<1>1. /\ todo \in [Thread -> Seq(Calls)] /\ ctx \in Context /\ timer \in Timer
      /\ Main \in Thread /\ 1 \in Thread /\ 1 # Main
  BY DEF GInv, TypeInv, Main, Thread
<1>2. t = Main /\ M # << >>
  BY Dispatch DEF DetachInv, Detaches
<1>3. ASSUME NEW u, todo' = [todo EXCEPT ![Main] = u]
      PROVE  todo'[Main] = u /\ \A v \in Thread : v # Main => todo'[v] = << >>
  BY <1>1, <1>3 DEF DetachInv, Detaches
<1>4. \A r : r = << >> \o Tail(M) /\ Then(Main, << >>) => todo' = [todo EXCEPT ![Main] = r]
  BY DEF Then
<1>5. ASSUME NEW k \in {"detach", "detach_loop"}, M = <<Guard, Post(Handler(k, 1)), Run>>, ctx.ready = << >>
      PROVE  DetachInv'
  <2>1. Head(M) = Guard
    BY <1>5, Tails
  <2>2. MakeGuard(Main)
    BY <1>2, <2>1, Dispatch, DetachCalls
  <2>3. todo' = [todo EXCEPT ![Main] = <<Post(Handler(k, 1)), Run>>]
    <3>1. << >> \o Tail(M) = <<Post(Handler(k, 1)), Run>>
      BY <1>5, Tails
    <3>2. Then(Main, << >>)
      BY <2>2 DEF MakeGuard
    <3>. QED
      BY <1>4, <3>1, <3>2
  <2>4. UNCHANGED <<timer, strand>> /\ ctx'.ready = << >> /\ ctx'.guard /\ ctx'.stopped = ctx.stopped
    BY <1>1, <1>5, <2>2 DEF MakeGuard, Context
  <2>. QED
    BY <1>1, <1>3, <2>3, <2>4 DEF DetachInv, Detaches
<1>6. ASSUME NEW k \in {"detach", "detach_loop"}, M = <<Post(Handler(k, 1)), Run>>, ctx.ready = << >>, ctx.guard
      PROVE  DetachInv'
  <2>1. Head(M) = Post(Handler(k, 1))
    BY <1>6, Tails
  <2>2. PostHandler(Main) /\ Arg(Main).handler = Handler(k, 1)
    BY <1>2, <2>1, Dispatch, DetachCalls DEF Arg
  <2>3. todo' = [todo EXCEPT ![Main] = <<Run>>]
    <3>1. << >> \o Tail(M) = <<Run>>
      BY <1>6, Tails
    <3>2. Then(Main, << >>)
      BY <2>2 DEF PostHandler
    <3>. QED
      BY <1>4, <3>1, <3>2
  <2>4. UNCHANGED <<timer, strand>> /\ ctx' = Queued(ctx, Handler(k, 1))
    BY <2>2 DEF PostHandler
  <2>5. Handler(k, 1) \in Handlers /\ Handler(k, 1).name = k
    BY DetachCalls
  <2>6. Waiting({"detach", "detach_loop"})' /\ ctx'.guard /\ ctx'.stopped = ctx.stopped
    BY <1>1, <1>6, <2>4, <2>5, QueuesOne DEF Waiting
  <2>. QED
    BY <1>1, <1>3, <2>3, <2>4, <2>6 DEF DetachInv, Detaches
<1>7. CASE Waiting({"detach", "detach_loop"}) /\ M = <<Run>> /\ ctx.guard
  <2>1. Head(M).op = "run"
    BY <1>7, DetachCalls, Tails
  <2>2. TakeHandler(Main) \/ RunReturns(Main)
    BY <1>2, <2>1, Dispatch DEF DetachInv, ExpireTimer
  <2>3. CASE RunReturns(Main)
    <3>1. ctx'.stopped = "spent" /\ ctx'.guard
      BY <1>1, <1>7, <2>3 DEF RunReturns, Context, Detaches
    <3>. QED
      BY <3>1 DEF GInv, GuardInv, GuardHolds
  <2>4. CASE TakeHandler(Main)
    <3>1. ctx.ready \in Seq(Handlers) /\ Len(ctx.ready) = 1
      BY <1>1, <1>7 DEF Context, Waiting
    <3>2. Head(ctx.ready).name \in {"detach", "detach_loop"} /\ Tail(ctx.ready) = << >>
      BY <1>7, <3>1, OnlyOne DEF Waiting
    <3>3. Body(Head(ctx.ready)) \in {<<Spawn(1, PostsStop)>>, <<Spawn(1, PostsStop), Sleep(2)>>}
      BY <3>2 DEF Body
    <3>4. todo' = [todo EXCEPT ![Main] = (Body(Head(ctx.ready)) \o <<Leave>>) \o <<Run>>]
      BY <1>7, <2>4 DEF TakeHandler, First
    <3>5. (<<Spawn(1, PostsStop)>> \o <<Leave>>) \o <<Run>> = <<Spawn(1, PostsStop), Leave, Run>>
      BY Tails
    <3>6. (<<Spawn(1, PostsStop), Sleep(2)>> \o <<Leave>>) \o <<Run>> = <<Spawn(1, PostsStop), Sleep(2), Leave, Run>>
      BY FourCalls
    <3>7. todo' = [todo EXCEPT ![Main] = <<Spawn(1, PostsStop), Leave, Run>>]
          \/ todo' = [todo EXCEPT ![Main] = <<Spawn(1, PostsStop), Sleep(2), Leave, Run>>]
      BY <3>3, <3>4, <3>5, <3>6
    <3>8. UNCHANGED <<timer, strand>> /\ ctx'.ready = << >> /\ ctx'.guard /\ ctx'.stopped = ctx.stopped
      BY <1>1, <1>7, <2>4, <3>2 DEF TakeHandler, Context
    <3>9. /\ todo'[Main] \in {<<Spawn(1, PostsStop), Leave, Run>>, <<Spawn(1, PostsStop), Sleep(2), Leave, Run>>}
          /\ \A v \in Thread : v # Main => todo'[v] = << >>
      BY <1>3, <3>7
    <3>. QED
      BY <1>1, <3>8, <3>9 DEF DetachInv, Detaches
  <2>. QED
    BY <2>2, <2>3, <2>4
<1>8. ASSUME NEW r \in {<<Leave, Run>>, <<Sleep(2), Leave, Run>>}, Head(M) = Spawn(1, PostsStop), Tail(M) = r,
             ctx.ready = << >>, ctx.guard
      PROVE  DetachInv'
  <2>1. SpawnThread(Main) /\ Arg(Main).thread = 1 /\ Arg(Main).body = PostsStop
    BY <1>2, <1>8, Dispatch, DetachCalls DEF Arg
  <2>2. todo' = [todo EXCEPT ![Main] = r, ![1] = PostsStop] /\ UNCHANGED <<ctx, timer, strand>>
    BY <1>8, <2>1 DEF SpawnThread
  <2>3. todo'[Main] = r /\ todo'[1] = PostsStop /\ \A v \in Thread : v # Main /\ v # 1 => todo'[v] = << >>
    BY <1>1, <2>2 DEF DetachInv
  <2>4. PostsStop = <<Sleep(2), StopIt>> /\ Sleep(2) \in Calls /\ Sleep(2).op = "sleep"
    BY DetachCalls DEF PostsStop, StopIt
  <2>5. Returns'
    BY <1>8, <2>3, <2>4 DEF Returns
  <2>6. Held'
    BY <1>8, <2>2 DEF Held, Detaches
  <2>7. Detached'
    BY <1>8, <2>2, <2>3, <2>4, <2>5, <2>6 DEF Detached
  <2>. QED
    BY <2>2, <2>3, <2>7 DEF DetachInv
<1>9. CASE ctx.ready = << >> /\ ctx.guard /\ M = <<Spawn(1, PostsStop), Leave, Run>>
  BY <1>8, <1>9, Tails, DetachCalls
<1>10. CASE ctx.ready = << >> /\ ctx.guard /\ M = <<Spawn(1, PostsStop), Sleep(2), Leave, Run>>
  BY <1>8, <1>10, Tails, DetachCalls
<1>. QED
  BY <1>5, <1>6, <1>7, <1>9, <1>10 DEF Detaches

\* The thread stops the io_context, and the main thread returns from run().
LEMMA DetachedStep ==
  ASSUME GInv, GInv', DetachInv, Detached, NEW t \in Thread, ThreadStep(t)
  PROVE  DetachInv'
<1>. DEFINE M == todo[Main]
            W == todo[1]
<1>1. /\ todo \in [Thread -> Seq(Calls)] /\ ctx \in Context /\ timer \in Timer
      /\ Main \in Thread /\ 1 \in Thread /\ 1 # Main
  BY DEF GInv, TypeInv, Main, Thread
<1>2. t \in {Main, 1} /\ todo[t] # << >>
  BY Dispatch DEF DetachInv
<1>3. ASSUME NEW u, todo' = [todo EXCEPT ![t] = u]
      PROVE  todo'[t] = u /\ \A v \in Thread : v # t => todo'[v] = todo[v]
  BY <1>1, <1>3
<1>4. \A r : r = << >> \o Tail(todo[t]) /\ Then(t, << >>) => todo' = [todo EXCEPT ![t] = r]
  BY DEF Then
<1>5. ctx.guard /\ ctx.stopped = "no"
  BY DEF Detached, Held
<1>6. CASE t = Main
  <2>1. ASSUME NEW c \in Calls, M = <<c, Leave, Run>>, c.op \in {"sleep", "asleep"}
        PROVE  DetachInv'
    <3>1. M = <<c>> \o <<Leave, Run>> /\ <<Leave, Run>> \in Seq(Calls)
      <4>1. Leave \in Calls /\ Run \in Calls
        BY CalmOnes DEF Leave, Run, Calls, Special, Plain, Basic, Bare, Call
      <4>2. <<c>> \o <<Leave, Run>> = <<c>> \o Tail(M) /\ <<c>> \o Tail(M) = <<c, Leave, Run>>
        BY <2>1, DetachCalls
      <4>. QED
        BY <2>1, <4>1, <4>2
    <3>2. PICK r \in Seq(Calls) : r = <<Leave, Run>> /\ M = <<c>> \o r
      BY <3>1
    <3>3. UNCHANGED <<ctx, timer, strand>>
          /\ (\/ todo' = [todo EXCEPT ![t] = r]
              \/ \E d \in Calls : d.op = "asleep" /\ todo' = [todo EXCEPT ![t] = <<d>> \o r])
      BY <1>6, <2>1, <3>2, Pauses
    <3>4. \A d : <<d>> \o r = <<d, Leave, Run>>
      <4>1. SUFFICES ASSUME NEW d PROVE <<d>> \o r = <<d, Leave, Run>>
        OBVIOUS
      <4>2. <<d>> \o Tail(<<c, Leave, Run>>) = <<d, Leave, Run>>
        BY DetachCalls
      <4>. QED
        BY <3>2, <4>2, DetachCalls
    <3>5. Returns' /\ \A v \in Thread : v # Main => todo'[v] = todo[v]
      <4>1. CASE todo' = [todo EXCEPT ![t] = r]
        BY <1>3, <1>6, <3>2, <4>1 DEF Returns
      <4>2. ASSUME NEW d \in Calls, d.op = "asleep", todo' = [todo EXCEPT ![t] = <<d>> \o r]
            PROVE  Returns' /\ \A v \in Thread : v # Main => todo'[v] = todo[v]
        <5>1. todo' = [todo EXCEPT ![t] = <<d, Leave, Run>>]
          BY <3>4, <4>2
        <5>. QED
          BY <1>3, <1>6, <4>2, <5>1 DEF Returns
      <4>. QED
        BY <3>3, <4>1, <4>2
    <3>6. Detached'
      BY <1>1, <3>3, <3>5 DEF Detached, Held, Waiting
    <3>. QED
      BY <3>3, <3>5, <3>6 DEF DetachInv
  <2>2. CASE M = <<Leave, Run>>
    <3>1. LeaveHandler(Main)
      BY <1>6, <2>2, Tails, DetachCalls, Dispatch
    <3>2. todo' = [todo EXCEPT ![t] = <<Run>>]
      <4>1. << >> \o Tail(M) = <<Run>> /\ Then(Main, << >>)
        BY <2>2, <3>1, Tails DEF LeaveHandler
      <4>. QED
        BY <1>4, <1>6, <4>1
    <3>3. UNCHANGED <<timer, strand>> /\ ctx' = WorkFinished(ctx)
      BY <3>1 DEF LeaveHandler
    <3>4. ctx'.ready = ctx.ready /\ ctx'.guard
      BY <1>1, <1>5, <3>3, FinishesOne
    <3>5. ctx'.stopped = "no"
      <4>1. ctx'.stopped # "spent"
        BY <3>4 DEF GInv, GuardInv, GuardHolds
      <4>2. ctx'.stopped \in {"no", "spent"}
        BY <1>1, <1>5, <3>3 DEF WorkFinished, Context
      <4>. QED
        BY <4>1, <4>2
    <3>6. todo'[Main] = <<Run>> /\ \A v \in Thread : v # Main => todo'[v] = todo[v]
      BY <1>3, <1>6, <3>2
    <3>7. Detached'
      BY <1>1, <3>4, <3>5, <3>6 DEF Detached, Held, Waiting, Returns
    <3>. QED
      BY <3>3, <3>6, <3>7 DEF DetachInv
  <2>3. CASE M = <<Run>>
    <3>1. TakeHandler(Main) \/ RunReturns(Main)
      BY <1>6, <2>3, Tails, DetachCalls, Dispatch DEF DetachInv, ExpireTimer
    <3>2. CASE RunReturns(Main)
      <4>1. ctx'.stopped = "spent" /\ ctx'.guard
        BY <1>1, <1>5, <3>2 DEF RunReturns, Context
      <4>. QED
        BY <4>1 DEF GInv, GuardInv, GuardHolds
    <3>3. CASE TakeHandler(Main)
      <4>1. Waiting({"stop"}) /\ todo[1] = << >>
        BY <3>3 DEF Detached, TakeHandler
      <4>2. Head(ctx.ready).name = "stop" /\ Tail(ctx.ready) = << >>
        BY <1>1, <4>1, OnlyOne DEF Waiting, Context
      <4>3. Body(Head(ctx.ready)) = <<Call("stop")>>
        BY <4>2 DEF Body
      <4>4. todo' = [todo EXCEPT ![t] = (<<Call("stop")>> \o <<Leave>>) \o <<Run>>]
        BY <1>6, <2>3, <3>3, <4>3 DEF TakeHandler, First
      <4>5. todo' = [todo EXCEPT ![t] = <<Call("stop"), Leave, Run>>]
        BY <4>4, Tails
      <4>6. UNCHANGED <<timer, strand>> /\ ctx'.ready = << >>
        BY <1>1, <3>3, <4>2 DEF TakeHandler, Context
      <4>7. todo'[Main] = <<Call("stop"), Leave, Run>> /\ \A v \in Thread : v # Main => todo'[v] = todo[v]
        BY <1>3, <1>6, <4>5
      <4>. QED
        BY <1>1, <4>1, <4>6, <4>7 DEF DetachInv, Stopped
    <3>. QED
      BY <3>1, <3>2, <3>3
  <2>. QED
    BY <2>1, <2>2, <2>3 DEF Detached, Returns
<1>7. CASE t = 1
  <2>1. ctx.ready = << >> /\ Returns
    BY <1>2, <1>7 DEF Detached
  <2>2. ASSUME NEW c \in Calls, W = <<c, StopIt>>, c.op \in {"sleep", "asleep"}
        PROVE  DetachInv'
    <3>1. PICK r \in Seq(Calls) : r = <<StopIt>> /\ \A d : <<d>> \o r = <<d, StopIt>>
      <4>1. StopIt \in Calls
        BY DetachCalls DEF StopIt, Post, Calls, Plain, Basic
      <4>2. PICK e : e = StopIt
        OBVIOUS
      <4>3. Tail(<<c, e>>) = <<e>> /\ \A d : <<d>> \o Tail(<<c, e>>) = <<d, e>>
        <5>1. Tail(<<c, e>>) = <<e>>
          BY DetachCalls
        <5>2. SUFFICES ASSUME NEW d PROVE <<d>> \o Tail(<<c, e>>) = <<d, e>>
          BY <5>1
        <5>. QED
          BY DetachCalls
      <4>4. \A d : <<d>> \o <<e>> = <<d, e>>
        BY <4>3
      <4>5. <<e>> \in Seq(Calls)
        BY <4>1, <4>2
      <4>. QED
        BY <4>2, <4>4, <4>5, Zenon
    <3>2. UNCHANGED <<ctx, timer, strand>>
          /\ (\/ todo' = [todo EXCEPT ![t] = r]
              \/ \E d \in Calls : d.op = "asleep" /\ todo' = [todo EXCEPT ![t] = <<d>> \o r])
      <4>1. todo[t] = <<c>> \o r
        BY <1>7, <2>2, <3>1
      <4>2. c.op \in {"sleep", "asleep"}
        BY <2>2
      <4>. QED
        BY <4>1, <4>2, Pauses
    <3>3. \/ todo' = [todo EXCEPT ![t] = <<StopIt>>]
          \/ \E d \in Calls : d.op = "asleep" /\ todo' = [todo EXCEPT ![t] = <<d, StopIt>>]
      BY <3>1, <3>2
    <3>4. /\ todo'[1] = <<StopIt>> \/ \E d \in Calls : todo'[1] = <<d, StopIt>> /\ d.op \in {"sleep", "asleep"}
          /\ \A v \in Thread : v # 1 => todo'[v] = todo[v]
      BY <1>3, <1>7, <3>3
    <3>5. Returns' /\ Held'
      BY <1>1, <1>5, <2>1, <3>2, <3>4 DEF Returns, Held
    <3>6. Detached'
      BY <2>1, <3>2, <3>4, <3>5 DEF Detached
    <3>. QED
      BY <3>2, <3>4, <3>6 DEF DetachInv
  <2>3. CASE W = <<StopIt>>
    <3>1. PostHandler(1) /\ Arg(1).handler = Handler("stop", 0)
      BY <1>7, <2>3, Tails, DetachCalls, Dispatch DEF Arg
    <3>2. todo' = [todo EXCEPT ![t] = << >>]
      <4>1. << >> \o Tail(W) = << >> /\ Then(1, << >>)
        BY <2>3, <3>1, Tails DEF PostHandler
      <4>. QED
        BY <1>4, <1>7, <4>1
    <3>3. UNCHANGED <<timer, strand>> /\ ctx' = Queued(ctx, Handler("stop", 0))
      BY <3>1 DEF PostHandler
    <3>4. PICK n \in {0, 1} : n = 0
      OBVIOUS
    <3>5. Handler("stop", 0) \in Handlers /\ Handler("stop", 0).name = "stop"
      BY <3>4, DetachCalls
    <3>6. Waiting({"stop"})' /\ ctx'.guard /\ ctx'.stopped = "no"
      BY <1>1, <1>5, <2>1, <3>3, <3>5, QueuesOne DEF Waiting
    <3>7. todo'[1] = << >> /\ \A v \in Thread : v # 1 => todo'[v] = todo[v]
      BY <1>3, <1>7, <3>2
    <3>8. Returns'
      BY <1>1, <2>1, <3>7 DEF Returns
    <3>9. Detached'
      BY <3>6, <3>7, <3>8 DEF Detached, Held
    <3>. QED
      BY <3>3, <3>7, <3>9 DEF DetachInv
  <2>. QED
    BY <1>2, <1>7, <2>2, <2>3 DEF Detached
<1>. QED
  BY <1>2, <1>6, <1>7

\* Nothing happens after the stop.
LEMMA StoppedStep ==
  ASSUME GInv, DetachInv, Stopped, NEW t \in Thread, ThreadStep(t)
  PROVE  DetachInv'
<1>. DEFINE M == todo[Main]
<1>1. /\ todo \in [Thread -> Seq(Calls)] /\ ctx \in Context
      /\ Main \in Thread /\ 1 \in Thread /\ 1 # Main
  BY DEF GInv, TypeInv, Main, Thread
<1>2. t = Main /\ M # << >>
  BY Dispatch DEF DetachInv, Stopped
<1>3. ASSUME NEW u, todo' = [todo EXCEPT ![Main] = u]
      PROVE  todo'[Main] = u /\ \A v \in Thread : v # Main => todo'[v] = << >>
  BY <1>1, <1>3 DEF DetachInv, Stopped
<1>4. \A r : r = << >> \o Tail(M) /\ Then(Main, << >>) => todo' = [todo EXCEPT ![Main] = r]
  BY DEF Then
<1>5. CASE M = <<Call("stop"), Leave, Run>>
  <2>1. Head(M) = Call("stop") /\ << >> \o Tail(M) = <<Leave, Run>>
    BY <1>5, Tails
  <2>2. StopContext(Main)
    <3>1. Head(M).op = "stop"
      BY <2>1, DetachCalls
    <3>. QED
      BY <1>2, <3>1, Dispatch
  <2>3. todo' = [todo EXCEPT ![Main] = <<Leave, Run>>]
    BY <1>4, <2>1, <2>2 DEF StopContext
  <2>4. UNCHANGED <<timer, strand>> /\ ctx'.ready = << >> /\ ctx'.stopped # "no"
    BY <1>1, <2>2 DEF StopContext, Context, Stopped
  <2>. QED
    BY <1>1, <1>3, <2>3, <2>4 DEF DetachInv, Stopped
<1>6. CASE M = <<Leave, Run>> /\ ctx.stopped # "no"
  <2>1. Head(M) = Leave /\ << >> \o Tail(M) = <<Run>>
    BY <1>6, Tails
  <2>2. LeaveHandler(Main)
    BY <1>2, <2>1, DetachCalls, Dispatch
  <2>3. todo' = [todo EXCEPT ![Main] = <<Run>>]
    BY <1>4, <2>1, <2>2 DEF LeaveHandler
  <2>4. UNCHANGED <<timer, strand>> /\ ctx' = WorkFinished(ctx)
    BY <2>2 DEF LeaveHandler
  <2>5. ctx'.ready = << >> /\ ctx'.stopped # "no"
    BY <1>1, <1>6, <2>4 DEF WorkFinished, Context, Stopped
  <2>. QED
    BY <1>1, <1>3, <2>3, <2>4, <2>5 DEF DetachInv, Stopped
<1>7. CASE M = <<Run>> /\ ctx.stopped # "no"
  <2>1. Head(M) = Run /\ << >> \o Tail(M) = << >>
    BY <1>7, Tails
  <2>2. RunReturns(Main)
    <3>1. TakeHandler(Main) \/ ExpireTimer(Main) \/ RunReturns(Main)
      BY <1>2, <2>1, DetachCalls, Dispatch
    <3>. QED
      BY <1>7, <3>1 DEF TakeHandler, ExpireTimer
  <2>3. todo' = [todo EXCEPT ![Main] = << >>]
    BY <1>4, <2>1, <2>2 DEF RunReturns
  <2>4. UNCHANGED <<timer, strand>> /\ ctx'.ready = << >> /\ ctx'.stopped # "no"
    BY <1>1, <1>7, <2>2 DEF RunReturns, Context, Stopped
  <2>. QED
    BY <1>1, <1>3, <2>3, <2>4 DEF DetachInv, Stopped
<1>. QED
  BY <1>2, <1>5, <1>6, <1>7 DEF Stopped

\* Every step of these programs keeps the invariant.
LEMMA DetachStep == ASSUME GInv, GInv', DetachInv, [Next]_vars PROVE DetachInv'
<1>1. CASE UNCHANGED <<todo, ctx, strand, timer>>
  <2>1. Detaches => Detaches'
    BY <1>1 DEF Detaches, Waiting
  <2>2. Detached => Detached'
    BY <1>1 DEF Detached, Returns, Held, Waiting
  <2>3. Stopped => Stopped'
    BY <1>1 DEF Stopped
  <2>. QED
    BY <1>1, <2>1, <2>2, <2>3 DEF DetachInv
<1>2. CASE \E t \in Thread : ThreadStep(t)
  BY <1>2, DetachesStep, DetachedStep, StoppedStep DEF DetachInv
<1>. QED
  BY <1>1, <1>2 DEF Next, Tick, vars

\* It holds when they start.
LEMMA DetachInit == ASSUME Init, prog \in Detachers PROVE DetachInv
<1>1. /\ todo[Main] = Program[prog] /\ \A t \in Thread : t # Main => todo[t] = << >>
      /\ 1 \in Thread /\ 1 # Main
  BY DEF Init, Main, Thread
<1>2. \E k \in {"detach", "detach_loop"} : Program[prog] = <<Guard, Post(Handler(k, 1)), Run>>
  BY DEF Detachers, Program, Main_Thread, run_async_task
<1>3. ctx.ready = << >> /\ ctx.stopped = "no" /\ strand = Free /\ timer.waiting = FALSE
  BY DEF Init, Free
<1>. QED
  BY <1>1, <1>2, <1>3 DEF DetachInv, Detaches

\* Their threads have ended, and what was posted was executed.
LEMMA DetachEnd ==
  ASSUME DetachInv, Ended
  PROVE  ctx.ready = << >> /\ \A t \in Thread : t # Main => todo[t] = << >>
<1>1. todo[Main] = << >>
  BY DEF Ended
<1>2. Stopped
  <2>1. ~Detaches
    BY <1>1 DEF Detaches
  <2>2. ~Returns
    <3>1. \A c : << >> # <<c, Leave, Run>>
      BY DetachCalls
    <3>. QED
      BY <1>1, <3>1 DEF Returns
  <2>. QED
    BY <2>1, <2>2 DEF DetachInv, Detached
<1>. QED
  BY <1>2 DEF Stopped, DetachInv

\* The threads of every program
ThreadsInv ==
    /\ GuardInductive
    /\ Common => OInv
    /\ prog \in Detachers => DetachInv

\* It holds when a program starts.
LEMMA ThreadsInit == Init => ThreadsInv
<1>1. Init => GuardInductive
  BY BInit, GInit, SizeAssumption DEF GuardInductive
<1>. QED
  BY <1>1, OInit, DetachInit DEF ThreadsInv

\* Every step keeps it.
LEMMA ThreadsStep == ThreadsInv /\ [Next]_vars => ThreadsInv'
<1>1. SUFFICES ASSUME ThreadsInv, [Next]_vars PROVE ThreadsInv'
  OBVIOUS
<1>2. prog' = prog
  BY <1>1 DEF Next, Tick, ThreadStep, vars
<1>3. GuardInductive'
  BY <1>1, <1>2, BStep, GStep DEF GuardInductive, ThreadsInv
<1>4. Common => GInv /\ OInv
  BY <1>1 DEF GuardInductive, ThreadsInv, Common
<1>5. prog \in Detachers => GInv /\ GInv' /\ DetachInv
  <2>1. prog \in Detachers => prog \notin Backgrounds
    BY DEF Detachers, Backgrounds
  <2>. QED
    BY <1>1, <1>2, <1>3, <2>1 DEF GuardInductive, ThreadsInv
<1>6. Common' => OInv'
  BY <1>1, <1>2, <1>4, OStep DEF Common
<1>7. prog' \in Detachers => DetachInv'
  BY <1>1, <1>2, <1>5, DetachStep
<1>. QED
  BY <1>3, <1>6, <1>7 DEF ThreadsInv

\* When the function returns, no thread is going to use its io_context, guard or
\* mutex: those that do are joined, and the thread that a handler detached has
\* posted its last call before run() could return.
THEOREM NoDanglingAlways == Spec => []NoDanglingContext
<1>1. ThreadsInv => NoDanglingContext
  <2>1. SUFFICES ASSUME ThreadsInv, Ended, NEW t \in Thread, Uses(t) PROVE FALSE
    BY DEF NoDanglingContext
  <2>2. CASE Common
    BY <2>1, <2>2, OEnd DEF ThreadsInv, GuardInductive, Common, NoDanglingContext
  <2>3. CASE prog \in Detachers \cup Backgrounds
    <3>1. todo[t] = << >>
      <4>1. CASE prog \in Detachers
        BY <2>1, <4>1, DetachEnd DEF ThreadsInv, Ended
      <4>2. CASE prog \in Backgrounds
        BY <2>1, <4>2 DEF ThreadsInv, GuardInductive, BInv, Alone, Ended
      <4>. QED
        BY <2>3, <4>1, <4>2
    <3>. QED
      BY <2>1, <3>1 DEF Uses
  <2>. QED
    BY <2>2, <2>3 DEF Common
<1>. QED
  BY <1>1, ThreadsInit, ThreadsStep, PTL DEF Spec

(* What was posted is executed: the calls of a thread after a step.        *)

\* A call was made, and a pause may have come in its place.
LEMMA GoesList ==
  ASSUME GInv, NEW t \in Thread, todo[t] # << >>, Goes(t)
  PROVE  /\ todo'[t] \in Seq(Calls) /\ \A v \in Thread : v # t => todo'[v] = todo[v]
         /\ \A c \in ToSet(todo'[t]) : c \in ToSet(Tail(todo[t])) \/ c.op = "asleep"
         /\ ToSet(Tail(todo[t])) \subseteq ToSet(todo'[t])
         /\ \A A, B : "asleep" \notin A \cup B /\ Before(todo[t], A, B)
                      => /\ Before(todo'[t], A, B)
                         /\ Head(todo[t]).op \in B => Lacks(todo'[t], A)
<1>1. PICK m \in Seq(Calls) : (\A c \in ToSet(m) : c.op = "asleep") /\ Then(t, m)
  BY DEF Goes
<1>. DEFINE s == todo[t]
            r == Tail(s)
            u == m \o r
<1>2. s \in Seq(Calls) /\ todo \in [Thread -> Seq(Calls)]
  BY DEF GInv, TypeInv
<1>3. /\ r \in Seq(Calls)
      /\ \A A, B : Before(s, A, B) => Before(r, A, B) /\ (Head(s).op \in B => Lacks(r, A))
  BY <1>2, TheRest
<1>4. todo' = [todo EXCEPT ![t] = u]
  BY <1>1 DEF Then
<1>. HIDE DEF r
<1>5. /\ u \in Seq(Calls) /\ ToSet(u) = ToSet(m) \cup ToSet(r)
      /\ \A A, B : /\ Before(m, A, B) /\ Before(r, A, B)
                   /\ Lacks(m, B) \/ Lacks(r, A)
                   => Before(u, A, B)
  BY <1>3, Together
<1>6. todo'[t] = u /\ \A v \in Thread : v # t => todo'[v] = todo[v]
  BY <1>2, <1>4
<1>. HIDE DEF u
<1>7. \A A : "asleep" \notin A => Lacks(m, A)
  BY <1>1 DEF Lacks
<1>8. ASSUME NEW A, NEW B, "asleep" \notin A \cup B, Before(s, A, B)
      PROVE  Before(u, A, B) /\ (Head(s).op \in B => Lacks(u, A))
  <2>1. Lacks(m, A) /\ Lacks(m, B)
    BY <1>7, <1>8
  <2>2. Before(m, A, B)
    BY <2>1, NoOrder
  <2>3. Before(u, A, B)
    BY <1>3, <1>5, <1>8, <2>1, <2>2
  <2>4. Head(s).op \in B => Lacks(u, A)
    BY <1>3, <1>5, <1>8, <2>1 DEF Lacks
  <2>. QED
    BY <2>3, <2>4
<1>9. \A A, B : "asleep" \notin A \cup B /\ Before(s, A, B)
                => Before(u, A, B) /\ (Head(s).op \in B => Lacks(u, A))
  BY <1>8
<1>10. /\ \A c \in ToSet(u) : c \in ToSet(r) \/ c.op = "asleep"
       /\ ToSet(r) \subseteq ToSet(u)
  BY <1>1, <1>5
<1>. QED
  BY <1>5, <1>6, <1>9, <1>10 DEF r

\* The calls of a handler with its end
Inner == BodyOps \cup {"leave", "leave_strand"}

\* A handler was called.
LEMMA EntersList ==
  ASSUME GInv, OInv, NEW t \in Thread, todo[t] # << >>, Enters(t)
  PROVE  /\ todo'[t] \in Seq(Calls) /\ \A v \in Thread : v # t => todo'[v] = todo[v]
         /\ \A c \in ToSet(todo'[t]) : c \in ToSet(todo[t]) \/ c.op \in Inner
         /\ ToSet(todo[t]) \subseteq ToSet(todo'[t])
         /\ Head(todo[t]).op \in {"run", "turn"}
         /\ Head(todo[t]).op = "run" => Has(todo'[t], "leave")
         /\ \A A, B : B \cap Inner = {} /\ Before(todo[t], A, B) => Before(todo'[t], A, B)
         /\ Before(todo[t], Adding, Closing) => Before(todo'[t], Adding, Closing)
<1>1. PICK h, e : /\ \/ /\ Head(todo[t]).op = "run" /\ e = Leave
                        /\ ctx.ready # << >> /\ h = Head(ctx.ready)
                     \/ /\ Head(todo[t]).op = "turn" /\ e = LeavesStrand
                        /\ strand.turn # << >> /\ h = Head(strand.turn)
                  /\ First(t, Body(h) \o <<e>>)
  BY DEF Enters
<1>2. h \in Calm(prog)
  BY <1>1 DEF OInv, HandlersInv
<1>3. Body(h) \in Seq(Calls) /\ \A c \in ToSet(Body(h)) : c.op \in BodyOps
  BY <1>2, CalmBodies
<1>4. e \in Calls /\ e.op \in {"leave", "leave_strand"} /\ (Head(todo[t]).op = "run" => e.op = "leave")
      /\ (e.op = "leave" => Head(todo[t]).op = "run")
  BY <1>1, PlainCalls, CalmOnes DEF Leave, LeavesStrand, Calls, Special, Bare, Call
<1>. DEFINE s == todo[t]
            b == Body(h)
            f == b \o <<e>>
            u == f \o s
<1>5. s \in Seq(Calls) /\ todo \in [Thread -> Seq(Calls)]
  BY DEF GInv, TypeInv
<1>6. todo' = [todo EXCEPT ![t] = u]
  BY <1>1 DEF First
<1>. HIDE DEF b
<1>7. PICK l \in Seq(Calls) : l = <<e>> /\ ToSet(l) = {e} /\ \A A : Lacks(l, A) <=> e.op \notin A
  BY <1>4, OneCall
<1>8. /\ f = b \o l /\ b \in Seq(Calls) /\ f \in Seq(Calls) /\ ToSet(f) = ToSet(b) \cup {e}
      /\ \A A, B : /\ Before(b, A, B) /\ Before(l, A, B)
                   /\ Lacks(b, B) \/ Lacks(l, A)
                   => Before(f, A, B)
  <2>1. b \in Seq(Calls)
    BY <1>3 DEF b
  <2>2. /\ b \o l \in Seq(Calls) /\ ToSet(b \o l) = ToSet(b) \cup ToSet(l)
        /\ \A A, B : /\ Before(b, A, B) /\ Before(l, A, B)
                     /\ Lacks(b, B) \/ Lacks(l, A)
                     => Before(b \o l, A, B)
    BY <2>1, Together
  <2>3. f = b \o l
    BY <1>7
  <2>. HIDE DEF f
  <2>. QED
    BY <1>7, <2>1, <2>2, <2>3
<1>. HIDE DEF f
<1>9. \A c \in ToSet(f) : c.op \in Inner
  BY <1>3, <1>4, <1>8 DEF Inner, b
<1>10. /\ u \in Seq(Calls) /\ ToSet(u) = ToSet(f) \cup ToSet(s)
       /\ \A A, B : /\ Before(f, A, B) /\ Before(s, A, B)
                    /\ Lacks(f, B) \/ Lacks(s, A)
                    => Before(u, A, B)
  <2>1. f \in Seq(Calls)
    BY <1>8
  <2>2. /\ f \o s \in Seq(Calls) /\ ToSet(f \o s) = ToSet(f) \cup ToSet(s)
        /\ \A A, B : /\ Before(f, A, B) /\ Before(s, A, B)
                     /\ Lacks(f, B) \/ Lacks(s, A)
                     => Before(f \o s, A, B)
    BY <1>5, <2>1, Together
  <2>. QED
    BY <2>2
<1>11. todo'[t] = u /\ \A v \in Thread : v # t => todo'[v] = todo[v]
  BY <1>5, <1>6
<1>. HIDE DEF u
<1>12. Head(s).op = "run" => Has(u, "leave")
  <2>1. e \in ToSet(u)
    BY <1>8, <1>10
  <2>. QED
    BY <1>4, <1>10, <2>1, Elements
<1>13. ASSUME NEW A, NEW B, B \cap Inner = {}, Before(s, A, B) PROVE Before(u, A, B)
  <2>1. Lacks(f, B)
    BY <1>9, <1>13 DEF Lacks
  <2>2. Before(f, A, B)
    BY <1>8, <2>1, NoOrder
  <2>. QED
    BY <1>10, <1>13, <2>1, <2>2
<1>14. ASSUME Before(s, Adding, Closing) PROVE Before(u, Adding, Closing)
  <2>1. Lacks(b, Closing)
    BY <1>3 DEF Lacks, Closing, BodyOps, b
  <2>2. Before(b, Adding, Closing)
    BY <1>8, <2>1, NoOrder
  <2>3. Lacks(l, Adding)
    BY <1>4, <1>7 DEF Adding, Brings
  <2>4. Before(l, Adding, Closing)
    BY <2>3, NoOrder
  <2>5. Before(f, Adding, Closing)
    BY <1>8, <2>1, <2>2, <2>4
  <2>6. CASE Head(s).op = "run"
    <3>1. Lacks(Tail(s), Adding) /\ ToSet(s) = {Head(s)} \cup ToSet(Tail(s))
      BY <1>5, <1>14, <2>6, TheRest DEF Closing
    <3>2. Lacks(s, Adding)
      BY <2>6, <3>1 DEF Lacks, Adding, Brings
    <3>. QED
      BY <1>10, <1>14, <2>5, <3>2
  <2>7. CASE Head(s).op # "run"
    <3>1. e.op \notin Closing
      BY <1>4, <2>7 DEF Closing
    <3>2. Lacks(f, Closing)
      BY <1>8, <2>1, <3>1 DEF Lacks
    <3>. QED
      BY <1>10, <1>14, <2>5, <3>2
  <2>. QED
    BY <2>6, <2>7
<1>15. \A A, B : B \cap Inner = {} /\ Before(s, A, B) => Before(u, A, B)
  BY <1>13
<1>16. /\ \A c \in ToSet(u) : c \in ToSet(s) \/ c.op \in Inner
       /\ ToSet(s) \subseteq ToSet(u)
  BY <1>9, <1>10
<1>. QED
  BY <1>1, <1>10, <1>11, <1>12, <1>14, <1>15, <1>16

\* While the strand is locked, its turn is queued or somebody takes it.
TurnPending == strand.locked => ctx.ready # << >> \/ Turners # {}

\* The next handler, thread or join of the main thread
LEMMA PendingMain ==
  ASSUME GInv, StrandInv, Unstarted, TurnPending, ThreadStep(Main)
  PROVE  Unstarted' /\ TurnPending'
<1>. DEFINE M == todo[Main]
            r == Tail(M)
<1>1. /\ todo \in [Thread -> Seq(Calls)] /\ ctx \in Context /\ strand \in Strand /\ Main \in Thread
  BY DEF GInv, TypeInv, Main, Thread
<1>2. M \in Seq(Calls) /\ M # << >>
  BY <1>1, Dispatch
<1>3. Posted \in Nat
  BY <1>1 DEF Strand, StrandInv, Numbers, Posted
<1>4. /\ Head(M).op = "spawn" => Head(M).thread # Main /\ Head(M).body = <<Run>>
      /\ Head(M).op \in {"strand", "spawn", "join"}
  BY <1>2, <1>3, PostingTail DEF StrandInv
<1>5. /\ r \in Seq(Calls) /\ Head(M) = M[1] /\ Len(M) \in Nat \ {0} /\ Len(r) = Len(M) - 1
      /\ \A k \in 1..Len(r) : r[k] = M[k + 1]
  BY <1>2, HeadTailProperties
<1>. HIDE DEF r
<1>6. /\ 1 \in 1..Len(M)
      /\ \A k \in 1..Len(r) : k + 1 \in 1..Len(M) /\ k + 1 # 1
      /\ \A j, k \in 1..Len(r) : j + 1 = k + 1 => j = k
  BY <1>5
<1>7. ASSUME todo'[Main] = r,
             \A k \in 1..Len(r) : r[k].op = "spawn" => todo'[r[k].thread] = todo[r[k].thread]
      PROVE  Unstarted'
  <2>1. SUFFICES ASSUME NEW k \in 1..Len(r), r[k].op = "spawn"
                 PROVE  /\ r[k].thread \in Thread /\ todo'[r[k].thread] = << >>
                        /\ \A j \in 1..Len(r) : r[j].op = "spawn" /\ r[j].thread = r[k].thread => j = k
    BY <1>7 DEF Unstarted
  <2>2. /\ M[k + 1].op = "spawn" /\ M[k + 1].thread = r[k].thread /\ k + 1 \in 1..Len(M)
    BY <1>5, <1>6, <2>1
  <2>3. /\ r[k].thread \in Thread /\ todo[r[k].thread] = << >>
        /\ \A j \in 1..Len(M) : M[j].op = "spawn" /\ M[j].thread = r[k].thread => j = k + 1
    BY <2>2 DEF Unstarted
  <2>4. ASSUME NEW j \in 1..Len(r), r[j].op = "spawn", r[j].thread = r[k].thread PROVE j = k
    <3>1. j + 1 = k + 1
      BY <1>5, <1>6, <2>3, <2>4
    <3>. QED
      BY <1>6, <3>1
  <2>. QED
    BY <1>7, <2>1, <2>3, <2>4
<1>8. ASSUME Then(Main, << >>) PROVE Unstarted' /\ Turners' = Turners
  <2>1. todo'[Main] = r /\ Turners' = Turners
    BY <1>1, <1>2, <1>8, MainCalls DEF r
  <2>2. \A v \in Thread : v # Main => todo'[v] = todo[v]
    BY <1>1, <1>8 DEF Then
  <2>3. \A k \in 1..Len(r) : r[k].op = "spawn" => r[k].thread \in Thread /\ r[k].thread # Main
    <3>1. \A k \in 1..Len(M) : M[k].op = "spawn" => M[k].thread # Main
      BY DEF StrandInv, Posting
    <3>. QED
      BY <1>5, <1>6, <3>1 DEF Unstarted
  <2>. QED
    BY <1>7, <2>1, <2>2, <2>3
<1>9. CASE Head(M).op = "join"
  <2>1. Then(Main, << >>) /\ UNCHANGED <<ctx, strand>>
    BY <1>9, Dispatch DEF JoinThread
  <2>. QED
    BY <1>8, <2>1 DEF TurnPending
<1>10. CASE Head(M).op = "strand"
  <2>1. PostToStrand(Main)
    BY <1>10, Dispatch
  <2>2. Unstarted' /\ Turners' = Turners
    BY <1>8, <2>1 DEF PostToStrand
  <2>3. CASE strand.locked
    <3>1. ctx' = ctx
      BY <2>1, <2>3 DEF PostToStrand
    <3>. QED
      BY <2>2, <2>3, <3>1 DEF TurnPending
  <2>4. CASE ~strand.locked
    <3>1. ctx' = Queued(ctx, Handler("invoker", 0)) /\ ctx.ready = << >>
      BY <2>1, <2>4 DEF PostToStrand, StrandInv, OneTurn
    <3>2. Len(ctx'.ready) = 1
      BY <1>1, <3>1, QueuesOne, Invoker
    <3>3. ctx'.ready # << >>
      <4>1. Len(<< >>) # 1
        OBVIOUS
      <4>. QED
        BY <3>2, <4>1
    <3>. QED
      BY <2>2, <3>3 DEF TurnPending
  <2>. QED
    BY <2>3, <2>4
<1>11. CASE Head(M).op = "spawn"
  <2>. DEFINE w == Head(M).thread
  <2>1. todo' = [todo EXCEPT ![Main] = r, ![w] = <<Run>>] /\ UNCHANGED <<ctx, strand>>
    BY <1>4, <1>11, Dispatch DEF SpawnThread, Arg, r
  <2>2. w \in Thread /\ todo[w] = << >> /\ w # Main
        /\ \A j \in 1..Len(M) : M[j].op = "spawn" /\ M[j].thread = w => j = 1
    BY <1>4, <1>5, <1>6, <1>11 DEF Unstarted
  <2>. HIDE DEF w
  <2>3. /\ todo'[Main] = r /\ todo'[w] = <<Run>>
        /\ \A v \in Thread : v # Main /\ v # w => todo'[v] = todo[v]
    BY <1>1, <2>1, <2>2
  <2>4. \A k \in 1..Len(r) : r[k].op = "spawn" => r[k].thread \in Thread /\ r[k].thread # Main /\ r[k].thread # w
    <3>1. \A k \in 1..Len(M) : M[k].op = "spawn" => M[k].thread # Main
      BY DEF StrandInv, Posting
    <3>. QED
      BY <1>5, <1>6, <2>2, <3>1 DEF Unstarted
  <2>5. Unstarted'
    BY <1>7, <2>3, <2>4
  <2>6. Turners' = Turners
    <3>1. << >> \notin InTurn /\ <<Run>> \notin InTurn
      BY DEF InTurn
    <3>2. \A v \in Thread : v # Main => (todo'[v] \in InTurn <=> todo[v] \in InTurn)
      BY <2>2, <2>3, <3>1
    <3>. QED
      BY <3>2 DEF Turners
  <2>. QED
    BY <2>1, <2>5, <2>6 DEF TurnPending
<1>. QED
  BY <1>4, <1>9, <1>10, <1>11

\* A thread takes the turn, or ends it and queues the next one.
LEMMA PendingOthers ==
  ASSUME GInv, OInv, StrandInv, Unstarted, TurnPending, NEW t \in Thread, t # Main, ThreadStep(t)
  PROVE  Unstarted' /\ TurnPending'
<1>. DEFINE s == todo[t]
<1>1. /\ todo \in [Thread -> Seq(Calls)] /\ ctx \in Context /\ strand \in Strand /\ Main \in Thread
  BY DEF GInv, TypeInv, Main, Thread
<1>2. s # << >> /\ (Goes(t) \/ Enters(t) \/ SpawnThread(t) \/ ExpireTimer(t))
  BY Moves
<1>3. s \in InTurn \cup {<<Run>>, <<Leave, Run>>}
  BY <1>2 DEF StrandInv, Others
<1>4. Head(s) \in {Turn, LeavesStrand, Leave, Run}
  BY <1>3 DEF InTurn
<1>5. ~SpawnThread(t) /\ ~ExpireTimer(t)
  <2>1. Head(s).op # "spawn"
    BY <1>4, TurnCalls
  <2>. QED
    BY <2>1 DEF SpawnThread, At, ExpireTimer, StrandInv
<1>6. \A v \in Thread : v # t => todo'[v] = todo[v]
  BY <1>2, <1>5, GoesList, EntersList
<1>7. Unstarted'
  <2>1. todo'[Main] = todo[Main]
    BY <1>1, <1>6
  <2>2. \A k \in 1..Len(todo[Main]) : todo[Main][k].op = "spawn" =>
            todo'[todo[Main][k].thread] = todo[todo[Main][k].thread]
    BY <1>2, <1>6 DEF Unstarted
  <2>. QED
    BY <2>1, <2>2 DEF Unstarted
<1>8. \A v \in Turners : v # t => v \in Turners'
  BY <1>6 DEF Turners
<1>9. t \in Turners' <=> todo'[t] \in InTurn
  BY DEF Turners
<1>10. <<Turn, Leave, Run>> \in InTurn /\ <<LeavesStrand, Turn, Leave, Run>> \in InTurn
       /\ <<Run>> \notin InTurn /\ <<Leave, Run>> \notin InTurn
  BY DEF InTurn
<1>11. \A u : todo' = [todo EXCEPT ![t] = u] => todo'[t] = u
  BY <1>1
<1>12. CASE s = <<Run>>
  <2>1. TakeHandler(t) \/ RunReturns(t)
    BY <1>5, <1>12, TurnCalls, Tails, Dispatch
  <2>2. CASE RunReturns(t)
    <3>1. ctx'.ready = ctx.ready /\ strand' = strand
      BY <1>1, <2>2 DEF RunReturns, Context
    <3>2. t \notin Turners
      BY <1>10, <1>12 DEF Turners
    <3>. QED
      BY <1>7, <1>8, <3>1, <3>2 DEF TurnPending
  <2>3. CASE TakeHandler(t)
    <3>1. Len(ctx.ready) = 1 /\ ctx.ready[1].name = "invoker"
      BY <2>3 DEF TakeHandler, StrandInv, OneTurn
    <3>2. Head(ctx.ready).name = "invoker"
      BY <1>1, <3>1, OnlyOne DEF Context
    <3>3. Body(Head(ctx.ready)) = <<Turn>>
      BY <3>2 DEF Body, Turn
    <3>4. todo' = [todo EXCEPT ![t] = (<<Turn>> \o <<Leave>>) \o <<Run>>]
      BY <1>12, <2>3, <3>3 DEF TakeHandler, First
    <3>5. (<<Turn>> \o <<Leave>>) \o <<Run>> = <<Turn, Leave, Run>>
      BY ThreeCalls, Zenon
    <3>6. todo'[t] = <<Turn, Leave, Run>>
      BY <1>11, <3>4, <3>5
    <3>. QED
      BY <1>7, <1>9, <1>10, <3>6 DEF TurnPending
  <2>. QED
    BY <2>1, <2>2, <2>3
<1>13. CASE s = <<Leave, Run>>
  <2>1. LeaveHandler(t)
    BY <1>13, TurnCalls, Tails, Dispatch
  <2>2. ctx'.ready = ctx.ready /\ strand' = strand
    BY <1>1, <2>1, FinishesOne DEF LeaveHandler
  <2>3. t \notin Turners
    BY <1>10, <1>13 DEF Turners
  <2>. QED
    BY <1>7, <1>8, <2>2, <2>3 DEF TurnPending
<1>14. CASE s = <<LeavesStrand, Turn, Leave, Run>>
  <2>1. LeaveStrand(t)
    BY <1>14, TurnCalls, Tails, Dispatch
  <2>2. todo' = [todo EXCEPT ![t] = << >> \o Tail(s)]
    BY <2>1 DEF LeaveStrand, Then
  <2>3. << >> \o Tail(s) = <<Turn, Leave, Run>>
    BY <1>14
  <2>4. todo'[t] = << >> \o Tail(s)
    BY <1>11, <2>2
  <2>. QED
    BY <1>7, <1>9, <1>10, <2>3, <2>4 DEF TurnPending
<1>15. CASE s = <<Turn, Leave, Run>>
  <2>1. TakeTurn(t) \/ EndTurn(t)
    BY <1>15, TurnCalls, Tails, Dispatch
  <2>2. CASE TakeTurn(t)
    <3>. DEFINE h == Head(strand.turn)
    <3>1. h.name = "task"
      <4>1. strand.turn \in Seq(Handlers) /\ strand.turn # << >>
        BY <1>1, <2>2 DEF TakeTurn, Strand
      <4>2. 1 \in 1..Len(strand.turn) /\ h = strand.turn[1]
        BY <4>1
      <4>. QED
        BY <4>2 DEF StrandInv, Numbers, Numbered
    <3>2. Body(h) = << >>
      BY <3>1 DEF Body
    <3>. HIDE DEF h
    <3>3. todo' = [todo EXCEPT ![t] = (<< >> \o <<LeavesStrand>>) \o <<Turn, Leave, Run>>]
      BY <1>15, <2>2, <3>2 DEF TakeTurn, First, h, LeavesStrand
    <3>4. (<< >> \o <<LeavesStrand>>) \o <<Turn, Leave, Run>> = <<LeavesStrand, Turn, Leave, Run>>
      BY TurnCalls, Zenon
    <3>5. todo'[t] = <<LeavesStrand, Turn, Leave, Run>>
      BY <1>11, <3>3, <3>4
    <3>. QED
      BY <1>7, <1>9, <1>10, <3>5 DEF TurnPending
  <2>3. CASE EndTurn(t)
    <3>1. strand'.locked = (strand.next # << >>)
          /\ (strand.next # << >> => ctx' = Queued(ctx, Handler("invoker", 0)))
      BY <2>3 DEF EndTurn
    <3>2. Len(ctx.ready) \in Nat
      BY <1>1 DEF Context
    <3>3. strand.next # << >> => Len(ctx'.ready) = Len(ctx.ready) + 1
      BY <1>1, <3>1, PostsOne, Invoker
    <3>4. strand.next # << >> => ctx'.ready # << >>
      <4>1. Len(<< >>) = 0
        OBVIOUS
      <4>. QED
        BY <3>2, <3>3, <4>1
    <3>. QED
      BY <1>7, <3>1, <3>4 DEF TurnPending
  <2>. QED
    BY <2>1, <2>2, <2>3
<1>. QED
  BY <1>3, <1>12, <1>13, <1>14, <1>15 DEF InTurn

\* The two together, for every step
LEMMA PendingStep ==
  ASSUME GInv, OInv, StrandInv, Unstarted, TurnPending, [Next]_vars
  PROVE  StrandInv' /\ Unstarted' /\ TurnPending'
<1>1. CASE UNCHANGED <<todo, ctx, strand, timer, executed>>
  <2>1. StrandInv'
    BY <1>1 DEF StrandInv, Others, OneTurn, Turners, Numbers, Numbered, Posted, Posting
  <2>. QED
    BY <1>1, <2>1 DEF Unstarted, TurnPending, Turners
<1>2. ASSUME NEW t \in Thread, ThreadStep(t) PROVE StrandInv' /\ Unstarted' /\ TurnPending'
  <2>1. CASE t = Main
    BY <1>2, <2>1, MainStep, PendingMain
  <2>2. CASE t # Main
    BY <1>2, <2>2, OthersStep, PendingOthers
  <2>. QED
    BY <2>1, <2>2
<1>. QED
  BY <1>1, <1>2 DEF Next, Tick, vars

(* When the io_context stops by itself, there is nothing left to do.       *)

\* Nothing waits in the queue or for the timer.
Nothing == ctx.ready = << >> /\ ~timer.waiting

\* Work that is the guard's, the timer's and the queue's
LEMMA OwesNothing ==
  ASSUME NEW c \in Context, NEW x \in Timer
  PROVE  /\ Owed(c, x) \in Nat
         /\ Owed(c, x) = 0 => c.ready = << >> /\ ~x.waiting /\ ~c.guard
         /\ c.guard /\ Owed(c, x) <= 1 => c.ready = << >> /\ ~x.waiting
<1>. DEFINE g == IF c.guard THEN 1 ELSE 0
            w == IF x.waiting THEN 1 ELSE 0
            n == Len(c.ready)
<1>1. Owed(c, x) = g + w + n
  BY DEF Owed
<1>2. n \in Nat /\ (n = 0 => c.ready = << >>)
  BY DEF Context
<1>3. /\ g \in {0, 1} /\ w \in {0, 1}
      /\ (g = 0 <=> ~c.guard) /\ (w = 0 <=> ~x.waiting)
  OBVIOUS
<1>. HIDE DEF g, w, n
<1>4. /\ g + w + n \in Nat
      /\ g + w + n = 0 => n = 0 /\ w = 0 /\ g = 0
      /\ g = 1 /\ g + w + n <= 1 => n = 0 /\ w = 0
  BY <1>2, <1>3
<1>. QED
  BY <1>1, <1>2, <1>3, <1>4

\* The last work
LEMMA LastWork ==
  ASSUME GInv, NEW t \in Thread
  PROVE  /\ ctx.work = 0 => Nothing /\ ~ctx.guard /\ Leavers = {}
         /\ ctx.work = 1 /\ t \in Leavers => Nothing /\ ~ctx.guard /\ Leavers = {t}
         /\ ctx.work = 1 /\ ctx.guard => Nothing /\ Leavers = {}
<1>. DEFINE o == Owed(ctx, timer)
            n == Cardinality(Leavers)
<1>1. /\ ctx \in Context /\ timer \in Timer /\ ctx.work \in Int /\ ctx.work >= o + n
      /\ Leavers \in SUBSET Thread
  BY DEF GInv, TypeInv, WorkInv, Context, Leavers
<1>2. /\ o \in Nat
      /\ o = 0 => Nothing /\ ~ctx.guard
      /\ ctx.guard /\ o <= 1 => Nothing
  BY <1>1, OwesNothing DEF Nothing
<1>3. n \in Nat /\ \A v \in Leavers : n >= 1
  BY <1>1, Counting
<1>4. \A v \in Leavers : v # t /\ t \in Leavers => n >= 2
  <2>1. SUFFICES ASSUME NEW v \in Leavers, v # t, t \in Leavers PROVE n >= 2
    OBVIOUS
  <2>2. PICK K \in SUBSET Thread : K = Leavers \ {t}
    BY <1>1
  <2>3. v \in K /\ v \in Thread
    BY <1>1, <2>1, <2>2
  <2>4. Cardinality(K) \in Nat /\ Cardinality(K) >= 1
    BY <2>2, <2>3, Counting
  <2>5. Cardinality(K) <= n - 1
    BY <1>1, <2>1, <2>2, Counting
  <2>. QED
    BY <1>3, <2>4, <2>5
<1>. HIDE DEF o, n
<1>5. ctx.guard => o # 0
  BY <1>2
<1>6. ctx.work = 0 => o = 0 /\ n = 0
  BY <1>1, <1>2, <1>3
<1>7. ctx.work = 1 /\ t \in Leavers => o = 0 /\ n = 1
  BY <1>1, <1>2, <1>3
<1>8. ctx.work = 1 /\ ctx.guard => o <= 1 /\ n = 0
  BY <1>1, <1>2, <1>3, <1>5
<1>9. n = 0 => Leavers = {}
  BY <1>3
<1>10. n = 1 /\ t \in Leavers => Leavers = {t}
  BY <1>4
<1>. QED
  BY <1>2, <1>6, <1>7, <1>8, <1>9, <1>10

\* What a step makes of stopped and of the guard
LEMMA StopsGuards ==
  ASSUME GInv, NEW t \in Thread, ThreadStep(t)
  PROVE  /\ \/ ctx'.stopped = ctx.stopped
            \/ ctx.stopped = "no" /\ ctx'.stopped = "called" /\ Head(todo[t]).op = "stop"
            \/ /\ ctx.stopped = "no" /\ ctx'.stopped = "spent" /\ Goes(t)
               /\ Head(todo[t]).op \in Closing
               /\ Nothing /\ Nothing' /\ ~ctx'.guard /\ Leavers \subseteq {t}
         /\ \/ ctx'.guard = ctx.guard
            \/ ctx'.guard /\ Head(todo[t]).op = "make_work_guard"
            \/ ~ctx'.guard /\ Head(todo[t]).op = "reset"
<1>1. /\ ctx \in Context /\ timer \in Timer /\ todo[t] # << >> /\ todo[t] \in Seq(Calls)
  BY Dispatch DEF GInv, TypeInv
<1>. DEFINE c == Head(todo[t])
<1>2. CASE SpawnThread(t) \/ JoinThread(t) \/ FallAsleep(t) \/ WakeUp(t) \/ LockMutex(t)
           \/ Settle(t) \/ LeaveStrand(t) \/ SetExpiry(t) \/ TakeTurn(t)
  <2>1. ctx' = ctx
    BY <1>2 DEF SpawnThread, JoinThread, FallAsleep, WakeUp, LockMutex, Settle, LeaveStrand, SetExpiry, TakeTurn
  <2>. QED
    BY <2>1
<1>3. CASE StartWait(t) \/ CountMessage(t) \/ TakeHandler(t)
  BY <1>1, <1>3 DEF StartWait, CountMessage, TakeHandler, Context
<1>4. CASE PostHandler(t) \/ PostToStrand(t) \/ EndTurn(t) \/ CancelTimer(t) \/ ExpireTimer(t)
  <2>1. ctx' = ctx \/ \E h : ctx' = Queued(ctx, h) \/ ctx' = Completed(ctx, h)
    BY <1>4 DEF PostHandler, PostToStrand, EndTurn, CancelTimer, ExpireTimer
  <2>. QED
    BY <1>1, <2>1 DEF Queued, Completed, Context
<1>5. CASE MakeGuard(t)
  BY <1>1, <1>5 DEF MakeGuard, At, Context
<1>6. CASE StopContext(t)
  BY <1>1, <1>6 DEF StopContext, At, Context
<1>7. CASE GuardReset(t)
  <2>1. c.op = "reset" /\ timer' = timer
    BY <1>7 DEF GuardReset, At
  <2>2. ctx'.ready = ctx.ready /\ ~ctx'.guard
        /\ ctx'.stopped = IF ctx.work = 1 /\ ctx.stopped = "no" THEN "spent" ELSE ctx.stopped
    BY <1>1, <1>7 DEF GuardReset, WorkFinished, Context
  <2>3. CASE ctx.work = 1 /\ ctx.stopped = "no"
    <3>1. ctx.guard
      <4>1. Has(todo[t], "reset")
        BY <1>1, <2>1, TailCalls
      <4>2. t = Main
        BY <4>1 DEF GInv, ListsInv
      <4>3. ~Has(todo[Main], "make_work_guard")
        BY <1>1, <2>1, GuardFirst
      <4>. QED
        BY <4>1, <4>2, <4>3 DEF GInv, GuardInv
    <3>2. Nothing /\ Leavers = {}
      BY <2>3, <3>1, LastWork
    <3>3. Goes(t)
      BY <1>1, <2>1, <1>7, Moves DEF Enters, SpawnThread, ExpireTimer, At
    <3>. QED
      BY <2>1, <2>2, <2>3, <3>2, <3>3 DEF Nothing, Closing
  <2>. QED
    BY <2>1, <2>2, <2>3
<1>8. CASE LeaveHandler(t)
  <2>1. c.op = "leave" /\ timer' = timer
    BY <1>8 DEF LeaveHandler, At
  <2>2. ctx'.ready = ctx.ready /\ ctx'.guard = ctx.guard
        /\ ctx'.stopped = IF ctx.work = 1 /\ ctx.stopped = "no" THEN "spent" ELSE ctx.stopped
    BY <1>1, <1>8 DEF LeaveHandler, WorkFinished, Context
  <2>3. CASE ctx.work = 1 /\ ctx.stopped = "no"
    <3>1. t \in Leavers
      BY <1>1, <2>1, TailCalls DEF Leavers
    <3>2. Nothing /\ ~ctx.guard /\ Leavers = {t}
      BY <2>3, <3>1, LastWork
    <3>3. Goes(t)
      BY <1>1, <2>1, <1>8, Moves DEF Enters, SpawnThread, ExpireTimer, At
    <3>. QED
      BY <2>1, <2>2, <2>3, <3>2, <3>3 DEF Nothing, Closing
  <2>. QED
    BY <2>1, <2>2, <2>3
<1>9. CASE RunReturns(t)
  <2>1. c.op = "run" /\ timer' = timer
    BY <1>9 DEF RunReturns, At
  <2>2. /\ ctx'.ready = ctx.ready /\ ctx'.guard = ctx.guard
        /\ ctx.stopped # "no" \/ ctx.work = 0
        /\ ctx'.stopped = IF ctx.stopped = "no" THEN "spent" ELSE ctx.stopped
    BY <1>1, <1>9 DEF RunReturns, Context
  <2>3. CASE ctx.stopped = "no"
    <3>1. Nothing /\ ~ctx.guard /\ Leavers = {}
      BY <2>2, <2>3, LastWork
    <3>2. Goes(t)
      <4>1. Then(t, << >>)
        BY <1>9 DEF RunReturns
      <4>2. << >> \in Seq(Calls) /\ \A d \in ToSet(<< >>) : d.op = "asleep"
        BY DEF ToSet
      <4>3. ctx'.stopped # "no"
        BY <2>2, <2>3
      <4>. QED
        BY <2>1, <4>1, <4>2, <4>3 DEF Goes
    <3>. QED
      BY <2>1, <2>2, <2>3, <3>1, <3>2 DEF Nothing, Closing
  <2>. QED
    BY <2>1, <2>2, <2>3
<1>. QED
  BY <1>2, <1>3, <1>4, <1>5, <1>6, <1>7, <1>8, <1>9 DEF ThreadStep

\* Nobody was promised the execution of these handlers.
Unpromised(q) == \A k \in 1..Len(q) : ~q[k].guarded

\* One more of them at the end
LEMMA OneMore ==
  ASSUME NEW q \in Seq(Handlers), NEW h \in Handlers, Unpromised(q), ~h.guarded
  PROVE  Unpromised(Append(q, h))
<1>1. Len(Append(q, h)) = Len(q) + 1 /\ Len(q) \in Nat
  OBVIOUS
<1>2. \A k \in 1..(Len(q) + 1) : Append(q, h)[k] = IF k = Len(q) + 1 THEN h ELSE q[k]
  OBVIOUS
<1>3. SUFFICES ASSUME NEW k \in 1..(Len(q) + 1) PROVE ~Append(q, h)[k].guarded
  BY <1>1 DEF Unpromised
<1>4. CASE k = Len(q) + 1
  BY <1>2, <1>4
<1>5. CASE k # Len(q) + 1
  <2>1. k \in 1..Len(q)
    BY <1>1, <1>5
  <2>. QED
    BY <1>2, <1>5, <2>1 DEF Unpromised
<1>. QED
  BY <1>4, <1>5

\* What the posts and waits make of the queue while no guard is held
LEMMA Grows ==
  ASSUME GInv, OInv, prog # Future, NEW t \in Thread, ThreadStep(t)
  PROVE  /\ Nothing /\ Head(todo[t]).op \notin Adding => Nothing'
         /\ ~ctx.guard /\ Unpromised(ctx.ready) => Unpromised(ctx'.ready)
<1>1. /\ ctx \in Context /\ timer \in Timer /\ todo[t] # << >> /\ todo[t] \in Seq(Calls)
      /\ timer.handler \in Handlers /\ ~timer.handler.guarded
  BY Dispatch DEF GInv, TypeInv, OInv, HandlersInv, Calm
<1>. DEFINE c == Head(todo[t])
            q == ctx.ready
<1>2. q \in Seq(Handlers)
  BY <1>1 DEF Context
<1>3. CASE ctx'.ready = ctx.ready /\ (timer'.waiting => timer.waiting \/ c.op \in Adding)
  BY <1>3 DEF Nothing
<1>4. CASE \/ SpawnThread(t) \/ JoinThread(t) \/ FallAsleep(t) \/ WakeUp(t) \/ LockMutex(t)
           \/ Settle(t) \/ LeaveStrand(t) \/ TakeTurn(t)
  <2>1. ctx' = ctx /\ timer' = timer
    BY <1>4 DEF SpawnThread, JoinThread, FallAsleep, WakeUp, LockMutex, Settle, LeaveStrand, TakeTurn
  <2>. QED
    BY <1>3, <2>1
<1>5. CASE SetExpiry(t)
  <2>1. ctx' = ctx /\ timer'.waiting = timer.waiting
    BY <1>1, <1>5 DEF SetExpiry, Timer
  <2>. QED
    BY <1>3, <2>1
<1>6. CASE MakeGuard(t) \/ GuardReset(t) \/ StopContext(t) \/ LeaveHandler(t) \/ RunReturns(t)
  <2>1. timer' = timer
    BY <1>6 DEF MakeGuard, GuardReset, StopContext, LeaveHandler, RunReturns
  <2>2. ctx'.ready = ctx.ready
    BY <1>1, <1>6 DEF MakeGuard, GuardReset, StopContext, LeaveHandler, RunReturns, WorkFinished, Context
  <2>. QED
    BY <1>3, <2>1, <2>2
<1>7. CASE StartWait(t) \/ CountMessage(t)
  <2>1. c.op \in Adding
    BY <1>7 DEF StartWait, CountMessage, At, Adding, Brings
  <2>2. ctx'.ready = ctx.ready
    BY <1>1, <1>7 DEF StartWait, CountMessage, Context
  <2>. QED
    BY <1>3, <2>1, <2>2
<1>8. CASE CancelTimer(t)
  <2>1. Has(todo[t], "cancel")
    BY <1>1, <1>8, TailCalls DEF CancelTimer, At
  <2>. QED
    BY <2>1 DEF GInv, NoCancel, Future
<1>9. ASSUME NEW h \in Handlers, ctx' = Queued(ctx, h), c.op \in Adding
      PROVE  /\ Nothing /\ c.op \notin Adding => Nothing'
             /\ ~ctx.guard /\ Unpromised(ctx.ready) => Unpromised(ctx'.ready)
  <2>. DEFINE g == [h EXCEPT !.guarded = ctx.guard]
  <2>1. ctx'.ready = Append(q, g) /\ g \in Handlers /\ g.guarded = ctx.guard
    BY <1>1, <1>9 DEF Queued, Context, Handlers
  <2>. HIDE DEF g
  <2>2. ~ctx.guard /\ Unpromised(q) => Unpromised(Append(q, g))
    BY <1>2, <2>1, OneMore
  <2>. QED
    BY <1>9, <2>1, <2>2
<1>10. CASE PostHandler(t)
  <2>1. c.op = "post" /\ ctx' = Queued(ctx, c.handler)
    BY <1>10 DEF PostHandler, At, Arg
  <2>2. c.handler \in Handlers
    BY <1>10, TheHandler DEF PostHandler, Arg
  <2>. QED
    BY <1>9, <2>1, <2>2 DEF Adding, Brings
<1>11. CASE PostToStrand(t) \/ EndTurn(t)
  <2>1. c.op \in Adding
    BY <1>11 DEF PostToStrand, EndTurn, At, Adding, Brings
  <2>2. (ctx' = ctx /\ timer' = timer) \/ ctx' = Queued(ctx, Handler("invoker", 0))
    BY <1>11 DEF PostToStrand, EndTurn
  <2>. QED
    BY <1>3, <1>9, <2>1, <2>2, Invoker
<1>12. CASE ExpireTimer(t)
  <2>1. timer.waiting /\ ctx'.ready = Append(q, timer.handler)
    BY <1>1, <1>12 DEF ExpireTimer, Completed, Context
  <2>2. Unpromised(q) => Unpromised(Append(q, timer.handler))
    BY <1>1, <1>2, OneMore
  <2>. QED
    BY <2>1, <2>2 DEF Nothing
<1>13. CASE TakeHandler(t)
  <2>1. q # << >> /\ ctx'.ready = Tail(q)
    BY <1>1, <1>13 DEF TakeHandler, Context
  <2>2. /\ Len(Tail(q)) = Len(q) - 1 /\ Len(q) \in Nat \ {0}
        /\ \A k \in 1..Len(Tail(q)) : Tail(q)[k] = q[k + 1]
    BY <1>2, <2>1, HeadTailProperties
  <2>3. \A k \in 1..Len(Tail(q)) : k + 1 \in 1..Len(q)
    BY <2>2
  <2>. QED
    BY <2>1, <2>2, <2>3 DEF Nothing, Unpromised
<1>. QED
  BY <1>4, <1>5, <1>6, <1>7, <1>8, <1>10, <1>11, <1>12, <1>13 DEF ThreadStep

\* What a thread is started with comes from nobody's handler.
LEMMA BodyLists ==
  ASSUME NEW p, NEW b \in BodiesOf(p)
  PROVE  /\ b \in Seq(Calls) /\ Before(b, Adding, Closing)
         /\ p # "runBackgroundTask" => Lacks(b, Adding)
<1>. DEFINE slow == Handler("slow", 1)
<1>1. Sleep(1) \in Calls /\ Sleep(2) \in Calls /\ Run \in Calls /\ Post(slow) \in Calls
  <2>1. slow \in Handlers
    BY PlainCalls DEF Names
  <2>. QED
    BY <2>1, PlainCalls DEF Calls
<1>2. CASE b \in {<<Sleep(1)>>, <<Sleep(2)>>, <<Run>>}
  <2>1. PICK c \in Calls : b = <<c>> /\ c.op \in {"sleep", "run"}
    BY <1>1, <1>2, CalmOnes
  <2>2. b \in Seq(Calls) /\ Lacks(b, Adding)
    BY <2>1, OneCall DEF Adding, Brings
  <2>. QED
    BY <2>2, NoOrder
<1>3. CASE b = <<Sleep(1), Post(slow)>> /\ p = "runBackgroundTask"
  <2>1. PICK s \in Seq(Calls) : s = <<Sleep(1), Post(slow)>>
    <3>1. \A c, d \in Calls : <<c, d>> \in Seq(Calls)
      OBVIOUS
    <3>. QED
      BY <1>1, <3>1
  <2>2. Len(s) = 2 /\ s[1] = Sleep(1) /\ s[2] = Post(slow)
    BY <2>1
  <2>3. \A k \in 1..Len(s) : s[k].op \in {"sleep", "post"}
    BY <2>2, CalmOnes
  <2>4. \A k \in 1..Len(s) : s[k].op \notin Closing
    BY <2>3 DEF Closing
  <2>5. Before(s, Adding, Closing)
    BY <2>4 DEF Before
  <2>. QED
    BY <1>3, <2>1, <2>5
<1>. QED
  BY <1>2, <1>3 DEF BodiesOf, Idle

\* Who starts a thread, and which
LEMMA Spawns ==
  ASSUME GInv, OInv, NEW t \in Thread, SpawnThread(t)
  PROVE  /\ t = Main /\ todo[Main] # << >> /\ Head(todo[Main]).op = "spawn"
         /\ todo'[Main] = Tail(todo[Main]) /\ ctx' = ctx /\ timer' = timer
         /\ \E w, b : /\ b \in BodiesOf(prog) /\ w # Main
                      /\ Head(todo[Main]).thread = w
                      /\ prog \notin Runless /\ w = 1 => b = <<Run>>
                      /\ \A v \in Thread : v # Main => todo'[v] = IF v = w THEN b ELSE todo[v]
<1>1. todo[t] # << >> /\ Head(todo[t]).op = "spawn"
  BY DEF SpawnThread, At
<1>2. t = Main /\ todo \in [Thread -> Seq(Calls)]
  BY <1>1, NextMild DEF GInv, TypeInv
<1>. DEFINE c == Head(todo[Main])
<1>3. todo[Main] # << >> /\ c.op = "spawn"
  BY <1>1, <1>2
<1>4. MainCall(prog, c)
  <2>1. c \in ToSet(todo[Main])
    BY <1>2, <1>3, NextMild
  <2>. QED
    BY <2>1 DEF OInv, JoinInv
<1>5. /\ c.thread # Main /\ c.body \in BodiesOf(prog)
      /\ prog \notin Runless /\ c.thread = 1 => c.body = <<Run>>
  BY <1>3, <1>4 DEF MainCall
<1>6. todo' = [todo EXCEPT ![Main] = Tail(todo[Main]), ![c.thread] = c.body] /\ ctx' = ctx /\ timer' = timer
  BY <1>2 DEF SpawnThread, Arg
<1>. HIDE DEF c
<1>7. /\ todo'[Main] = Tail(todo[Main])
      /\ \A v \in Thread : v # Main => todo'[v] = IF v = c.thread THEN c.body ELSE todo[v]
  BY <1>2, <1>5, <1>6
<1>8. \E w, b : /\ b \in BodiesOf(prog) /\ w # Main
                /\ c.thread = w
                /\ prog \notin Runless /\ w = 1 => b = <<Run>>
                /\ \A v \in Thread : v # Main => todo'[v] = IF v = w THEN b ELSE todo[v]
  BY <1>5, <1>7, Zenon
<1>. QED
  BY <1>2, <1>3, <1>6, <1>7, <1>8, Zenon DEF c

\* Every thread posts and waits before it ends a handler, runs or resets.
OrderInv == \A t \in Thread : Before(todo[t], Adding, Closing)

\* A step keeps that order.
LEMMA OrderStep ==
  ASSUME GInv, OInv, OrderInv, NEW t \in Thread, ThreadStep(t)
  PROVE  OrderInv'
<1>1. todo[t] # << >> /\ (Goes(t) \/ Enters(t) \/ SpawnThread(t) \/ ExpireTimer(t))
  BY Moves
<1>2. SUFFICES ASSUME NEW v \in Thread PROVE Before(todo'[v], Adding, Closing)
  BY DEF OrderInv
<1>3. Before(todo[v], Adding, Closing) /\ Before(todo[t], Adding, Closing) /\ Main \in Thread
  BY DEF OrderInv, Main, Thread
<1>4. CASE Goes(t)
  <2>1. "asleep" \notin Adding \cup Closing
    BY DEF Adding, Closing, Brings
  <2>2. Before(todo'[t], Adding, Closing)
    BY <1>1, <1>3, <1>4, <2>1, GoesList
  <2>3. v # t => todo'[v] = todo[v]
    BY <1>1, <1>4, GoesList
  <2>. QED
    BY <1>3, <2>2, <2>3
<1>5. CASE Enters(t)
  <2>1. Before(todo'[t], Adding, Closing)
    BY <1>1, <1>3, <1>5, EntersList
  <2>2. v # t => todo'[v] = todo[v]
    BY <1>1, <1>5, EntersList
  <2>. QED
    BY <1>3, <2>1, <2>2
<1>6. CASE SpawnThread(t)
  <2>1. PICK w, b : /\ b \in BodiesOf(prog) /\ w # Main
                    /\ \A x \in Thread : x # Main => todo'[x] = IF x = w THEN b ELSE todo[x]
    BY <1>6, Spawns
  <2>2. Before(b, Adding, Closing)
    BY <2>1, BodyLists
  <2>3. Before(todo'[Main], Adding, Closing)
    <3>1. t = Main /\ todo'[Main] = Tail(todo[Main]) /\ todo[Main] # << >>
      BY <1>6, Spawns
    <3>2. todo[Main] \in Seq(Calls)
      BY <1>3 DEF GInv, TypeInv
    <3>. QED
      BY <1>3, <3>1, <3>2, TheRest
  <2>. QED
    BY <1>3, <2>1, <2>2, <2>3
<1>7. CASE ExpireTimer(t)
  BY <1>3, <1>7 DEF ExpireTimer
<1>. QED
  BY <1>1, <1>4, <1>5, <1>6, <1>7

\* Somebody calls run(), or will.
RunComes ==
    Has(todo[Main], "run") \/ SpawnRunner(1) \in ToSet(todo[Main]) \/ Has(todo[1], "run")

\* Nobody stops the io_context before it has nothing to do.
RunsInv ==
    /\ ctx.stopped \in {"no", "spent"}
    /\ Before(todo[Main], {"spawn", "join", "run"}, {"stop"})
    /\ prog \notin Runless /\ ctx.stopped = "no" => RunComes
    /\ ctx.stopped = "spent" => Unpromised(ctx.ready)

\* stop() is called when all threads have left run().
LEMMA StopsLate ==
  ASSUME GInv, OInv, RunsInv, NEW t \in Thread, todo[t] # << >>, Head(todo[t]).op = "stop"
  PROVE  ctx.stopped = "spent"
<1>1. SUFFICES ASSUME ctx.stopped = "no" PROVE FALSE
  BY DEF RunsInv
<1>2. t = Main /\ todo[Main] \in Seq(Calls) /\ todo[1] \in Seq(Calls) /\ 1 \in Thread /\ 1 # Main
  BY NextMild DEF GInv, TypeInv, Thread, Main
<1>. DEFINE s == todo[Main]
<1>3. s # << >> /\ Head(s).op = "stop"
  BY <1>2
<1>4. Lacks(Tail(s), {"spawn", "join", "run"}) /\ ToSet(s) = {Head(s)} \cup ToSet(Tail(s))
  BY <1>2, <1>3, TheRest DEF RunsInv
<1>5. Lacks(s, {"spawn", "join", "run"})
  BY <1>3, <1>4 DEF Lacks
<1>6. prog \notin Runless
  <2>1. Head(s) \in ToSet(s)
    BY <1>4
  <2>. QED
    BY <1>2, <1>3, <2>1 DEF OInv, JoinInv, Lacks
<1>7. ~Has(s, "run")
  BY <1>2, <1>5, Elements DEF Lacks
<1>8. SpawnRunner(1) \notin ToSet(s)
  BY <1>5, CalmOnes DEF Lacks, SpawnRunner
<1>9. Has(todo[1], "run")
  BY <1>1, <1>6, <1>7, <1>8 DEF RunsInv, RunComes
<1>10. Uses(1)
  BY <1>2, <1>9, Elements, UsesCalls DEF ContextCalls
<1>11. Join(1) \in ToSet(s)
  BY <1>2, <1>10 DEF OInv, JoinInv
<1>. QED
  BY <1>5, <1>11, CalmOnes DEF Lacks

\* The thread that will call run() stays there while the io_context goes on.
LEMMA RunStays ==
  ASSUME GInv, OInv, prog \notin Runless, RunComes, NEW t \in Thread, ThreadStep(t), ctx'.stopped = "no"
  PROVE  RunComes'
<1>1. todo[t] # << >> /\ (Goes(t) \/ Enters(t) \/ SpawnThread(t) \/ ExpireTimer(t))
  BY Moves
<1>2. /\ \A v \in Thread : todo[v] \in Seq(Calls)
      /\ Main \in Thread /\ 1 \in Thread /\ 1 # Main
  BY DEF GInv, TypeInv, Thread, Main
<1>3. ASSUME \A v \in Thread : todo'[v] \in Seq(Calls),
             \A v \in Thread : \A c \in ToSet(todo[v]) :
                 c.op = "run" \/ c = SpawnRunner(1) => c \in ToSet(todo'[v])
      PROVE  RunComes'
  <2>1. \A v \in Thread : Has(todo[v], "run") => Has(todo'[v], "run")
    BY <1>2, <1>3, Elements
  <2>. QED
    BY <1>2, <1>3, <2>1 DEF RunComes
<1>4. \A v \in Thread : v # t => todo[v] \in Seq(Calls)
  BY <1>2
<1>5. CASE Goes(t)
  <2>1. Head(todo[t]).op \notin {"run", "spawn"}
    BY <1>5 DEF Goes
  <2>2. ToSet(todo[t]) = {Head(todo[t])} \cup ToSet(Tail(todo[t]))
    BY <1>1, <1>2, TheRest
  <2>3. /\ todo'[t] \in Seq(Calls) /\ ToSet(Tail(todo[t])) \subseteq ToSet(todo'[t])
        /\ \A v \in Thread : v # t => todo'[v] = todo[v]
    BY <1>1, <1>5, GoesList
  <2>4. SpawnRunner(1).op = "spawn"
    BY CalmOnes DEF SpawnRunner
  <2>5. \A v \in Thread : todo'[v] \in Seq(Calls)
    BY <1>2, <2>3
  <2>6. \A v \in Thread : \A c \in ToSet(todo[v]) :
             c.op = "run" \/ c = SpawnRunner(1) => c \in ToSet(todo'[v])
    BY <2>1, <2>2, <2>3, <2>4
  <2>. QED
    BY <1>3, <2>5, <2>6
<1>6. CASE Enters(t)
  <2>1. /\ todo'[t] \in Seq(Calls) /\ ToSet(todo[t]) \subseteq ToSet(todo'[t])
        /\ \A v \in Thread : v # t => todo'[v] = todo[v]
    BY <1>1, <1>6, EntersList
  <2>2. \A v \in Thread : todo'[v] \in Seq(Calls) /\ ToSet(todo[v]) \subseteq ToSet(todo'[v])
    BY <1>2, <2>1
  <2>. QED
    BY <1>3, <2>2
<1>7. CASE SpawnThread(t)
  <2>1. /\ todo[Main] # << >> /\ Head(todo[Main]).op = "spawn" /\ todo'[Main] = Tail(todo[Main])
    BY <1>7, Spawns
  <2>2. PICK w, b : /\ b \in BodiesOf(prog) /\ w # Main
                    /\ Head(todo[Main]).thread = w
                    /\ prog \notin Runless /\ w = 1 => b = <<Run>>
                    /\ \A v \in Thread : v # Main => todo'[v] = IF v = w THEN b ELSE todo[v]
    BY <1>7, Spawns
  <2>3. /\ ToSet(todo[Main]) = {Head(todo[Main])} \cup ToSet(Tail(todo[Main]))
        /\ Tail(todo[Main]) \in Seq(Calls)
    BY <1>2, <2>1, TheRest
  <2>4. CASE w = 1
    <3>1. todo'[1] = <<Run>>
      BY <1>2, <2>2, <2>4
    <3>2. Run \in Calls
      BY PlainCalls DEF Calls
    <3>3. <<Run>> \in Seq(Calls) /\ ToSet(<<Run>>) = {Run}
      BY <3>2, OneCall
    <3>4. Has(<<Run>>, "run")
      <4>1. PICK l \in Seq(Calls) : l = <<Run>> /\ ToSet(l) = {Run}
        BY <3>3
      <4>2. Run \in ToSet(l) /\ Run.op = "run"
        BY <4>1, CalmOnes
      <4>3. Has(l, "run") <=> \E c \in ToSet(l) : c.op = "run"
        BY Elements
      <4>. QED
        BY <4>1, <4>2, <4>3
    <3>. QED
      BY <3>1, <3>4 DEF RunComes
  <2>5. CASE w # 1
    <3>1. todo'[1] = todo[1]
      BY <1>2, <2>2, <2>5
    <3>2. SpawnRunner(1) # Head(todo[Main])
      <4>1. SpawnRunner(1).thread = 1
        BY CalmOnes DEF SpawnRunner
      <4>. QED
        BY <2>2, <2>5, <4>1
    <3>3. Has(todo[Main], "run") => Has(todo'[Main], "run")
      BY <1>2, <2>1, TailCalls
    <3>4. SpawnRunner(1) \in ToSet(todo[Main]) => SpawnRunner(1) \in ToSet(todo'[Main])
      BY <2>1, <2>3, <3>2
    <3>. QED
      BY <3>1, <3>3, <3>4 DEF RunComes
  <2>. QED
    BY <2>4, <2>5
<1>8. CASE ExpireTimer(t)
  BY <1>8 DEF ExpireTimer, RunComes
<1>. QED
  BY <1>1, <1>5, <1>6, <1>7, <1>8

\* A step of a program that is not stopped before its end
LEMMA RunsStep ==
  ASSUME GInv, OInv, RunsInv, prog # Future, NEW t \in Thread, ThreadStep(t)
  PROVE  RunsInv'
<1>1. todo[t] # << >> /\ (Goes(t) \/ Enters(t) \/ SpawnThread(t) \/ ExpireTimer(t)) /\ prog' = prog
  BY Moves, Dispatch
<1>2. Main \in Thread /\ todo[Main] \in Seq(Calls)
  BY DEF GInv, TypeInv, Thread, Main
<1>3. \/ ctx'.stopped = ctx.stopped
      \/ /\ ctx.stopped = "no" /\ ctx'.stopped = "spent" /\ Nothing'
  BY <1>1, StopsGuards, StopsLate
<1>4. Before(todo'[Main], {"spawn", "join", "run"}, {"stop"})
  <2>. DEFINE A == {"spawn", "join", "run"}
              B == {"stop"}
  <2>1. Before(todo[Main], A, B)
    BY DEF RunsInv
  <2>2. "asleep" \notin A \cup B /\ B \cap Inner = {}
    BY DEF Inner, BodyOps
  <2>. HIDE DEF A, B
  <2>3. Goes(t) => Before(todo'[Main], A, B)
    BY <1>1, <1>2, <2>1, <2>2, GoesList
  <2>4. Enters(t) => Before(todo'[Main], A, B)
    BY <1>1, <1>2, <2>1, <2>2, EntersList
  <2>5. ASSUME SpawnThread(t) PROVE Before(todo'[Main], A, B)
    <3>1. todo'[Main] = Tail(todo[Main]) /\ todo[Main] # << >>
      BY <2>5, Spawns
    <3>2. Before(Tail(todo[Main]), A, B)
      BY <1>2, <2>1, <3>1, TheRest
    <3>. QED
      BY <3>1, <3>2
  <2>6. ExpireTimer(t) => Before(todo'[Main], A, B)
    BY <2>1 DEF ExpireTimer
  <2>7. Before(todo'[Main], A, B)
    BY <1>1, <2>3, <2>4, <2>5, <2>6
  <2>. QED
    BY <2>7 DEF A, B
<1>5. prog' \notin Runless /\ ctx'.stopped = "no" => RunComes'
  BY <1>1, <1>3, RunStays DEF RunsInv
<1>6. ctx'.stopped = "spent" => Unpromised(ctx'.ready)
  <2>1. CASE Nothing'
    <3>1. Len(<< >>) = 0
      OBVIOUS
    <3>. QED
      BY <2>1, <3>1 DEF Nothing, Unpromised
  <2>2. CASE ctx'.stopped = ctx.stopped /\ ctx.stopped = "spent"
    <3>1. ~ctx.guard /\ Unpromised(ctx.ready)
      BY <2>2 DEF GInv, GuardInv, GuardHolds, RunsInv
    <3>. QED
      BY <3>1, Grows
  <2>. QED
    BY <1>3, <2>1, <2>2
<1>. QED
  BY <1>3, <1>4, <1>5, <1>6 DEF RunsInv

(* Who may still queue a handler.                                          *)

Adds(s) == ~Lacks(s, Adding)

\* The guard is held before threads start, or nothing is queued after they do.
GuardedStart ==
    ctx.guard \/ Has(todo[Main], "make_work_guard") \/ Before(todo[Main], Adding, {"spawn"})

\* Only a handler queues another one, but for the main thread, which holds the
\* guard or is alone.
AddersInv ==
    \A t \in Thread : Adds(todo[t]) /\ ~Has(todo[t], "leave") =>
        t = Main /\ (ctx.guard \/ \A v \in Thread : v # Main => todo[v] = << >>)

\* Nothing is left when the io_context has stopped.
DoneInv ==
    prog \in Runless \/ ctx.stopped = "spent" => Nothing /\ \A t \in Thread : ~Adds(todo[t])

\* Whoever queues handlers after a step, outside of a handler, did so before.
LEMMA AddsBefore ==
  ASSUME GInv, OInv, OrderInv, NEW t \in Thread, ThreadStep(t), ~SpawnThread(t),
         NEW v \in Thread, Adds(todo'[v]), ~Has(todo'[v], "leave")
  PROVE  Adds(todo[v]) /\ ~Has(todo[v], "leave") /\ (v = t => Head(todo[t]).op \notin Closing)
<1>1. todo[t] # << >> /\ (Goes(t) \/ Enters(t) \/ ExpireTimer(t))
  BY Moves
<1>2. todo[t] \in Seq(Calls) /\ Before(todo[t], Adding, Closing)
  BY DEF GInv, TypeInv, OrderInv
<1>3. CASE v # t
  <2>1. todo'[v] = todo[v]
    BY <1>1, <1>3, GoesList, EntersList DEF ExpireTimer
  <2>. QED
    BY <1>3, <2>1
<1>4. CASE v = t /\ Goes(t)
  <2>1. /\ todo'[t] \in Seq(Calls)
        /\ \A c \in ToSet(todo'[t]) : c \in ToSet(Tail(todo[t])) \/ c.op = "asleep"
        /\ ToSet(Tail(todo[t])) \subseteq ToSet(todo'[t])
    BY <1>1, <1>4, GoesList
  <2>2. Head(todo[t]).op \notin Closing
    <3>1. "asleep" \notin Adding \cup Closing
      BY DEF Adding, Closing, Brings
    <3>2. Head(todo[t]).op \in Closing => Lacks(todo'[t], Adding)
      BY <1>1, <1>2, <1>4, <3>1, GoesList
    <3>. QED
      BY <1>4, <3>2 DEF Adds
  <2>3. ToSet(todo[t]) = {Head(todo[t])} \cup ToSet(Tail(todo[t]))
    BY <1>1, <1>2, TheRest
  <2>4. Adds(todo[t])
    BY <1>4, <2>1, <2>3 DEF Adds, Lacks, Adding, Brings
  <2>5. ~Has(todo[t], "leave")
    <3>1. Has(todo[t], "leave") <=> \E c \in ToSet(todo[t]) : c.op = "leave"
      BY <1>2, Elements
    <3>2. Has(todo'[t], "leave") <=> \E c \in ToSet(todo'[t]) : c.op = "leave"
      BY <2>1, Elements
    <3>. QED
      BY <1>4, <2>1, <2>2, <2>3, <3>1, <3>2 DEF Closing
  <2>. QED
    BY <1>4, <2>2, <2>4, <2>5
<1>5. CASE v = t /\ Enters(t)
  <2>1. /\ todo'[t] \in Seq(Calls) /\ ToSet(todo[t]) \subseteq ToSet(todo'[t])
        /\ Head(todo[t]).op \in {"run", "turn"}
        /\ Head(todo[t]).op = "run" => Has(todo'[t], "leave")
    BY <1>1, <1>5, EntersList
  <2>2. Head(todo[t]).op = "turn"
    BY <1>5, <2>1
  <2>3. Head(todo[t]) \in ToSet(todo[t])
    BY <1>1, <1>2, TheRest
  <2>4. Adds(todo[t])
    BY <2>2, <2>3 DEF Adds, Lacks, Adding
  <2>5. ~Has(todo[t], "leave")
    <3>1. Has(todo[t], "leave") <=> \E c \in ToSet(todo[t]) : c.op = "leave"
      BY <1>2, Elements
    <3>2. Has(todo'[t], "leave") <=> \E c \in ToSet(todo'[t]) : c.op = "leave"
      BY <2>1, Elements
    <3>. QED
      BY <1>5, <2>1, <3>1, <3>2
  <2>. QED
    BY <1>5, <2>2, <2>4, <2>5 DEF Closing
<1>6. CASE v = t /\ ExpireTimer(t)
  <2>1. todo' = todo /\ Head(todo[t]).op = "run"
    BY <1>6 DEF ExpireTimer, At
  <2>2. Lacks(Tail(todo[t]), Adding) /\ ToSet(todo[t]) = {Head(todo[t])} \cup ToSet(Tail(todo[t]))
    BY <1>1, <1>2, <2>1, TheRest DEF Closing
  <2>3. ~Adds(todo[t])
    BY <2>1, <2>2 DEF Adds, Lacks, Adding, Brings
  <2>. QED
    BY <1>6, <2>1, <2>3
<1>. QED
  BY <1>1, <1>3, <1>4, <1>5, <1>6

\* A guard is made before threads are started.
LEMMA GuardedStep ==
  ASSUME GInv, OInv, OrderInv, GuardedStart, NEW t \in Thread, ThreadStep(t)
  PROVE  GuardedStart'
<1>1. todo[t] # << >> /\ (Goes(t) \/ Enters(t) \/ SpawnThread(t) \/ ExpireTimer(t))
  BY Moves
<1>2. Main \in Thread /\ todo[Main] \in Seq(Calls) /\ todo[t] \in Seq(Calls)
  BY DEF GInv, TypeInv, Thread, Main
<1>3. \A o : Head(todo[t]).op = o => Has(todo[t], o)
  BY <1>1, <1>2, TailCalls
<1>4. SUFFICES ASSUME ~ctx'.guard PROVE GuardedStart'
  BY DEF GuardedStart
<1>5. CASE ctx.guard
  <2>1. Head(todo[t]).op = "reset"
    BY <1>4, <1>5, StopsGuards
  <2>2. t = Main
    BY <1>3, <2>1 DEF GInv, ListsInv
  <2>3. Goes(t)
    BY <1>1, <2>1 DEF Enters, SpawnThread, ExpireTimer, At
  <2>4. "asleep" \notin Adding \cup Closing /\ "reset" \in Closing
    BY DEF Adding, Closing, Brings
  <2>5. Before(todo[t], Adding, Closing)
    BY DEF OrderInv
  <2>6. Lacks(todo'[t], Adding) /\ todo'[t] \in Seq(Calls)
    BY <1>1, <2>1, <2>3, <2>4, <2>5, GoesList
  <2>7. Before(todo'[t], Adding, {"spawn"})
    BY <2>6, NoOrder
  <2>. QED
    BY <2>2, <2>7 DEF GuardedStart
<1>6. CASE Has(todo[Main], "make_work_guard")
  <2>1. Head(todo[t]).op = "make_work_guard"
    BY <1>1, <1>6, GuardFirst
  <2>2. MakeGuard(t) /\ ctx \in Context
    BY <2>1, Dispatch DEF GInv, TypeInv
  <2>3. ctx'.guard
    BY <2>2 DEF MakeGuard, Context
  <2>. QED
    BY <1>4, <2>3
<1>7. CASE Before(todo[Main], Adding, {"spawn"})
  <2>. DEFINE B == {"spawn"}
  <2>1. "asleep" \notin Adding \cup B /\ B \cap Inner = {}
    BY DEF Adding, Brings, Inner, BodyOps
  <2>2. Before(todo[Main], Adding, B)
    BY <1>7
  <2>. HIDE DEF B
  <2>3. Goes(t) => Before(todo'[Main], Adding, B)
    BY <1>1, <1>2, <2>1, <2>2, GoesList
  <2>4. Enters(t) => Before(todo'[Main], Adding, B)
    BY <1>1, <1>2, <2>1, <2>2, EntersList
  <2>5. ASSUME SpawnThread(t) PROVE Before(todo'[Main], Adding, B)
    <3>1. todo'[Main] = Tail(todo[Main]) /\ todo[Main] # << >>
      BY <2>5, Spawns
    <3>2. Before(Tail(todo[Main]), Adding, B)
      BY <1>2, <2>2, <3>1, TheRest
    <3>. QED
      BY <3>1, <3>2
  <2>6. ExpireTimer(t) => Before(todo'[Main], Adding, B)
    BY <2>2 DEF ExpireTimer
  <2>7. Before(todo'[Main], Adding, B)
    BY <1>1, <2>3, <2>4, <2>5, <2>6
  <2>. QED
    BY <2>7 DEF B, GuardedStart
<1>. QED
  BY <1>5, <1>6, <1>7 DEF GuardedStart

\* A step leaves the queueing to the same threads.
LEMMA AddersStep ==
  ASSUME GInv, OInv, OrderInv, GuardedStart, AddersInv, prog # "runBackgroundTask",
         NEW t \in Thread, ThreadStep(t)
  PROVE  AddersInv'
<1>1. /\ todo[t] # << >> /\ Main \in Thread /\ todo[Main] \in Seq(Calls) /\ todo[t] \in Seq(Calls)
  BY Dispatch DEF GInv, TypeInv, Thread, Main
<1>2. SUFFICES ASSUME NEW v \in Thread, Adds(todo'[v]), ~Has(todo'[v], "leave")
               PROVE  v = Main /\ (ctx'.guard \/ \A x \in Thread : x # Main => todo'[x] = << >>)
  BY DEF AddersInv
<1>3. CASE SpawnThread(t)
  <2>1. /\ t = Main /\ todo[Main] # << >> /\ Head(todo[Main]).op = "spawn"
        /\ todo'[Main] = Tail(todo[Main]) /\ ctx' = ctx
    BY <1>3, Spawns
  <2>2. PICK w, b : /\ b \in BodiesOf(prog) /\ w # Main
                    /\ \A x \in Thread : x # Main => todo'[x] = IF x = w THEN b ELSE todo[x]
    BY <1>3, Spawns
  <2>3. v = Main
    <3>1. SUFFICES ASSUME v # Main PROVE FALSE
      OBVIOUS
    <3>2. ~Adds(b)
      BY <2>2, BodyLists DEF Adds
    <3>3. todo'[v] = todo[v]
      BY <1>2, <2>2, <3>1, <3>2
    <3>. QED
      BY <1>2, <3>1, <3>3 DEF AddersInv
  <2>4. Adds(Tail(todo[Main]))
    BY <1>2, <2>1, <2>3
  <2>5. ~Before(todo[Main], Adding, {"spawn"})
    BY <1>1, <2>1, <2>4, TheRest DEF Adds
  <2>6. ~Has(todo[Main], "make_work_guard")
    BY <1>1, <2>1, GuardFirst
  <2>7. ctx.guard
    BY <2>5, <2>6 DEF GuardedStart
  <2>. QED
    BY <2>1, <2>3, <2>7
<1>4. CASE ~SpawnThread(t)
  <2>1. Adds(todo[v]) /\ ~Has(todo[v], "leave") /\ (v = t => Head(todo[t]).op \notin Closing)
    BY <1>2, <1>4, AddsBefore
  <2>2. v = Main /\ (ctx.guard \/ \A x \in Thread : x # Main => todo[x] = << >>)
    BY <2>1 DEF AddersInv
  <2>3. CASE ctx.guard
    <3>1. SUFFICES ASSUME ~ctx'.guard PROVE FALSE
      BY <2>2
    <3>2. Head(todo[t]).op = "reset"
      BY <2>3, <3>1, StopsGuards
    <3>3. Has(todo[t], "reset")
      BY <1>1, <3>2, TailCalls
    <3>4. t = Main
      BY <3>3 DEF GInv, ListsInv
    <3>. QED
      BY <2>1, <2>2, <3>2, <3>4 DEF Closing
  <2>4. CASE \A x \in Thread : x # Main => todo[x] = << >>
    <3>1. t = Main
      BY <1>1, <2>4
    <3>2. \A x \in Thread : x # t => todo'[x] = todo[x]
      BY <1>1, <1>4, Moves, GoesList, EntersList DEF ExpireTimer
    <3>. QED
      BY <2>2, <2>4, <3>1, <3>2
  <2>. QED
    BY <2>2, <2>3, <2>4
<1>. QED
  BY <1>3, <1>4

\* A step that stops the io_context leaves nothing, and nothing comes later.
LEMMA DoneStep ==
  ASSUME GInv, OInv, OInv', OrderInv, AddersInv, DoneInv, RunsInv,
         prog \notin {Future, "runBackgroundTask"}, NEW t \in Thread, ThreadStep(t)
  PROVE  DoneInv'
<1>1. /\ todo[t] # << >> /\ todo[t] \in Seq(Calls) /\ prog' = prog
      /\ Goes(t) \/ Enters(t) \/ SpawnThread(t) \/ ExpireTimer(t)
  BY Moves, Dispatch DEF GInv, TypeInv
<1>2. Head(todo[t]) \in ToSet(todo[t]) /\ ToSet(todo[t]) = {Head(todo[t])} \cup ToSet(Tail(todo[t]))
  BY <1>1, TheRest
<1>3. CASE prog \in Runless \/ ctx.stopped = "spent"
  <2>1. Nothing /\ \A v \in Thread : ~Adds(todo[v])
    BY <1>3 DEF DoneInv
  <2>2. Head(todo[t]).op \notin Adding
    BY <1>2, <2>1 DEF Adds, Lacks
  <2>3. Nothing'
    BY <2>1, <2>2, Grows
  <2>4. ~Enters(t)
    <3>1. SUFFICES ASSUME Enters(t) PROVE FALSE
      OBVIOUS
    <3>2. Head(todo[t]).op = "run" \/ Head(todo[t]).op = "turn"
      BY <3>1 DEF Enters
    <3>3. Head(todo[t]).op = "run" /\ ctx.ready # << >>
      BY <2>2, <3>1, <3>2 DEF Enters, Adding
    <3>. QED
      BY <2>1, <3>3 DEF Nothing
  <2>5. ASSUME NEW v \in Thread PROVE ~Adds(todo'[v])
    <3>1. CASE Goes(t)
      <4>1. v # t => todo'[v] = todo[v]
        BY <1>1, <3>1, GoesList
      <4>2. ~Adds(todo'[t])
        <5>1. \A c \in ToSet(todo'[t]) : c \in ToSet(Tail(todo[t])) \/ c.op = "asleep"
          BY <1>1, <3>1, GoesList
        <5>2. \A c \in ToSet(todo[t]) : c.op \notin Adding
          BY <2>1 DEF Adds, Lacks
        <5>. QED
          BY <1>2, <5>1, <5>2 DEF Adds, Lacks, Adding, Brings
      <4>. QED
        BY <2>1, <4>1, <4>2
    <3>2. CASE SpawnThread(t)
      <4>1. /\ t = Main /\ todo'[Main] = Tail(todo[Main])
        BY <3>2, Spawns
      <4>2. PICK w, b : /\ b \in BodiesOf(prog) /\ w # Main
                        /\ \A x \in Thread : x # Main => todo'[x] = IF x = w THEN b ELSE todo[x]
        BY <3>2, Spawns
      <4>3. ~Adds(b)
        BY <4>2, BodyLists DEF Adds
      <4>4. ~Adds(Tail(todo[t]))
        BY <1>2, <2>1 DEF Adds, Lacks
      <4>5. CASE v = Main
        BY <4>1, <4>4, <4>5
      <4>6. CASE v # Main
        BY <2>1, <4>2, <4>3, <4>6
      <4>. QED
        BY <4>5, <4>6
    <3>3. CASE ExpireTimer(t)
      BY <2>1, <3>3 DEF ExpireTimer
    <3>. QED
      BY <1>1, <2>4, <3>1, <3>2, <3>3
  <2>. QED
    BY <2>3, <2>5 DEF DoneInv
<1>4. CASE prog \notin Runless /\ ctx.stopped = "no" /\ ctx'.stopped = "spent"
  <2>1. Goes(t) /\ Head(todo[t]).op \in Closing /\ Nothing' /\ ~ctx'.guard /\ Leavers \subseteq {t}
    BY <1>4, StopsGuards, Zenon
  <2>2. ASSUME NEW v \in Thread, Adds(todo'[v]) PROVE FALSE
    <3>1. v # t
      <4>1. Before(todo[t], Adding, Closing) /\ "asleep" \notin Adding \cup Closing
        BY DEF OrderInv, Adding, Closing, Brings
      <4>2. Lacks(todo'[t], Adding)
        BY <1>1, <2>1, <4>1, GoesList
      <4>. QED
        BY <2>2, <4>2 DEF Adds
    <3>2. todo'[v] = todo[v]
      BY <1>1, <2>1, <3>1, GoesList
    <3>3. ~Has(todo[v], "leave")
      BY <2>1, <3>1 DEF Leavers
    <3>4. v = Main /\ ctx.guard
      <4>1. v = Main /\ (ctx.guard \/ \A x \in Thread : x # Main => todo[x] = << >>)
        BY <2>2, <3>2, <3>3 DEF AddersInv
      <4>. QED
        BY <1>1, <3>1, <4>1
    <3>5. Head(todo[t]).op = "reset"
      BY <2>1, <3>4, StopsGuards
    <3>6. Has(todo[t], "reset")
      BY <1>1, <3>5, TailCalls
    <3>. QED
      BY <3>1, <3>4, <3>6 DEF GInv, ListsInv
  <2>. QED
    BY <2>1, <2>2 DEF DoneInv
<1>5. CASE prog \notin Runless /\ ctx.stopped = "no" /\ ctx'.stopped # "spent"
  BY <1>1, <1>5 DEF DoneInv
<1>. QED
  BY <1>3, <1>4, <1>5 DEF RunsInv

\* The programs that run their io_context until it has nothing to do
Steady == Common /\ prog # Future

SteadyInv ==
    /\ OrderInv /\ RunsInv
    /\ prog # "runBackgroundTask" => GuardedStart /\ AddersInv /\ DoneInv

\* It holds at their start.
LEMMA SteadyInit == ASSUME Init, Steady PROVE SteadyInv
<1>1. /\ todo[Main] = Program[prog] /\ \A t \in Thread : t # Main => todo[t] = << >>
      /\ Main \in Thread
  BY DEF Init, Main, Thread
<1>2. TableOK(prog, todo[Main])
  BY <1>1, SizeAssumption, CommonTable DEF Init, Steady, Common
<1>3. Lacks(<< >>, Adding) /\ Before(<< >>, Adding, Closing)
  BY DEF Lacks, ToSet, Before
<1>4. OrderInv
  BY <1>1, <1>2, <1>3 DEF OrderInv, TableOK, Steady
<1>5. ctx.ready = << >> /\ timer.waiting = FALSE /\ ctx.stopped = "no"
  BY DEF Init
<1>6. RunsInv
  BY <1>2, <1>5 DEF RunsInv, RunComes, TableOK, Steady
<1>7. prog # "runBackgroundTask" => GuardedStart
  BY <1>2 DEF GuardedStart, TableOK, Steady
<1>8. AddersInv
  BY <1>1, <1>3 DEF AddersInv, Adds
<1>9. DoneInv
  <2>1. prog \in Runless => ~Adds(todo[Main])
    BY <1>2 DEF TableOK, Adds, Lacks
  <2>. QED
    BY <1>1, <1>3, <1>5, <2>1 DEF DoneInv, Nothing, Adds
<1>. QED
  BY <1>4, <1>6, <1>7, <1>8, <1>9 DEF SteadyInv

\* Every step keeps it.
LEMMA SteadyStep == ASSUME GInv, OInv, SteadyInv, prog # Future, [Next]_vars PROVE SteadyInv'
<1>1. CASE UNCHANGED <<prog, todo, ctx, timer>>
  <2>1. OrderInv' /\ RunsInv'
    BY <1>1 DEF SteadyInv, OrderInv, RunsInv, RunComes, Unpromised
  <2>2. prog' # "runBackgroundTask" => GuardedStart' /\ AddersInv' /\ DoneInv'
    BY <1>1 DEF SteadyInv, GuardedStart, AddersInv, DoneInv, Nothing
  <2>. QED
    BY <2>1, <2>2 DEF SteadyInv
<1>2. ASSUME NEW t \in Thread, ThreadStep(t) PROVE SteadyInv'
  <2>1. prog' = prog
    BY <1>2, Dispatch
  <2>2. OrderInv' /\ RunsInv'
    BY <1>2, OrderStep, RunsStep DEF SteadyInv
  <2>3. OInv'
    BY OStep
  <2>4. prog # "runBackgroundTask" => GuardedStart' /\ AddersInv' /\ DoneInv'
    BY <1>2, <2>3, GuardedStep, AddersStep, DoneStep DEF SteadyInv
  <2>. QED
    BY <2>1, <2>2, <2>4 DEF SteadyInv
<1>. QED
  BY <1>1, <1>2 DEF Next, Tick, vars

\* What is left in the queue at their end
LEMMA SteadyEnd ==
  ASSUME GInv, OInv, SteadyInv, Ended
  PROVE  Unpromised(ctx.ready) /\ (prog # "runBackgroundTask" => ctx.ready = << >>)
<1>1. todo[Main] = << >> /\ ToSet(<< >>) = {} /\ 1 \in Thread /\ todo[1] \in Seq(Calls)
  BY DEF Ended, ToSet, Thread, GInv, TypeInv
<1>2. ctx.stopped = "no" => prog \in Runless
  <2>1. SUFFICES ASSUME ctx.stopped = "no", prog \notin Runless PROVE FALSE
    OBVIOUS
  <2>2. ~Has(todo[Main], "run")
    BY <1>1 DEF Has
  <2>3. Has(todo[1], "run")
    BY <1>1, <2>1, <2>2 DEF SteadyInv, RunsInv, RunComes
  <2>4. Uses(1)
    BY <1>1, <2>3, Elements, UsesCalls DEF ContextCalls
  <2>. QED
    BY <1>1, <2>4, OEnd DEF NoDanglingContext
<1>3. prog # "runBackgroundTask" => ctx.ready = << >>
  BY <1>2 DEF SteadyInv, RunsInv, DoneInv, Nothing
<1>4. prog = "runBackgroundTask" => prog \notin Runless
  BY DEF Runless
<1>5. ctx.ready = << >> => Unpromised(ctx.ready)
  <2>1. Len(<< >>) = 0
    OBVIOUS
  <2>. QED
    BY <2>1 DEF Unpromised
<1>6. prog = "runBackgroundTask" => Unpromised(ctx.ready)
  BY <1>2, <1>4 DEF SteadyInv, RunsInv
<1>. QED
  BY <1>3, <1>5, <1>6

\* What is left on the strand at the end
LEMMA StrandEnd ==
  ASSUME GInv, OInv, StrandInv, TurnPending, Ended, ctx.ready = << >>
  PROVE  strand.turn = << >> /\ strand.next = << >>
<1>1. NoDanglingContext
  BY OEnd
<1>2. Turners = {}
  <2>1. SUFFICES ASSUME NEW t \in Thread, todo[t] \in InTurn PROVE FALSE
    BY DEF Turners
  <2>2. todo[t] \in Seq(Calls)
    BY DEF GInv, TypeInv
  <2>3. todo[t] # << >> /\ Head(todo[t]).op \in {"turn", "leave_strand"}
    BY <2>1, TurnCalls DEF InTurn
  <2>4. \E c \in ToSet(todo[t]) : c.op = "turn"
    <3>1. ToSet(todo[t]) = {Head(todo[t])} \cup ToSet(Tail(todo[t]))
      BY <2>2, <2>3, TheRest
    <3>2. CASE todo[t] = <<Turn, Leave, Run>>
      BY <3>1, <3>2, TurnCalls
    <3>3. CASE todo[t] = <<LeavesStrand, Turn, Leave, Run>>
      <4>1. Tail(todo[t]) = <<Turn, Leave, Run>> /\ Tail(todo[t]) \in Seq(Calls)
        BY <2>2, <2>3, <3>3, TheRest
      <4>2. PICK s \in Seq(Calls) : s = Tail(todo[t])
        BY <4>1
      <4>3. s # << >> /\ Head(s) = Turn
        <5>1. Head(<<Turn, Leave, Run>>) = Turn
          BY ThreeCalls, Zenon
        <5>2. <<Turn, Leave, Run>> # << >>
          OBVIOUS
        <5>. QED
          BY <4>1, <4>2, <5>1, <5>2, Zenon
      <4>4. Turn \in ToSet(s)
        BY <4>3, TheRest
      <4>. QED
        BY <3>1, <4>2, <4>4, TurnCalls
    <3>. QED
      BY <2>1, <3>2, <3>3 DEF InTurn
  <2>5. Uses(t)
    BY <2>4, UsesCalls DEF ContextCalls
  <2>. QED
    BY <1>1, <2>5 DEF NoDanglingContext
<1>3. ~strand.locked
  BY <1>2 DEF TurnPending
<1>. QED
  BY <1>3 DEF StrandInv, OneTurn

(* The handler of the future is queued once, and called.                   *)

\* The wait is still to come, it may go on, or it was cancelled.
Asking ==
    todo[Main] \in {<<Expires(4), SpawnRunner(1), AsyncWait(Promise), Sleep(2), Cancel, Get, Join(1)>>,
                    <<SpawnRunner(1), AsyncWait(Promise), Sleep(2), Cancel, Get, Join(1)>>,
                    <<AsyncWait(Promise), Sleep(2), Cancel, Get, Join(1)>>}

Awaiting ==
    \/ todo[Main] = <<Cancel, Get, Join(1)>>
    \/ \E c \in Calls : todo[Main] = <<c, Cancel, Get, Join(1)>> /\ c.op \in {"sleep", "asleep"}

Ending == todo[Main] \in {<<Get, Join(1)>>, <<Join(1)>>, << >>}

\* What the other thread has in hand
Resting == todo[1] \in {<< >>, <<Run>>, <<Leave, Run>>}
Setting == todo[1] \in {<<Sets("ok"), Leave, Run>>, <<Sets("aborted"), Leave, Run>>}

\* The main thread before it has started the wait
LEMMA AskingMoves ==
  ASSUME GInv, Asking, ThreadStep(Main)
  PROVE  /\ ctx'.ready = ctx.ready /\ fut' = fut
         /\ \/ Asking' /\ timer'.waiting = timer.waiting /\ todo'[1] \in {todo[1], <<Run>>}
            \/ Awaiting' /\ timer'.waiting /\ todo'[1] = todo[1]
<1>. DEFINE M == todo[Main]
<1>1. /\ todo \in [Thread -> Seq(Calls)] /\ ctx \in Context /\ timer \in Timer
      /\ Main \in Thread /\ 1 \in Thread /\ 1 # Main
  BY DEF GInv, TypeInv, Main, Thread
<1>2. ASSUME NEW u, todo' = [todo EXCEPT ![Main] = u] PROVE todo'[Main] = u /\ todo'[1] = todo[1]
  BY <1>1, <1>2
<1>3. \A r : << >> \o Tail(M) = r /\ Then(Main, << >>) => todo' = [todo EXCEPT ![Main] = r]
  BY DEF Then
<1>4. CASE M = <<Expires(4), SpawnRunner(1), AsyncWait(Promise), Sleep(2), Cancel, Get, Join(1)>>
  <2>1. SetExpiry(Main) /\ << >> \o Tail(M) = <<SpawnRunner(1), AsyncWait(Promise), Sleep(2), Cancel, Get, Join(1)>>
    <3>1. Head(M).op = "expires"
      BY <1>4, FutureCalls
    <3>. QED
      BY <1>4, <3>1, Dispatch, FutureCalls
  <2>2. /\ todo' = [todo EXCEPT ![Main] = <<SpawnRunner(1), AsyncWait(Promise), Sleep(2), Cancel, Get, Join(1)>>]
        /\ ctx' = ctx /\ fut' = fut /\ timer'.waiting = timer.waiting
    BY <1>1, <1>3, <2>1 DEF SetExpiry, Timer
  <2>3. /\ todo'[Main] = <<SpawnRunner(1), AsyncWait(Promise), Sleep(2), Cancel, Get, Join(1)>>
        /\ todo'[1] = todo[1]
    BY <1>2, <2>2
  <2>. QED
    BY <2>2, <2>3 DEF Asking
<1>5. CASE M = <<SpawnRunner(1), AsyncWait(Promise), Sleep(2), Cancel, Get, Join(1)>>
  <2>1. SpawnThread(Main) /\ Tail(M) = <<AsyncWait(Promise), Sleep(2), Cancel, Get, Join(1)>>
        /\ Arg(Main) = SpawnRunner(1)
    <3>1. Head(M) = SpawnRunner(1) /\ Head(M).op = "spawn"
      BY <1>5, FutureCalls
    <3>. QED
      BY <1>5, <3>1, Dispatch, FutureCalls DEF Arg
  <2>2. /\ todo' = [todo EXCEPT ![Main] = <<AsyncWait(Promise), Sleep(2), Cancel, Get, Join(1)>>, ![1] = <<Run>>]
        /\ UNCHANGED <<ctx, fut, timer>>
    BY <2>1, FutureCalls DEF SpawnThread
  <2>3. todo'[Main] = <<AsyncWait(Promise), Sleep(2), Cancel, Get, Join(1)>> /\ todo'[1] = <<Run>>
    BY <1>1, <2>2
  <2>. QED
    BY <2>2, <2>3 DEF Asking
<1>6. CASE M = <<AsyncWait(Promise), Sleep(2), Cancel, Get, Join(1)>>
  <2>1. StartWait(Main) /\ << >> \o Tail(M) = <<Sleep(2), Cancel, Get, Join(1)>>
    <3>1. Head(M) = AsyncWait(Promise) /\ Head(M).op = "async_wait"
      BY <1>6, FutureCalls
    <3>. QED
      BY <1>6, <3>1, Dispatch, FutureCalls
  <2>2. /\ todo' = [todo EXCEPT ![Main] = <<Sleep(2), Cancel, Get, Join(1)>>]
        /\ fut' = fut /\ timer'.waiting /\ ctx'.ready = ctx.ready
    BY <1>1, <1>3, <2>1 DEF StartWait, Armed, Context, Timer
  <2>3. todo'[Main] = <<Sleep(2), Cancel, Get, Join(1)>> /\ todo'[1] = todo[1]
    BY <1>2, <2>2
  <2>4. Awaiting'
    BY <2>3, FutureCalls DEF Awaiting
  <2>. QED
    BY <2>2, <2>3, <2>4
<1>. QED
  BY <1>4, <1>5, <1>6 DEF Asking

\* The main thread after it has started the wait, up to the cancel()
LEMMA AwaitingMoves ==
  ASSUME GInv, FutureInv, Awaiting, ThreadStep(Main)
  PROVE  /\ fut' = fut /\ todo'[1] = todo[1]
         /\ \/ Awaiting' /\ ctx' = ctx /\ timer' = timer
            \/ /\ todo'[Main] = <<Get, Join(1)>> /\ ~timer'.waiting
               /\ timer.waiting => Len(ctx'.ready) = Len(ctx.ready) + 1
               /\ ~timer.waiting => ctx'.ready = ctx.ready
<1>. DEFINE M == todo[Main]
<1>1. /\ todo \in [Thread -> Seq(Calls)] /\ ctx \in Context /\ timer \in Timer
      /\ Main \in Thread /\ 1 \in Thread /\ 1 # Main
  BY DEF GInv, TypeInv, Main, Thread
<1>2. ASSUME NEW u, todo' = [todo EXCEPT ![Main] = u] PROVE todo'[Main] = u /\ todo'[1] = todo[1]
  BY <1>1, <1>2
<1>3. ASSUME NEW c \in Calls, M = <<c, Cancel, Get, Join(1)>>, c.op \in {"sleep", "asleep"}
      PROVE  Awaiting' /\ UNCHANGED <<ctx, timer, fut>> /\ todo'[1] = todo[1]
  <2>1. Head(M) = c /\ Tail(M) = <<Cancel, Get, Join(1)>>
    BY <1>3
  <2>2. FallAsleep(Main) \/ WakeUp(Main)
    BY <1>3, <2>1, Dispatch
  <2>3. UNCHANGED <<ctx, fut, timer>>
    BY <2>2 DEF FallAsleep, WakeUp
  <2>4. CASE WakeUp(Main)
    <3>1. << >> \o Tail(M) = <<Cancel, Get, Join(1)>>
      BY <1>3, Tails
    <3>2. todo' = [todo EXCEPT ![Main] = <<Cancel, Get, Join(1)>>]
      BY <2>4, <3>1 DEF WakeUp, Then
    <3>3. todo'[Main] = <<Cancel, Get, Join(1)>> /\ todo'[1] = todo[1]
      BY <1>2, <3>2
    <3>. QED
      BY <2>3, <3>3 DEF Awaiting
  <2>5. CASE FallAsleep(Main)
    <3>. DEFINE a == Asleep(Main)
    <3>1. a \in Calls /\ a.op = "asleep"
      <4>1. c.op = "sleep" /\ now \in Int
        BY <2>1, <2>5 DEF FallAsleep, At, GInv, TypeInv
      <4>2. PICK f \in Int : f = c.for
        BY <4>1 DEF Calls, Plain, Basic, Bare, Special
      <4>3. now + f \in Int /\ Arg(Main).for = f
        BY <2>1, <4>1, <4>2 DEF Arg
      <4>. QED
        BY <4>3 DEF Asleep, Calls, Plain, Basic
    <3>. HIDE DEF a
    <3>2. <<a>> \o Tail(M) = <<a, Cancel, Get, Join(1)>>
      BY <2>1, InFront
    <3>3. Then(Main, <<a>>)
      BY <2>5 DEF FallAsleep, a
    <3>4. todo' = [todo EXCEPT ![Main] = <<a, Cancel, Get, Join(1)>>]
      BY <3>2, <3>3 DEF Then
    <3>5. todo'[Main] = <<a, Cancel, Get, Join(1)>> /\ todo'[1] = todo[1]
      BY <1>2, <3>4
    <3>. QED
      BY <2>3, <3>1, <3>5 DEF Awaiting
  <2>. QED
    BY <2>2, <2>4, <2>5
<1>4. CASE M = <<Cancel, Get, Join(1)>>
  <2>1. CancelTimer(Main) /\ << >> \o Tail(M) = <<Get, Join(1)>>
    <3>1. Head(M) = Cancel
      BY <1>4, Tails
    <3>2. Head(M).op = "cancel"
      BY <3>1, FutureCalls
    <3>. QED
      BY <1>4, <3>2, Dispatch, Tails
  <2>2. todo' = [todo EXCEPT ![Main] = <<Get, Join(1)>>] /\ fut' = fut
    BY <2>1 DEF CancelTimer, Then
  <2>3. todo'[Main] = <<Get, Join(1)>> /\ todo'[1] = todo[1]
    BY <1>2, <2>2
  <2>4. ~timer'.waiting
    BY <1>1, <2>1 DEF CancelTimer, Timer
  <2>. DEFINE g == [timer.handler EXCEPT !.ec = "aborted"]
  <2>5. g \in Handlers
    BY <1>1 DEF Timer, Handlers, Outcome
  <2>6. ctx' = IF timer.waiting THEN Completed(ctx, g) ELSE ctx
    BY <2>1 DEF CancelTimer
  <2>. HIDE DEF g
  <2>7. timer.waiting => Len(ctx'.ready) = Len(ctx.ready) + 1
    BY <1>1, <2>5, <2>6, CompletesOne
  <2>. QED
    BY <2>2, <2>3, <2>4, <2>6, <2>7
<1>. QED
  BY <1>3, <1>4 DEF Awaiting

\* The main thread waits for the future and for the other thread.
LEMMA EndingMoves ==
  ASSUME GInv, Ending, ThreadStep(Main)
  PROVE  /\ UNCHANGED <<ctx, timer, fut>> /\ todo'[1] = todo[1]
         /\ todo'[Main] \in {<<Join(1)>>, << >>}
         /\ fut # "pending" \/ todo[Main] = <<Join(1)>>
<1>. DEFINE M == todo[Main]
<1>1. /\ todo \in [Thread -> Seq(Calls)] /\ Main \in Thread /\ 1 \in Thread /\ 1 # Main
  BY DEF GInv, TypeInv, Main, Thread
<1>2. ASSUME NEW u, todo' = [todo EXCEPT ![Main] = u] PROVE todo'[Main] = u /\ todo'[1] = todo[1]
  BY <1>1, <1>2
<1>3. M # << >>
  BY Dispatch
<1>4. CASE M = <<Get, Join(1)>>
  <2>1. Settle(Main) /\ << >> \o Tail(M) = <<Join(1)>> /\ Head(M).op = "get"
    <3>1. Head(M) = Get
      BY <1>4, Tails
    <3>2. Head(M).op = "get"
      BY <3>1, FutureCalls
    <3>. QED
      BY <1>4, <3>2, Dispatch, Tails
  <2>2. Then(Main, << >>) /\ UNCHANGED <<ctx, timer, fut>> /\ fut # "pending"
    BY <2>1 DEF Settle, At
  <2>3. todo' = [todo EXCEPT ![Main] = <<Join(1)>>]
    BY <2>1, <2>2 DEF Then
  <2>4. todo'[Main] = <<Join(1)>> /\ todo'[1] = todo[1]
    BY <1>2, <2>3
  <2>. QED
    BY <2>2, <2>4
<1>5. CASE M = <<Join(1)>>
  <2>1. JoinThread(Main) /\ << >> \o Tail(M) = << >>
    <3>1. Head(M) = Join(1)
      BY <1>5, Tails
    <3>2. Head(M).op = "join"
      BY <3>1, FutureCalls
    <3>. QED
      BY <1>5, <3>2, Dispatch, Tails
  <2>2. Then(Main, << >>) /\ UNCHANGED <<ctx, timer, fut>>
    BY <2>1 DEF JoinThread
  <2>3. todo' = [todo EXCEPT ![Main] = << >>]
    BY <2>1, <2>2 DEF Then
  <2>4. todo'[Main] = << >> /\ todo'[1] = todo[1]
    BY <1>2, <2>3
  <2>. QED
    BY <1>5, <2>2, <2>4
<1>. QED
  BY <1>3, <1>4, <1>5 DEF Ending

\* The thread that runs the handler
LEMMA PromiseMoves ==
  ASSUME GInv, FutureInv, ThreadStep(1)
  PROVE  /\ todo'[Main] = todo[Main]
         /\ \/ /\ Resting /\ Resting' /\ fut' = fut
               /\ \/ ctx'.ready = ctx.ready /\ timer' = timer
                  \/ /\ timer.waiting /\ ~timer'.waiting
                     /\ Len(ctx'.ready) = Len(ctx.ready) + 1
            \/ /\ Resting /\ Setting' /\ fut' = fut /\ timer' = timer
               /\ Len(ctx.ready) >= 1 /\ Len(ctx'.ready) = Len(ctx.ready) - 1
            \/ Setting /\ Resting' /\ ctx' = ctx /\ timer' = timer /\ fut' # "pending"
<1>. DEFINE s == todo[1]
<1>1. /\ todo \in [Thread -> Seq(Calls)] /\ ctx \in Context /\ timer \in Timer
      /\ Main \in Thread /\ 1 \in Thread /\ 1 # Main
  BY DEF GInv, TypeInv, Main, Thread
<1>2. ASSUME NEW u, todo' = [todo EXCEPT ![1] = u] PROVE todo'[Main] = todo[Main] /\ todo'[1] = u
  BY <1>1, <1>2
<1>3. s # << >>
  BY Dispatch
<1>4. CASE s = <<Run>>
  <2>1. TakeHandler(1) \/ ExpireTimer(1) \/ RunReturns(1)
    <3>1. Head(s).op = "run"
      BY <1>4, FutureCalls
    <3>. QED
      BY <3>1, Dispatch
  <2>2. Resting
    BY <1>4 DEF Resting
  <2>3. CASE TakeHandler(1)
    <3>. DEFINE h == Head(ctx.ready)
                r == Tail(ctx.ready)
    <3>1. /\ ctx.ready \in Seq(Handlers) /\ ctx.ready # << >> /\ h = ctx.ready[1]
          /\ Len(ctx.ready) \in Nat \ {0} /\ Len(r) = Len(ctx.ready) - 1
          /\ h \in Handlers
      BY <1>1, <2>3, HeadTailProperties DEF TakeHandler, Context
    <3>2. h.name = "promise" /\ h.ec \in {"ok", "aborted"}
      <4>1. 1 \in 1..Len(ctx.ready)
        BY <3>1
      <4>. QED
        BY <3>1, <4>1 DEF FutureInv, Handlers, Outcome
    <3>3. ctx'.ready = r /\ timer' = timer /\ fut' = fut
      BY <1>1, <2>3 DEF TakeHandler, Context
    <3>4. todo' = [todo EXCEPT ![1] = <<Sets(h.ec), Leave, Run>>]
      <4>1. Body(h) = <<Sets(h.ec)>>
        BY <3>2 DEF Body, Sets
      <4>2. todo' = [todo EXCEPT ![1] = (<<Sets(h.ec)>> \o <<Leave>>) \o <<Run>>]
        BY <1>4, <2>3, <4>1 DEF TakeHandler, First
      <4>. QED
        BY <4>2, Tails
    <3>. HIDE DEF h, r
    <3>5. todo'[Main] = todo[Main] /\ todo'[1] = <<Sets(h.ec), Leave, Run>>
      BY <1>2, <3>4
    <3>6. Setting'
      BY <3>2, <3>5 DEF Setting
    <3>7. Len(ctx.ready) >= 1 /\ Len(ctx'.ready) = Len(ctx.ready) - 1
      BY <3>1, <3>3
    <3>. QED
      BY <2>2, <3>3, <3>5, <3>6, <3>7
  <2>4. CASE ExpireTimer(1)
    <3>1. /\ UNCHANGED <<todo, fut>> /\ timer.waiting /\ ~timer'.waiting
          /\ ctx' = Completed(ctx, timer.handler) /\ timer.handler \in Handlers
      BY <1>1, <2>4 DEF ExpireTimer, Timer
    <3>2. Len(ctx'.ready) = Len(ctx.ready) + 1
      BY <1>1, <3>1, CompletesOne
    <3>. QED
      BY <2>2, <3>1, <3>2 DEF Resting
  <2>5. CASE RunReturns(1)
    <3>1. << >> \o Tail(s) = << >>
      BY <1>4, Tails
    <3>2. todo' = [todo EXCEPT ![1] = << >>]
      BY <2>5, <3>1 DEF RunReturns, Then
    <3>3. ctx'.ready = ctx.ready /\ timer' = timer /\ fut' = fut
      BY <1>1, <2>5 DEF RunReturns, Context
    <3>4. todo'[Main] = todo[Main] /\ todo'[1] = << >>
      BY <1>2, <3>2
    <3>. QED
      BY <2>2, <3>3, <3>4 DEF Resting
  <2>. QED
    BY <2>1, <2>3, <2>4, <2>5
<1>5. CASE s = <<Leave, Run>>
  <2>1. LeaveHandler(1)
    <3>1. Head(s).op = "leave"
      BY <1>5, FutureCalls
    <3>. QED
      BY <3>1, Dispatch
  <2>2. << >> \o Tail(s) = <<Run>>
    BY <1>5, Tails
  <2>3. todo' = [todo EXCEPT ![1] = <<Run>>]
    BY <2>1, <2>2 DEF LeaveHandler, Then
  <2>4. ctx'.ready = ctx.ready /\ timer' = timer /\ fut' = fut
    BY <1>1, <2>1, FinishesOne DEF LeaveHandler
  <2>5. todo'[Main] = todo[Main] /\ todo'[1] = <<Run>>
    BY <1>2, <2>3
  <2>. QED
    BY <1>5, <2>4, <2>5 DEF Resting
<1>6. ASSUME NEW e \in {"ok", "aborted"}, s = <<Sets(e), Leave, Run>>
      PROVE  /\ todo'[Main] = todo[Main]
             /\ Setting /\ Resting' /\ ctx' = ctx /\ timer' = timer /\ fut' # "pending"
  <2>1. Settle(1) /\ Head(s).op = "set"
    <3>1. Head(s) = Sets(e) /\ Sets(e).op = "set"
      BY <1>6, FutureCalls
    <3>. QED
      BY <3>1, Dispatch
  <2>2. << >> \o Tail(s) = <<Leave, Run>>
    BY <1>6, Tails
  <2>3. Then(1, << >>) /\ ctx' = ctx /\ timer' = timer /\ fut' # "pending"
    BY <2>1 DEF Settle, At
  <2>4. todo' = [todo EXCEPT ![1] = <<Leave, Run>>]
    BY <2>2, <2>3 DEF Then
  <2>5. todo'[Main] = todo[Main] /\ todo'[1] = <<Leave, Run>>
    BY <1>2, <2>4
  <2>. QED
    BY <1>6, <2>3, <2>5 DEF Resting, Setting
<1>7. s \in {<<Run>>, <<Leave, Run>>} \/ \E e \in {"ok", "aborted"} : s = <<Sets(e), Leave, Run>>
  BY <1>3 DEF FutureInv, Runs
<1>. QED
  BY <1>4, <1>5, <1>6, <1>7

\* Where the handler is: not there yet, with the timer, in the queue, called, or
\* done with.  The future is settled before the main thread goes on.
OnceInv ==
    /\ \/ /\ Asking /\ ~timer.waiting
          /\ Len(ctx.ready) = 0 /\ Resting /\ fut = "pending"
       \/ /\ Awaiting \/ Ending
          /\ \/ timer.waiting /\ Len(ctx.ready) = 0 /\ Resting /\ fut = "pending"
             \/ ~timer.waiting /\ Len(ctx.ready) = 1 /\ Resting /\ fut = "pending"
             \/ ~timer.waiting /\ Len(ctx.ready) = 0 /\ Setting /\ fut = "pending"
             \/ ~timer.waiting /\ Len(ctx.ready) = 0 /\ Resting /\ fut # "pending"
    /\ todo[Main] \in {<<Join(1)>>, << >>} => fut # "pending"

\* The three times of the main thread, and of the other one
LEMMA Apart ==
  /\ ~(Asking /\ Awaiting) /\ ~(Asking /\ Ending) /\ ~(Awaiting /\ Ending)
  /\ ~(Resting /\ Setting)
<1>. DEFINE M == todo[Main]
<1>1. Asking => M # << >> /\ Head(M).op \in {"expires", "spawn", "async_wait"}
  BY FutureCalls DEF Asking
<1>2. Awaiting => M # << >> /\ Head(M).op \in {"sleep", "asleep", "cancel"}
  <2>1. \A a, b, c, d : Head(<<a, b, c, d>>) = a /\ <<a, b, c, d>> # << >>
    BY Tails
  <2>2. \A a, b, c : Head(<<a, b, c>>) = a /\ <<a, b, c>> # << >>
    BY Tails
  <2>. QED
    BY <2>1, <2>2, FutureCalls DEF Awaiting
<1>3. M = <<Get, Join(1)>> => M # << >> /\ Head(M).op = "get"
  BY FutureCalls, Tails
<1>4. M = <<Join(1)>> => M # << >> /\ Head(M).op = "join"
  BY FutureCalls, Tails
<1>5. Setting => todo[1] # << >> /\ Head(todo[1]).op = "set"
  BY FutureCalls, Tails DEF Setting
<1>6. Resting => todo[1] = << >> \/ Head(todo[1]).op \in {"run", "leave"}
  BY FutureCalls, Tails DEF Resting
<1>. QED
  BY <1>1, <1>2, <1>3, <1>4, <1>5, <1>6 DEF Ending

\* Before get() has returned, the main thread is not at the join().
LEMMA NotYet ==
  ASSUME NEW M,
         \/ M = <<Expires(4), SpawnRunner(1), AsyncWait(Promise), Sleep(2), Cancel, Get, Join(1)>>
         \/ M = <<SpawnRunner(1), AsyncWait(Promise), Sleep(2), Cancel, Get, Join(1)>>
         \/ M = <<AsyncWait(Promise), Sleep(2), Cancel, Get, Join(1)>>
         \/ M = <<Cancel, Get, Join(1)>> \/ M = <<Get, Join(1)>>
         \/ \E c \in Calls : M = <<c, Cancel, Get, Join(1)>>
  PROVE  M \notin {<<Join(1)>>, << >>}
<1>1. /\ \A a, b : Len(<<a, b>>) = 2
      /\ \A a, b, c : Len(<<a, b, c>>) = 3
      /\ \A a, b, c, d : Len(<<a, b, c, d>>) = 4
      /\ \A a, b, c, d, e : Len(<<a, b, c, d, e>>) = 5
      /\ \A a, b, c, d, e, f : Len(<<a, b, c, d, e, f>>) = 6
      /\ \A a, b, c, d, e, f, g : Len(<<a, b, c, d, e, f, g>>) = 7
  OBVIOUS
<1>2. Len(M) \in 2..7
  <2>1. Len(M) \in {2, 3, 4, 5, 6, 7}
    BY <1>1, Zenon
  <2>. QED
    BY <2>1
<1>3. Len(<<Join(1)>>) = 1 /\ Len(<< >>) = 0
  OBVIOUS
<1>. QED
  BY <1>2, <1>3

\* Every step keeps it.
LEMMA OnceStep == ASSUME GInv, FutureInv, OnceInv, [Next]_vars PROVE OnceInv'
<1>1. ctx \in Context /\ Len(ctx.ready) \in Nat
  BY DEF GInv, TypeInv, Context
<1>2. CASE UNCHANGED <<todo, ctx, timer, fut>>
  BY <1>2 DEF OnceInv, Asking, Awaiting, Ending, Resting, Setting
<1>3. Asking' \/ Awaiting' \/ todo'[Main] = <<Get, Join(1)>> => todo'[Main] \notin {<<Join(1)>>, << >>}
  BY NotYet DEF Asking, Awaiting
<1>4. ASSUME ThreadStep(Main) PROVE OnceInv'
  <2>1. ASSUME todo'[1] = todo[1] PROVE Resting' = Resting /\ Setting' = Setting
    BY <2>1 DEF Resting, Setting
  <2>2. CASE Asking
    <3>1. ~timer.waiting /\ Len(ctx.ready) = 0 /\ Resting /\ fut = "pending"
      BY <2>2, Apart DEF OnceInv
    <3>2. ctx'.ready = ctx.ready /\ fut' = fut /\ Resting'
      <4>1. todo'[1] \in {todo[1], <<Run>>}
        BY <1>4, <2>2, AskingMoves
      <4>. QED
        BY <1>4, <2>2, <3>1, <4>1, AskingMoves DEF Resting
    <3>3. \/ Asking' /\ ~timer'.waiting
          \/ Awaiting' /\ timer'.waiting
      BY <1>4, <2>2, <3>1, AskingMoves
    <3>. QED
      BY <1>3, <3>1, <3>2, <3>3 DEF OnceInv
  <2>3. CASE Awaiting
    <3>1. fut' = fut /\ Resting' = Resting /\ Setting' = Setting
      BY <1>4, <2>1, <2>3, AwaitingMoves
    <3>2. \/ Awaiting' /\ ctx' = ctx /\ timer' = timer
          \/ /\ todo'[Main] = <<Get, Join(1)>> /\ ~timer'.waiting
             /\ timer.waiting => Len(ctx'.ready) = Len(ctx.ready) + 1
             /\ ~timer.waiting => ctx'.ready = ctx.ready
      BY <1>4, <2>3, AwaitingMoves
    <3>3. \/ timer.waiting /\ Len(ctx.ready) = 0 /\ Resting /\ fut = "pending"
          \/ ~timer.waiting /\ Len(ctx.ready) = 1 /\ Resting /\ fut = "pending"
          \/ ~timer.waiting /\ Len(ctx.ready) = 0 /\ Setting /\ fut = "pending"
          \/ ~timer.waiting /\ Len(ctx.ready) = 0 /\ Resting /\ fut # "pending"
      BY <2>3, Apart DEF OnceInv
    <3>4. CASE Awaiting' /\ ctx' = ctx /\ timer' = timer
      BY <1>3, <3>1, <3>3, <3>4 DEF OnceInv
    <3>5. CASE /\ todo'[Main] = <<Get, Join(1)>> /\ ~timer'.waiting
               /\ timer.waiting => Len(ctx'.ready) = Len(ctx.ready) + 1
               /\ ~timer.waiting => ctx'.ready = ctx.ready
      <4>1. Ending'
        BY <3>5 DEF Ending
      <4>2. todo'[Main] \notin {<<Join(1)>>, << >>}
        BY <1>3, <3>5
      <4>3. CASE timer.waiting
        <5>1. Len(ctx.ready) = 0 /\ Resting /\ fut = "pending"
          BY <3>3, <4>3, Zenon
        <5>2. Len(ctx'.ready) = 1
          BY <3>5, <4>3, <5>1
        <5>3. Resting' /\ fut' = "pending"
          BY <3>1, <5>1, Zenon
        <5>. QED
          BY <3>5, <4>1, <4>2, <5>2, <5>3 DEF OnceInv
      <4>4. CASE ~timer.waiting
        <5>1. ctx'.ready = ctx.ready
          BY <3>5, <4>4
        <5>. QED
          BY <3>1, <3>3, <3>5, <4>1, <4>2, <4>4, <5>1 DEF OnceInv
      <4>. QED
        BY <4>3, <4>4
    <3>. QED
      BY <3>2, <3>4, <3>5
  <2>4. CASE Ending
    <3>1. UNCHANGED <<ctx, timer, fut>> /\ Resting' = Resting /\ Setting' = Setting
      BY <1>4, <2>1, <2>4, EndingMoves
    <3>2. Ending'
      BY <1>4, <2>4, EndingMoves DEF Ending
    <3>3. fut # "pending"
      BY <1>4, <2>4, EndingMoves DEF OnceInv
    <3>4. /\ ~timer.waiting /\ Len(ctx.ready) = 0 /\ Resting
      BY <2>4, <3>3, Apart DEF OnceInv
    <3>. QED
      BY <3>1, <3>2, <3>3, <3>4 DEF OnceInv
  <2>. QED
    BY <2>2, <2>3, <2>4 DEF OnceInv
<1>5. ASSUME ThreadStep(1) PROVE OnceInv'
  <2>1. /\ todo'[Main] = todo[Main]
        /\ \/ /\ Resting /\ Resting' /\ fut' = fut
              /\ \/ ctx'.ready = ctx.ready /\ timer' = timer
                 \/ /\ timer.waiting /\ ~timer'.waiting
                    /\ Len(ctx'.ready) = Len(ctx.ready) + 1
           \/ /\ Resting /\ Setting' /\ fut' = fut /\ timer' = timer
              /\ Len(ctx.ready) >= 1 /\ Len(ctx'.ready) = Len(ctx.ready) - 1
           \/ Setting /\ Resting' /\ ctx' = ctx /\ timer' = timer /\ fut' # "pending"
    BY <1>5, PromiseMoves
  <2>2. (Asking' <=> Asking) /\ (Awaiting' <=> Awaiting) /\ (Ending' <=> Ending)
    BY <2>1 DEF Asking, Awaiting, Ending
  <2>3. todo'[Main] \in {<<Join(1)>>, << >>} => fut' # "pending"
    BY <2>1 DEF OnceInv
  <2>4. CASE Asking
    <3>1. ~timer.waiting /\ Len(ctx.ready) = 0 /\ Resting /\ fut = "pending"
      BY <2>4, Apart DEF OnceInv
    <3>2. ~timer'.waiting /\ Len(ctx'.ready) = 0 /\ Resting' /\ fut' = "pending"
      BY <2>1, <3>1, Apart
    <3>. QED
      BY <2>2, <2>3, <2>4, <3>2 DEF OnceInv
  <2>5. CASE Awaiting \/ Ending
    <3>1. \/ timer.waiting /\ Len(ctx.ready) = 0 /\ Resting /\ fut = "pending"
          \/ ~timer.waiting /\ Len(ctx.ready) = 1 /\ Resting /\ fut = "pending"
          \/ ~timer.waiting /\ Len(ctx.ready) = 0 /\ Setting /\ fut = "pending"
          \/ ~timer.waiting /\ Len(ctx.ready) = 0 /\ Resting /\ fut # "pending"
      BY <2>5, Apart DEF OnceInv
    <3>2. PICK n \in Nat : n = Len(ctx.ready)
      BY <1>1
    <3>3. CASE Setting
      <4>1. ~timer.waiting /\ n = 0
        BY <3>1, <3>2, <3>3, Apart
      <4>2. Resting' /\ ctx' = ctx /\ timer' = timer /\ fut' # "pending"
        BY <2>1, <3>3, Apart
      <4>. QED
        BY <2>2, <2>3, <2>5, <3>2, <4>1, <4>2 DEF OnceInv
    <3>4. CASE Resting
      <4>1. /\ fut' = fut
            /\ \/ Resting' /\ ctx'.ready = ctx.ready /\ timer' = timer
               \/ /\ Resting' /\ timer.waiting /\ ~timer'.waiting
                  /\ Len(ctx'.ready) = n + 1
               \/ /\ Setting' /\ timer' = timer
                  /\ n >= 1 /\ Len(ctx'.ready) = n - 1
        BY <2>1, <3>2, <3>4, Apart
      <4>2. \/ timer.waiting /\ n = 0 /\ fut = "pending"
            \/ ~timer.waiting /\ n = 1 /\ fut = "pending"
            \/ ~timer.waiting /\ n = 0 /\ fut # "pending"
        BY <3>1, <3>2, <3>4, Apart
      <4>3. CASE Resting' /\ ctx'.ready = ctx.ready /\ timer' = timer
        BY <2>2, <2>3, <2>5, <3>2, <4>1, <4>2, <4>3 DEF OnceInv
      <4>4. CASE Resting' /\ timer.waiting /\ ~timer'.waiting /\ Len(ctx'.ready) = n + 1
        <5>1. Len(ctx'.ready) = 1 /\ fut' = "pending"
          BY <4>1, <4>2, <4>4
        <5>. QED
          BY <2>2, <2>3, <2>5, <4>4, <5>1 DEF OnceInv
      <4>5. CASE Setting' /\ timer' = timer /\ n >= 1 /\ Len(ctx'.ready) = n - 1
        <5>1. Len(ctx'.ready) = 0 /\ ~timer'.waiting /\ fut' = "pending"
          BY <4>1, <4>2, <4>5
        <5>. QED
          BY <2>2, <2>3, <2>5, <4>5, <5>1 DEF OnceInv
      <4>. QED
        BY <4>1, <4>3, <4>4, <4>5
    <3>. QED
      BY <2>1, <3>3, <3>4
  <2>. QED
    BY <2>4, <2>5 DEF OnceInv
<1>6. ASSUME NEW t \in Thread, ThreadStep(t) PROVE OnceInv'
  <2>1. todo[t] # << >>
    BY <1>6, Dispatch
  <2>2. t = Main \/ t = 1
    BY <2>1 DEF FutureInv, Runs
  <2>. QED
    BY <1>4, <1>5, <1>6, <2>2
<1>. QED
  BY <1>2, <1>6 DEF Next, Tick, vars

\* It holds at the start.
LEMMA OnceInit == ASSUME Init, prog = Future PROVE OnceInv
<1>1. /\ todo[Main] = <<Expires(4), SpawnRunner(1), AsyncWait(Promise), Sleep(2), Cancel, Get, Join(1)>>
      /\ \A t \in Thread : t # Main => todo[t] = << >>
      /\ 1 \in Thread /\ 1 # Main
  BY DEF Init, Main, Thread, Program, Future_Exception_Handling, SpawnRunner, Promise, Cancel, Get, Future
<1>2. ctx.ready = << >> /\ fut = "pending" /\ timer.waiting = FALSE
  BY DEF Init
<1>3. Asking /\ Resting
  BY <1>1 DEF Asking, Resting
<1>4. Len(ctx.ready) = 0
  BY <1>2
<1>5. todo[Main] \notin {<<Join(1)>>, << >>}
  BY <1>1, NotYet
<1>. QED
  BY <1>2, <1>3, <1>4, <1>5 DEF OnceInv

\* At the end the handler has been called.
LEMMA OnceEnd == ASSUME GInv, OnceInv, Ended PROVE ctx.ready = << >>
<1>1. fut # "pending"
  BY DEF OnceInv, Ended
<1>2. Len(ctx.ready) = 0
  BY <1>1 DEF OnceInv
<1>. QED
  BY <1>2 DEF GInv, TypeInv, Context

\* The programs that wait for one timer never touch the strand.
LEMMA StrandStays == ASSUME BInv, [Next]_vars PROVE strand' = strand
<1>1. ASSUME NEW t \in Thread, ThreadStep(t) PROVE strand' = strand
  <2>1. todo[t] # << >>
    BY <1>1, Dispatch
  <2>2. t = Main
    BY <2>1 DEF BInv, Alone, Main, Thread
  <2>3. todo[Main] \in {<<Guard, Expires(1), AsyncWait(Expired), Run>>,
                        <<Expires(1), AsyncWait(Expired), Run>>, <<AsyncWait(Expired), Run>>,
                        <<Run>>, <<ResetGuard, Leave, Run>>, <<Leave, Run>>}
    BY <2>1, <2>2, Zenon DEF BInv
  <2>4. Head(todo[Main]) \in {Guard, Expires(1), AsyncWait(Expired), Run, ResetGuard, Leave}
    BY <2>3
  <2>5. ~At(t, "strand") /\ ~At(t, "turn") /\ ~At(t, "leave_strand")
    BY <2>2, <2>4 DEF At, Guard, Expires, AsyncWait, Run, ResetGuard, Leave, Call
  <2>6. CASE \/ SpawnThread(t) \/ JoinThread(t) \/ FallAsleep(t) \/ WakeUp(t) \/ LockMutex(t) \/ MakeGuard(t)
             \/ GuardReset(t) \/ StopContext(t) \/ PostHandler(t) \/ SetExpiry(t) \/ StartWait(t)
    BY <2>6 DEF SpawnThread, JoinThread, FallAsleep, WakeUp, LockMutex, MakeGuard, GuardReset, StopContext,
                PostHandler, SetExpiry, StartWait
  <2>7. CASE \/ CountMessage(t) \/ CancelTimer(t) \/ Settle(t) \/ TakeHandler(t) \/ LeaveHandler(t)
             \/ ExpireTimer(t) \/ RunReturns(t)
    BY <2>7 DEF CountMessage, CancelTimer, Settle, TakeHandler, LeaveHandler, ExpireTimer, RunReturns
  <2>. QED
    BY <1>1, <2>5, <2>6, <2>7 DEF ThreadStep, PostToStrand, TakeTurn, EndTurn, LeaveStrand
<1>. QED
  BY <1>1 DEF Next, Tick, vars

\* What the end of every program follows from
LeftInv ==
    /\ ThreadsInv
    /\ now \in Int /\ now >= 0
    /\ Steady => SteadyInv
    /\ prog = "Strand_Example" => StrandInv /\ Unstarted /\ TurnPending
    /\ prog = Future => FutureInv /\ OnceInv
    /\ prog \in Backgrounds => strand = Free

\* It holds when a program starts.
LEMMA LeftInit == Init => LeftInv
<1>1. SUFFICES ASSUME Init PROVE LeftInv
  OBVIOUS
<1>2. now \in Int /\ now >= 0 /\ strand = Free
  BY <1>1 DEF Init, Free
<1>3. prog = "Strand_Example" => StrandInv /\ Unstarted /\ TurnPending
  BY <1>1, <1>2, StrandInit, SizeAssumption DEF TurnPending, Free
<1>4. prog = Future => FutureInv /\ OnceInv
  BY <1>1, FutureInit, OnceInit DEF Future
<1>. QED
  BY <1>1, <1>2, <1>3, <1>4, ThreadsInit, SteadyInit DEF LeftInv

\* Every step keeps it.
LEMMA LeftStep == LeftInv /\ [Next]_vars => LeftInv'
<1>1. SUFFICES ASSUME LeftInv, [Next]_vars PROVE LeftInv'
  OBVIOUS
<1>2. prog' = prog
  BY <1>1 DEF Next, Tick, ThreadStep, vars
<1>3. ThreadsInv' /\ now' \in Int /\ now' >= 0
  BY <1>1, ThreadsStep, NowStep DEF LeftInv
<1>4. Common => GInv /\ OInv
  BY <1>1 DEF LeftInv, ThreadsInv, GuardInductive, Common
<1>5. Steady' => SteadyInv'
  BY <1>1, <1>2, <1>4, SteadyStep DEF LeftInv, Steady, Common
<1>6. prog' = "Strand_Example" => StrandInv' /\ Unstarted' /\ TurnPending'
  <2>1. prog = "Strand_Example" => Common
    BY DEF Common, Backgrounds, Detachers
  <2>. QED
    BY <1>1, <1>2, <1>4, <2>1, PendingStep DEF LeftInv
<1>7. prog' = Future => FutureInv' /\ OnceInv'
  <2>1. prog = Future => Common
    BY DEF Common, Backgrounds, Detachers, Future
  <2>. QED
    BY <1>1, <1>2, <1>4, <2>1, FutureStep, OnceStep DEF LeftInv, Future
<1>8. prog' \in Backgrounds => strand' = Free
  BY <1>1, <1>2, StrandStays DEF LeftInv, ThreadsInv, GuardInductive
<1>. QED
  BY <1>3, <1>5, <1>6, <1>7, <1>8 DEF LeftInv

\* Every handler given to the io_context or to its strand is invoked before the
\* program ends, but for what the threads of runBackgroundTask post after the
\* guard was reset (BackgroundTasks.cpp:58): no run() ends before the handlers
\* that its work guard, or the work itself, keeps it waiting for.
THEOREM NothingForgottenAlways == Spec => []NothingForgotten
<1>1. LeftInv => NothingForgotten
  <2>1. SUFFICES ASSUME LeftInv, Ended
                 PROVE  /\ \A k \in DOMAIN ctx.ready : ~ctx.ready[k].guarded
                        /\ prog # "runBackgroundTask" => ctx.ready = << >>
                        /\ strand.turn = << >> /\ strand.next = << >>
    BY DEF NothingForgotten
  <2>. DEFINE Left == /\ \A k \in DOMAIN ctx.ready : ~ctx.ready[k].guarded
                      /\ prog # "runBackgroundTask" => ctx.ready = << >>
              Off  == strand.turn = << >> /\ strand.next = << >>
  <2>2. strand = Free => Off
    BY DEF Free
  <2>3. ctx.ready = << >> => Left
    OBVIOUS
  <2>4. ASSUME Common PROVE Left /\ Off
    <3>1. GInv /\ OInv /\ ctx \in Context
      BY <2>1, <2>4 DEF LeftInv, ThreadsInv, GuardInductive, Common, GInv, TypeInv
    <3>2. Left
      <4>1. CASE prog = Future
        BY <2>1, <2>3, <3>1, <4>1, OnceEnd DEF LeftInv
      <4>2. CASE prog # Future
        <5>1. Unpromised(ctx.ready) /\ (prog # "runBackgroundTask" => ctx.ready = << >>)
          BY <2>1, <2>4, <3>1, <4>2, SteadyEnd DEF LeftInv, Steady
        <5>2. DOMAIN ctx.ready = 1..Len(ctx.ready)
          BY <3>1 DEF Context
        <5>. QED
          BY <5>1, <5>2 DEF Unpromised
      <4>. QED
        BY <4>1, <4>2
    <3>3. Off
      <4>1. CASE prog = "Strand_Example"
        <5>1. ctx.ready = << >>
          BY <3>2, <4>1
        <5>. QED
          BY <2>1, <3>1, <4>1, <5>1, StrandEnd DEF LeftInv
      <4>2. CASE prog # "Strand_Example"
        BY <2>2, <3>1, <4>2 DEF OInv, HandlersInv
      <4>. QED
        BY <4>1, <4>2
    <3>. QED
      BY <3>2, <3>3
  <2>5. ASSUME prog \in Detachers PROVE Left /\ Off
    <3>1. ctx.ready = << >> /\ strand = Free
      BY <2>1, <2>5, DetachEnd DEF LeftInv, ThreadsInv, DetachInv
    <3>. QED
      BY <2>2, <2>3, <3>1
  <2>6. ASSUME prog \in Backgrounds PROVE Left /\ Off
    <3>1. BInv /\ strand = Free
      BY <2>1, <2>6 DEF LeftInv, ThreadsInv, GuardInductive
    <3>2. ctx.ready = << >>
      <4>1. todo[Main] = << >>
        BY <2>1 DEF Ended
      <4>2. todo[Main] \notin {<<Guard, Expires(1), AsyncWait(Expired), Run>>,
                        <<Expires(1), AsyncWait(Expired), Run>>, <<AsyncWait(Expired), Run>>,
                        <<Run>>, <<ResetGuard, Leave, Run>>}
        BY <4>1
      <4>. QED
        BY <3>1, <4>2, Zenon DEF BInv
    <3>. QED
      BY <2>2, <2>3, <3>1, <3>2
  <2>. QED
    BY <2>4, <2>5, <2>6 DEF Common
<1>. QED
  BY <1>1, LeftInit, LeftStep, PTL DEF Spec

====
