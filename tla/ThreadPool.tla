----------------------------- MODULE ThreadPool -----------------------------
(***************************************************************************)
(* The thread pool of the extensions (extension/threadpool) and            *)
(* parallel_for() on top of it (extension/parallel).                       *)
(*                                                                         *)
(* Application threads call parallel_for() the way the attention kernel    *)
(* does, which first sizes a buffer with one slot per thread of the pool.  *)
(* The pthreadpool that run() drives is external: its threads and the      *)
(* caller take the items of a job in any order.  Any thread may replace    *)
(* the pool with one of another size, and the process may fork once, after *)
(* which the model follows the child.  Threads are numbers; thread t works *)
(* for a pool of more than t threads.                                      *)
(***************************************************************************)
EXTENDS Integers, FiniteSets

CONSTANTS
  Apps,      \* application threads
  Workers,   \* threads that pthreadpools start
  Counts,    \* sizes that _unsafe_reset_threadpool() is called with
  Default,   \* number of processors, the size of the first pool
  Ranges,    \* arguments of parallel_for(): records [begin, end, grain]
  Inner,     \* what a task may call: "none", "run", "parallel_for"
  MaxPools   \* bound on the pthreadpools created

NoOne == 0

ASSUME PoolAssumption ==
  /\ Apps \subseteq Int /\ IsFiniteSet(Apps)
  /\ Workers \subseteq Nat \ {0} /\ Apps \cap (Workers \cup {NoOne}) = {}
  /\ Counts \subseteq Nat /\ Default \in Nat \ {0} /\ MaxPools \in Nat \ {0}
  /\ Ranges \subseteq [begin : Int, end : Int, grain : Int]
  /\ Inner \subseteq {"none", "run", "parallel_for"} /\ Inner # {}

VARIABLES
  pc,        \* where each application thread is in its call
  call,      \* the local variables of its call
  task,      \* what each thread is running: [of, id, inner, prev], or NoTask
  guard,     \* NoThreadPoolGuard_enabled of each thread
  mutex,     \* owner of ThreadPool::mutex_
  pool,      \* the pthreadpool that threadpool_ owns
  count,     \* size of each pthreadpool
  alive,     \* pthreadpools whose threads exist
  leak,      \* leak_corrupted_threadpool
  orphaned   \* history: mutex_ was locked by another thread at the fork

pools == <<pool, count, alive, leak, orphaned>>
vars == <<pc, call, task, guard, mutex, pools>>

Threads == Apps \cup Workers
NoTask == [of |-> NoOne, id |-> 0, inner |-> "none", prev |-> FALSE]
Items(r) == r.begin .. r.end - 1

\* range: arguments of parallel_for(), or 0 to the size for a reset; slots: the
\* thread count read before, to size a buffer; num, size: number and size of the
\* tasks; on: the pthreadpool in use; todo: tasks that no thread has taken yet;
\* done: how often each work item was processed; resized: history, the pool was
\* resized since the slots were counted.
NoCall == [range |-> [begin |-> 0, end |-> 0, grain |-> 1], slots |-> 0, num |-> 0, size |-> 0,
           on |-> 1, todo |-> {}, done |-> [i \in {} |-> 0], resized |-> FALSE]

Init ==
  /\ pc = [a \in Apps |-> "idle"]
  /\ call = [a \in Apps |-> NoCall]
  /\ task = [t \in Threads |-> NoTask]
  /\ guard = [t \in Threads |-> FALSE]
  /\ mutex = NoOne
  /\ pool = 1 /\ count = [p \in 1 .. MaxPools |-> Default] /\ alive = {1}
  /\ leak = FALSE /\ orphaned = FALSE

Goto(a, l) == pc' = [pc EXCEPT ![a] = l]

-----------------------------------------------------------------------------
(* The pool *)

\* calc_num_tasks_and_chunk_size() asks for the thread count.
Counted(r) == r.end - r.begin >= r.grain

\* A thread is about to call get_threadpool().
Wants(a) == pc[a] \in {"size", "run", "reset"} \/ (pc[a] = "calc" /\ Counted(call[a].range))

\* get_threadpool() in a child process: the pool of the parent is abandoned and
\* one of the same size takes its place.  Its size is asked for under its mutex.
GetThreadpool(a) ==
  /\ leak /\ Wants(a) /\ mutex = NoOne
  /\ leak' = FALSE
  /\ pool' = pool + 1
  /\ count' = [count EXCEPT ![pool + 1] = count[pool]]
  /\ alive' = alive \cup {pool + 1}
  /\ UNCHANGED <<pc, call, task, guard, mutex, orphaned>>

\* get_thread_count() can lock mutex_ and read.
CanCount == ~leak /\ mutex = NoOne

\* The application sets a NoThreadPoolGuard, or not, and starts a call.
Call(a) ==
  /\ pc[a] = "idle"
  /\ \E r \in Ranges, g \in BOOLEAN :
       /\ call' = [call EXCEPT ![a].range = r, ![a].done = [i \in Items(r) |-> 0]]
       /\ guard' = [guard EXCEPT ![a] = g]
  /\ Goto(a, "size")
  /\ UNCHANGED <<task, mutex, pools>>

\* The caller sizes a buffer with one slot per thread, then calls parallel_for().
CountSlots(a) ==
  /\ pc[a] = "size" /\ CanCount
  /\ call' = [call EXCEPT ![a].slots = count[pool]]
  /\ Goto(a, "calc")
  /\ UNCHANGED <<task, guard, mutex, pools>>

\* _unsafe_reset_threadpool() is called ...
Reset(a) ==
  /\ pc[a] = "idle"
  /\ pool + Cardinality({b \in Apps : pc[b] \in {"reset", "replace"}}) + (IF leak THEN 1 ELSE 0)
       < MaxPools
  /\ \E n \in Counts : call' = [call EXCEPT ![a].range.end = n]
  /\ Goto(a, "reset")
  /\ UNCHANGED <<task, guard, mutex, pools>>

\* ... compares the sizes under the mutex ...
CompareCount(a) ==
  /\ pc[a] = "reset" /\ CanCount
  /\ Goto(a, IF call[a].range.end \in {count[pool], 0} THEN "returned" ELSE "replace")
  /\ UNCHANGED <<call, task, guard, mutex, pools>>

\* Mutant: the pool is replaced without the mutex.
ReplaceUnlocked(a) ==
  /\ pc[a] = "replace"
  /\ pool' = pool + 1
  /\ count' = [count EXCEPT ![pool + 1] = call[a].range.end]
  /\ alive' = (alive \ {pool}) \cup {pool + 1}
  /\ call' = [b \in Apps |-> [call[b] EXCEPT !.resized = (call[b].slots > 0)]]
  /\ Goto(a, "returned")
  /\ UNCHANGED <<task, guard, mutex, leak, orphaned>>

\* ... and replaces the pool under the mutex, which destroys the old one.
Replace(a) ==
  /\ pc[a] = "replace" /\ mutex = NoOne
  /\ pool' = pool + 1
  /\ count' = [count EXCEPT ![pool + 1] = call[a].range.end]
  /\ alive' = (alive \ {pool}) \cup {pool + 1}
  /\ call' = [b \in Apps |-> [call[b] EXCEPT !.resized = (call[b].slots > 0)]]
  /\ Goto(a, "returned")
  /\ UNCHANGED <<task, guard, mutex, leak, orphaned>>

\* fork() by a thread that is in no call: the other threads do not exist in the
\* child, whose mutexes and memory are those of the parent (child_atfork()).
Fork(a) ==
  /\ pc[a] = "idle" /\ ~leak /\ pool < MaxPools /\ \A b \in Apps : pc[b] # "gone"
  /\ pc' = [b \in Apps |-> IF b = a THEN "idle" ELSE "gone"]
  /\ call' = [b \in Apps |-> NoCall]
  /\ task' = [t \in Threads |-> NoTask]
  /\ guard' = [t \in Threads |-> FALSE]
  /\ alive' = {} /\ leak' = TRUE /\ orphaned' = (mutex # NoOne)
  /\ UNCHANGED <<mutex, pool, count>>

-----------------------------------------------------------------------------
(* parallel_for() and run() *)

divup(x, y) == (x + y - 1) \div y
Larger(x, y) == IF x > y THEN x ELSE y
Smaller(x, y) == IF x < y THEN x ELSE y

\* Mutant: one more task than there are chunks.
calc_one_more_task(r, threads) ==
  IF ~Counted(r) THEN <<1, Larger(0, r.end - r.begin)>>
  ELSE LET chunk_size == Larger(r.grain, divup(r.end - r.begin, threads))
       IN <<(r.end - r.begin) \div chunk_size + 1, chunk_size>>


calc_num_tasks_and_chunk_size(r, threads) ==
  IF ~Counted(r) THEN <<1, Larger(0, r.end - r.begin)>>
  ELSE LET chunk_size == Larger(r.grain, divup(r.end - r.begin, threads))
       IN <<divup(r.end - r.begin, chunk_size), chunk_size>>

\* parallel_for() returns false when a check fails.
Refuse(a) ==
  /\ pc[a] = "calc"
  /\ LET r == call[a].range IN ~(r.begin >= 0 /\ r.end >= r.begin /\ r.grain > 0)
  /\ Goto(a, "refused")
  /\ UNCHANGED <<call, task, guard, mutex, pools>>

CalcTasks(a) ==
  /\ pc[a] = "calc"
  /\ LET r == call[a].range
         tasks == calc_num_tasks_and_chunk_size(r, count[pool])
     IN /\ r.begin >= 0 /\ r.end >= r.begin /\ r.grain > 0
        /\ Counted(r) => CanCount
        /\ call' = [call EXCEPT ![a].num = tasks[1], ![a].size = tasks[2]]
  /\ Goto(a, "run")
  /\ UNCHANGED <<task, guard, mutex, pools>>

\* run() under a guard: the items one after the other, on this thread.
RunSerially(a) ==
  /\ pc[a] = "run" /\ ~leak /\ guard[a]
  /\ call' = [call EXCEPT ![a].todo = 0 .. call[a].num - 1]
  /\ Goto(a, "serial")
  /\ UNCHANGED <<task, guard, mutex, pools>>

\* run() without one: pthreadpool_parallelize_1d() with the mutex locked.
RunInPool(a) ==
  /\ pc[a] = "run" /\ ~leak /\ ~guard[a] /\ mutex = NoOne
  /\ mutex' = a
  /\ call' = [call EXCEPT ![a].on = pool, ![a].todo = 0 .. call[a].num - 1]
  /\ Goto(a, "parallel")
  /\ UNCHANGED <<task, guard, pools>>

\* Mutant: the tasks of the pool run without a guard.
StartTaskUnguarded(t, a, i) ==
  /\ task[t] = NoTask
  /\ call' = [call EXCEPT ![a].todo = @ \ {i}]
  /\ \E k \in Inner : task' = [task EXCEPT ![t] = [of |-> a, id |-> i, inner |-> k, prev |-> guard[t]]]
  /\ UNCHANGED <<pc, guard, mutex, pools>>

\* Thread t starts task i of a's call, inside of a guard.  The task's id becomes
\* the thread's number, its slot of the buffer.
StartTask(t, a, i) ==
  /\ task[t] = NoTask
  /\ call' = [call EXCEPT ![a].todo = @ \ {i}]
  /\ \E k \in Inner : task' = [task EXCEPT ![t] = [of |-> a, id |-> i, inner |-> k, prev |-> guard[t]]]
  /\ guard' = [guard EXCEPT ![t] = TRUE]
  /\ UNCHANGED <<pc, mutex, pools>>

NextItem(a) ==
  /\ pc[a] = "serial"
  /\ \E i \in call[a].todo : (\A j \in call[a].todo : i <= j) /\ StartTask(a, a, i)

\* pthreadpool: the caller and the threads of the pool take items in any order.
TakeItem(t) ==
  \E a \in Apps : \E i \in call[a].todo :
    /\ pc[a] = "parallel"
    /\ t = a \/ (t \in Workers /\ t < count[call[a].on] /\ call[a].on \in alive)
    /\ StartTask(t, a, i)

\* A task may use the pool itself: run() is serial inside of a guard, and
\* parallel_for() asks for the thread count first.
InnerCallReturns(t) ==
  CASE task[t].inner = "none" -> TRUE
    [] task[t].inner = "run" -> guard[t] \/ mutex = NoOne
    [] task[t].inner = "parallel_for" -> mutex = NoOne

\* Mutant: the chunks are counted from 0 and not from begin.
FinishTaskFromZero(t) ==
  /\ task[t] # NoTask /\ InnerCallReturns(t)
  /\ LET a == task[t].of
         start == task[t].id * call[a].size
         chunk == start .. Smaller(call[a].range.end, start + call[a].size) - 1
     IN call' = [call EXCEPT ![a].done =
                   [i \in DOMAIN @ |-> IF i \in chunk THEN @[i] + 1 ELSE @[i]]]
  /\ task' = [task EXCEPT ![t] = NoTask]
  /\ guard' = [guard EXCEPT ![t] = task[t].prev]
  /\ UNCHANGED <<pc, mutex, pools>>

\* The task processes its chunk and the guard is taken back.
FinishTask(t) ==
  /\ task[t] # NoTask /\ InnerCallReturns(t)
  /\ LET a == task[t].of
         start == call[a].range.begin + task[t].id * call[a].size
         chunk == start .. Smaller(call[a].range.end, start + call[a].size) - 1
     IN call' = [call EXCEPT ![a].done =
                   [i \in DOMAIN @ |-> IF i \in chunk THEN @[i] + 1 ELSE @[i]]]
  /\ task' = [task EXCEPT ![t] = NoTask]
  /\ guard' = [guard EXCEPT ![t] = task[t].prev]
  /\ UNCHANGED <<pc, mutex, pools>>

\* run() returns when all items are processed, and parallel_for() returns true.
RunReturns(a) ==
  /\ pc[a] \in {"serial", "parallel"}
  /\ call[a].todo = {} /\ \A t \in Threads : task[t].of # a
  /\ mutex' = IF pc[a] = "parallel" THEN NoOne ELSE mutex
  /\ Goto(a, "returned")
  /\ UNCHANGED <<call, task, guard, pools>>

\* The caller's guard ends with its scope.
Leave(a) ==
  /\ pc[a] \in {"returned", "refused"}
  /\ guard' = [guard EXCEPT ![a] = FALSE]
  /\ call' = [call EXCEPT ![a] = NoCall]
  /\ Goto(a, "idle")
  /\ UNCHANGED <<task, mutex, pools>>

AppStep(a) ==
  \/ GetThreadpool(a) \/ CountSlots(a) \/ CompareCount(a) \/ Replace(a)
  \/ Refuse(a) \/ CalcTasks(a) \/ RunSerially(a) \/ RunInPool(a) \/ NextItem(a)
  \/ RunReturns(a) \/ Leave(a)

TaskStep(t) == TakeItem(t) \/ FinishTask(t)

Next ==
  \/ \E a \in Apps : Call(a) \/ Reset(a) \/ Fork(a) \/ AppStep(a)
  \/ \E t \in Threads : TaskStep(t)

\* Threads that can run do run; nothing is assumed about who gets the mutex.
Spec ==
  /\ Init /\ [][Next]_vars
  /\ \A a \in Apps : WF_vars(AppStep(a))
  /\ \A t \in Threads : WF_vars(TaskStep(t))

-----------------------------------------------------------------------------
(* Properties *)

\* Every variable has its type.
TypeOK ==
  /\ pc \in [Apps -> {"idle", "size", "calc", "run", "serial", "parallel", "reset", "replace",
                      "returned", "refused", "gone"}]
  /\ DOMAIN call = Apps
  /\ \A a \in Apps :
       /\ DOMAIN call[a] = DOMAIN NoCall
       /\ call[a].range \in [begin : Int, end : Int, grain : Int]
       /\ call[a].slots \in Nat /\ call[a].num \in Int /\ call[a].size \in Int
       /\ call[a].on \in 1 .. MaxPools /\ call[a].todo \subseteq Nat /\ call[a].resized \in BOOLEAN
       /\ \A i \in DOMAIN call[a].done : call[a].done[i] \in Nat
  /\ task \in [Threads -> [of : Apps \cup {NoOne}, id : Nat, inner : Inner \cup {"none"}, prev : BOOLEAN]]
  /\ guard \in [Threads -> BOOLEAN] /\ mutex \in Apps \cup {NoOne}
  /\ pool \in 1 .. MaxPools /\ count \in [1 .. MaxPools -> Nat \ {0}] /\ alive \subseteq 1 .. MaxPools
  /\ leak \in BOOLEAN /\ orphaned \in BOOLEAN

\* When parallel_for() returns true each work item was processed exactly once,
\* whatever happened to the pool between the count and the run.
ProcessedOnce ==
  \A a \in Apps : pc[a] = "returned" =>
    \A i \in DOMAIN call[a].done : call[a].done[i] = 1

\* Calls of run() without a guard are serialized, each on a pool whose threads
\* exist: neither a reset nor a fork leaves it one that is gone.
SerializedOnLivePool ==
  \A a \in Apps : pc[a] = "parallel" =>
    /\ call[a].on = pool /\ pool \in alive
    /\ \A b \in Apps : pc[b] = "parallel" => b = a

\* Tasks that run at the same time have different thread numbers, each of them
\* a slot of the buffer that the caller sized before, unless the pool was resized
\* in between.
OwnSlot ==
  \A t \in Threads : task[t] # NoTask =>
    /\ \A u \in Threads : u # t /\ task[u].of = task[t].of => task[u].id # task[t].id
    /\ ~call[task[t].of].resized => task[t].id < call[task[t].of].slots

\* While threads are in calls, calls keep returning: tasks that use the pool do
\* not block it.  After a fork this needs that mutex_ was free.
CallsReturn ==
  (\E a \in Apps : pc[a] \notin {"idle", "gone"}) ~>
    ((\E a \in Apps : pc[a] \in {"returned", "refused"})
       \/ (\A a \in Apps : pc[a] \in {"idle", "gone"}) \/ orphaned)
=============================================================================
