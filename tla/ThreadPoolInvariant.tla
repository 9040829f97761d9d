------------------------- MODULE ThreadPoolInvariant -------------------------
(***************************************************************************)
(* The inductive invariant of ThreadPool, how a range is divided into      *)
(* chunks, and the parts of the invariant that are about one call at a     *)
(* time: types, the mutex and the pool, slots.                             *)
(***************************************************************************)
EXTENDS ThreadPool, FiniteSetTheorems, TLAPS

-----------------------------------------------------------------------------
(* The inductive invariant *)

Labels == {"idle", "size", "calc", "run", "serial", "parallel", "reset", "replace",
           "returned", "refused", "gone"}
RangeType == [begin : Int, end : Int, grain : Int]
Tallies == UNION {[S -> Nat] : S \in SUBSET Int}
CallType == [range : RangeType, slots : Nat, num : Int, size : Int, on : 1 .. MaxPools,
             todo : SUBSET Nat, done : Tallies, resized : BOOLEAN]
TaskType == [of : Apps \cup {NoOne}, id : Nat, inner : Inner \cup {"none"}, prev : BOOLEAN]

Typed ==
  /\ pc \in [Apps -> Labels]
  /\ call \in [Apps -> CallType]
  /\ task \in [Threads -> TaskType]
  /\ guard \in [Threads -> BOOLEAN]
  /\ mutex \in Apps \cup {NoOne}
  /\ pool \in 1 .. MaxPools /\ count \in [1 .. MaxPools -> Nat \ {0}] /\ alive \subseteq 1 .. MaxPools
  /\ leak \in BOOLEAN /\ orphaned \in BOOLEAN

Active == {"serial", "parallel"}
Counting == {"calc", "run"} \cup Active   \* the slots are counted

Chunk(c, j) ==
  LET start == c.range.begin + j * c.size
  IN start .. Smaller(c.range.end, start + c.size) - 1

\* Thread t runs a task of a's call.
Works(t, a) == task[t].of = a
Pending(a, j) == j \in call[a].todo \/ \E t \in Threads : Works(t, a) /\ task[t].id = j

\* The mutex is held while the pool runs, on the pool that is current, and the
\* threads that are past the thread count have one; the pools still to be
\* created fit the bound.
Resetting == {a \in Apps : pc[a] \in {"reset", "replace"}}
PoolInv ==
  /\ \A a \in Apps : pc[a] = "parallel" => mutex = a /\ call[a].on = pool
  /\ \A a \in Apps : pc[a] \in Counting \cup {"replace"} => ~leak
  /\ ~leak => pool \in alive
  /\ pool + Cardinality(Resetting) + (IF leak THEN 1 ELSE 0) <= MaxPools
  /\ \A a \in Apps : pc[a] = "reset" => call[a].range.end \in Nat
  /\ \A a \in Apps : pc[a] = "replace" => call[a].range.end \in Nat \ {0}

\* The slots that are counted are those of the pool, until it is resized.
SlotInv ==
  \A a \in Apps :
    /\ pc[a] \notin Counting \cup {"returned", "refused"} => call[a].slots = 0 /\ ~call[a].resized
    /\ pc[a] \in Counting => call[a].slots > 0
    /\ pc[a] \in Counting /\ ~call[a].resized => call[a].slots = count[pool]
    /\ pc[a] \in Counting \ {"calc"} /\ ~call[a].resized => call[a].num <= call[a].slots

\* A task belongs to a call that runs, and has a number of its own, which no
\* other thread has or can still take.
TaskInv ==
  /\ \A t \in Threads : task[t] # NoTask => task[t].of \in Apps
  /\ \A a \in Apps : call[a].todo \subseteq 0 .. call[a].num - 1
  /\ \A a \in Apps : pc[a] \notin Active => call[a].todo = {}
  /\ \A t \in Threads, a \in Apps : Works(t, a) =>
       /\ pc[a] \in Active
       /\ task[t].id \in 0 .. call[a].num - 1 /\ task[t].id \notin call[a].todo
       /\ \A u \in Threads : u # t /\ Works(u, a) => task[u].id # task[t].id

\* The chunks cover the range and are disjoint.
Tiles(c) ==
  /\ \A i \in Items(c.range) : \E j \in 0 .. c.num - 1 : i \in Chunk(c, j)
  /\ \A j, k \in 0 .. c.num - 1 : j # k => Chunk(c, j) \cap Chunk(c, k) = {}

\* What was processed is what no task is still to process.
DoneAt(a) ==
  /\ pc[a] \in {"idle", "reset", "replace", "gone"} => DOMAIN call[a].done = {}
  /\ pc[a] \in {"size", "calc", "run"} \cup Active => DOMAIN call[a].done = Items(call[a].range)
  /\ pc[a] \in {"size", "calc", "run"} => \A i \in DOMAIN call[a].done : call[a].done[i] = 0
  /\ pc[a] \in {"run"} \cup Active => Tiles(call[a])
  /\ pc[a] \in Active => \A i \in DOMAIN call[a].done : \A j \in 0 .. call[a].num - 1 :
       i \in Chunk(call[a], j) => call[a].done[i] = (IF Pending(a, j) THEN 0 ELSE 1)
  /\ pc[a] = "returned" => \A i \in DOMAIN call[a].done : call[a].done[i] = 1

DoneInv == \A a \in Apps : DoneAt(a)

IInv == Typed /\ PoolInv /\ SlotInv /\ TaskInv /\ DoneInv

-----------------------------------------------------------------------------
(* Chunks *)

\* Integer division.
LEMMA Quotient ==
  ASSUME NEW x \in Nat, NEW y \in Nat \ {0}
  PROVE  x \div y \in Nat /\ (x \div y) * y <= x /\ x < (x \div y) * y + y
BY SMTT(60)

\* divup() rounds up.
LEMMA DivUp ==
  ASSUME NEW x \in Nat, NEW y \in Nat \ {0}
  PROVE  /\ divup(x, y) \in Nat
         /\ divup(x, y) * y >= x
         /\ divup(x, y) * y < x + y
<1> DEFINE q == (x + y - 1) \div y
<1>1. q \in Nat /\ q * y <= x + y - 1 /\ x + y - 1 < q * y + y
  <2>1. x + y - 1 \in Nat BY SMT
  <2> QED BY <2>1, Quotient, Zenon
<1>2. q * y \in Nat
  BY <1>1, SMT
<1> HIDE DEF q
<1>3. q * y >= x /\ q * y < x + y
  BY <1>1, <1>2, SMT
<1> QED BY <1>1, <1>3, Zenon DEF divup, q

\* Multiplication by a size keeps the order of chunk numbers, with room for a chunk.
LEMMA LessTimes ==
  ASSUME NEW x \in Int, NEW y \in Int, NEW z \in Nat, x < y
  PROVE  x * z + z <= y * z
<1> DEFINE d == y - (x + 1)
<1>1. d \in Nat /\ y = x + 1 + d
  BY SMT
<1>2. d * z \in Nat
  BY <1>1, SMT
<1>3. y * z = x * z + z + d * z
  BY <1>1, SMT
<1> QED BY <1>2, <1>3, SMT

\* ... and reflects it.
LEMMA TimesLess ==
  ASSUME NEW x \in Int, NEW y \in Int, NEW z \in Nat, x * z < y * z
  PROVE  x < y
<1>1. ASSUME y <= x PROVE FALSE
  <2>1. CASE y = x BY <2>1, SMT
  <2>2. CASE y < x
    <3>1. y * z + z <= x * z BY <2>2, LessTimes, Zenon
    <3>2. x * z \in Int /\ y * z \in Int BY SMT
    <3> QED BY <3>1, <3>2, SMT
  <2> QED BY <1>1, <2>1, <2>2, SMT
<1> QED BY <1>1, SMT

\* The number of tasks and the size of a chunk tile the range, and there are no
\* more tasks than threads.
LEMMA CalcTiles ==
  ASSUME NEW r \in RangeType, NEW threads \in Nat \ {0},
         r.begin >= 0, r.end >= r.begin, r.grain > 0
  PROVE  LET t == calc_num_tasks_and_chunk_size(r, threads)
         IN /\ t[1] \in Nat /\ t[2] \in Nat
            /\ t[1] <= threads
            /\ t[1] * t[2] >= r.end - r.begin
            /\ t[2] > 0 \/ r.end = r.begin
<1> DEFINE n == r.end - r.begin
           t == calc_num_tasks_and_chunk_size(r, threads)
<1>0. n \in Nat /\ r.grain \in Nat \ {0} /\ r.begin \in Int /\ r.end \in Int
  BY SMT DEF RangeType
<1>1. CASE ~Counted(r)
  <2>1. t[1] = 1 /\ t[2] = n
    BY <1>0, <1>1 DEF calc_num_tasks_and_chunk_size, Larger
  <2>2. 1 * n = n BY <1>0, SMT
  <2> QED BY <1>0, <2>1, <2>2, SMT
<1>2. CASE Counted(r)
  <2> DEFINE size == Larger(r.grain, divup(n, threads))
             num == divup(n, size)
             d == divup(n, threads)
  <2>1. t[1] = num /\ t[2] = size
    BY <1>2, Zenon DEF calc_num_tasks_and_chunk_size
  <2>2. d \in Nat /\ d * threads >= n
    BY <1>0, DivUp, Zenon
  <2>3. size \in Nat \ {0} /\ size >= d
    BY <1>0, <2>2, SMT DEF Larger
  <2> HIDE DEF size
  <2>4. num \in Nat /\ num * size >= n /\ num * size < n + size
    BY <1>0, <2>3, DivUp, Zenon
  <2> HIDE DEF num, d, n, t
  <2>5. size * threads >= n
    <3>1. CASE size = d BY <2>2, <3>1, Zenon
    <3>2. CASE d < size
      <4>1. d * threads + threads <= size * threads
        BY <2>2, <2>3, <3>2, LessTimes
      <4> QED BY <1>0, <2>2, <2>3, <4>1, SMT
    <3> QED BY <2>2, <2>3, <3>1, <3>2, SMT
  <2>6. num <= threads
    <3>1. (num - 1) * size = num * size - size /\ threads * size = size * threads
      BY <2>3, <2>4, SMT
    <3>2. num * size \in Nat /\ size * threads \in Nat
      BY <2>3, <2>4, SMT
    <3>3. (num - 1) * size < threads * size
      BY <1>0, <2>3, <2>4, <2>5, <3>1, <3>2, SMT
    <3>4. num - 1 < threads
      BY <2>3, <2>4, <3>3, TimesLess, SMT
    <3> QED BY <2>4, <3>4, SMT
  <2> QED BY <1>0, <2>1, <2>3, <2>4, <2>6, SMT DEF n, t
<1> QED BY <1>1, <1>2, Zenon

\* Chunks of that number and size cover the range and do not overlap.
LEMMA ChunksTile ==
  ASSUME NEW c \in CallType, c.num \in Nat, c.size \in Nat,
         c.num * c.size >= c.range.end - c.range.begin,
         c.size > 0 \/ c.range.end = c.range.begin
  PROVE  Tiles(c)
<1> DEFINE b == c.range.begin
           e == c.range.end
           s == c.size
<1>0. b \in Int /\ e \in Int /\ s \in Nat
  BY Zenon DEF CallType, RangeType
<1>1. ASSUME NEW i \in Items(c.range)
      PROVE  \E j \in 0 .. c.num - 1 : i \in Chunk(c, j)
  <2> DEFINE j == (i - b) \div s
  <2>1. i \in Int /\ b <= i /\ i < e
    BY <1>0 DEF Items
  <2>2. s \in Nat \ {0} /\ i - b \in Nat
    BY <1>0, <2>1, SMT
  <2>3. j \in Nat /\ j * s <= i - b /\ i - b < j * s + s
    BY <2>2, Quotient, Zenon
  <2> HIDE DEF j
  <2>4. j * s \in Nat
    BY <2>2, <2>3, SMT
  <2>5. j < c.num
    <3>1. c.num * s \in Nat
      BY <2>2, SMT
    <3>2. j * s < c.num * s
      BY <1>0, <2>1, <2>3, <2>4, <3>1, SMT
    <3> QED BY <2>2, <2>3, <3>2, TimesLess, SMT
  <2>6. i \in Chunk(c, j)
    BY <1>0, <2>1, <2>3, <2>4, SMT DEF Chunk, Smaller
  <2>7. j \in 0 .. c.num - 1
    BY <2>3, <2>5, SMT
  <2> QED BY <2>6, <2>7, Zenon
<1>2. ASSUME NEW j \in 0 .. c.num - 1, NEW k \in 0 .. c.num - 1, j < k
      PROVE  Chunk(c, j) \cap Chunk(c, k) = {}
  <2>1. j * s + s <= k * s
    BY <1>0, <1>2, LessTimes, SMT
  <2>2. j * s \in Int /\ k * s \in Int
    BY <1>0, SMT
  <2> QED BY <1>0, <2>1, <2>2, SMT DEF Chunk, Smaller
<1>3. ASSUME NEW j \in 0 .. c.num - 1, NEW k \in 0 .. c.num - 1, j # k
      PROVE  Chunk(c, j) \cap Chunk(c, k) = {}
  <2>1. CASE j < k BY <1>2, <2>1, Zenon
  <2>2. CASE k < j BY <1>2, <2>2, Zenon
  <2> QED BY <1>3, <2>1, <2>2, SMT
<1> QED BY <1>1, <1>3, Zenon DEF Tiles

-----------------------------------------------------------------------------
(* Types *)

\* The call of an idle thread is typed.
LEMMA NoCallType == NoCall \in CallType
<1>1. [i \in {} |-> 0] \in Tallies
  <2>1. [i \in {} |-> 0] \in [{} -> Nat] BY Zenon
  <2>2. {} \in SUBSET Int BY Zenon
  <2> QED BY <2>1, <2>2, Zenon DEF Tallies
<1>2. [begin |-> 0, end |-> 0, grain |-> 1] \in RangeType
  BY SMTT(60) DEF RangeType
<1> QED BY <1>1, <1>2, PoolAssumption DEF NoCall, CallType

\* What an assignment to a local variable of a call leaves a call.
LEMMA Updated ==
  ASSUME NEW c \in CallType
  PROVE  /\ \A x \in SUBSET Nat : [c EXCEPT !.todo = x] \in CallType
         /\ \A x \in Nat : [c EXCEPT !.slots = x] \in CallType
         /\ \A x, y \in Int : [c EXCEPT !.num = x, !.size = y] \in CallType
         /\ \A x \in Tallies : [c EXCEPT !.done = x] \in CallType
         /\ \A x \in BOOLEAN : [c EXCEPT !.resized = x] \in CallType
         /\ \A x \in 1 .. MaxPools, y \in SUBSET Nat : [c EXCEPT !.on = x, !.todo = y] \in CallType
         /\ \A x \in RangeType, y \in Tallies : [c EXCEPT !.range = x, !.done = y] \in CallType
         /\ \A x \in Int : [c EXCEPT !.range.end = x] \in CallType
<1>1. \A x \in SUBSET Nat : [c EXCEPT !.todo = x] \in CallType
  BY Zenon DEF CallType
<1>2. \A x \in Nat : [c EXCEPT !.slots = x] \in CallType
  BY Zenon DEF CallType
<1>3. \A x, y \in Int : [c EXCEPT !.num = x, !.size = y] \in CallType
  BY Zenon DEF CallType
<1>4. \A x \in Tallies : [c EXCEPT !.done = x] \in CallType
  BY Zenon DEF CallType
<1>5. \A x \in BOOLEAN : [c EXCEPT !.resized = x] \in CallType
  BY Zenon DEF CallType
<1>6. \A x \in 1 .. MaxPools, y \in SUBSET Nat : [c EXCEPT !.on = x, !.todo = y] \in CallType
  BY Zenon DEF CallType
<1>7. \A x \in RangeType, y \in Tallies : [c EXCEPT !.range = x, !.done = y] \in CallType
  BY Zenon DEF CallType
<1>8. \A x \in Int : [c EXCEPT !.range.end = x] \in CallType
  <2> TAKE x \in Int
  <2>1. c.range \in RangeType
    BY Zenon DEF CallType
  <2>2. [c.range EXCEPT !.end = x] \in RangeType
    BY <2>1, Zenon DEF RangeType
  <2> QED BY <2>2, Zenon DEF CallType
<1> QED BY <1>1, <1>2, <1>3, <1>4, <1>5, <1>6, <1>7, <1>8, ZenonT(60)

\* A step that assigns one call a typed one leaves all calls typed.
LEMMA CallUpdated ==
  ASSUME Typed, NEW a \in Apps, NEW c \in CallType, call' = [call EXCEPT ![a] = c]
  PROVE  call' \in [Apps -> CallType]
BY Zenon DEF Typed

\* The task of a thread that runs none is typed.
LEMMA NoTaskType == NoTask \in TaskType
BY Zenon DEF NoTask, TaskType

\* The initial state is typed.
LEMMA TypedInit == Init => Typed
<1> SUFFICES ASSUME Init PROVE Typed
  OBVIOUS
<1>1. call \in [Apps -> CallType] /\ task \in [Threads -> TaskType]
  BY NoCallType, NoTaskType, Zenon DEF Init
<1>2. pc \in [Apps -> Labels] /\ guard \in [Threads -> BOOLEAN] /\ mutex \in Apps \cup {NoOne}
  BY Zenon DEF Init, Labels
<1>3. /\ pool \in 1 .. MaxPools /\ count \in [1 .. MaxPools -> Nat \ {0}]
      /\ alive \subseteq 1 .. MaxPools
  BY PoolAssumption, SMT DEF Init
<1>4. leak \in BOOLEAN /\ orphaned \in BOOLEAN
  BY Zenon DEF Init
<1> QED BY <1>1, <1>2, <1>3, <1>4, Zenon DEF Typed

\* Of the pool's invariants, creating a pool needs that there is one left.
LEMMA RoomForPool ==
  ASSUME Typed, PoolInv, NEW a \in Apps, leak \/ pc[a] = "replace"
  PROVE  pool + 1 \in 1 .. MaxPools
<1>1. Resetting \in SUBSET Apps /\ IsFiniteSet(Apps)
  BY PoolAssumption, Zenon DEF Resetting
<1>2. IsFiniteSet(Resetting) /\ Cardinality(Resetting) \in Nat
  BY <1>1, FS_Subset, FS_CardinalityType, Zenon
<1>3. pc[a] = "replace" => Cardinality(Resetting) # 0
  BY <1>2, FS_EmptySet, Zenon DEF Resetting
<1> QED BY <1>2, <1>3, PoolAssumption, SMT DEF Typed, PoolInv

\* Taking a task keeps the types.
LEMMA TypedStart ==
  ASSUME Typed, NEW t \in Threads, NEW a \in Apps, NEW i \in call[a].todo, StartTask(t, a, i)
  PROVE  Typed'
<1>1. call' \in [Apps -> CallType]
  <2> DEFINE c == [call[a] EXCEPT !.todo = @ \ {i}]
  <2>1. call[a] \in CallType
    BY Zenon DEF Typed
  <2>2. call[a].todo \ {i} \in SUBSET Nat
    BY <2>1, Zenon DEF CallType
  <2>3. c \in CallType
    BY <2>1, <2>2, Updated, Zenon
  <2>4. call' = [call EXCEPT ![a] = c]
    BY Zenon DEF StartTask
  <2> QED BY <2>3, <2>4, CallUpdated, Zenon
<1>2. i \in Nat
  BY Zenon DEF Typed, CallType
<1>3. task' \in [Threads -> TaskType]
  BY <1>2 DEF Typed, StartTask, TaskType
<1> QED BY <1>1, <1>3, Zenon DEF Typed, StartTask, pools

\* Every step keeps the types; a pool is created only while one is left.
LEMMA TypedNext == Typed /\ PoolInv /\ TaskInv /\ [Next]_vars => Typed'
<1> SUFFICES ASSUME Typed, PoolInv, TaskInv, [Next]_vars PROVE Typed'
  OBVIOUS
<1> USE DEF Goto, pools
<1>1. ASSUME NEW a \in Apps, Call(a) PROVE Typed'
  <2> PICK r \in Ranges, g \in BOOLEAN :
        /\ call' = [call EXCEPT ![a].range = r, ![a].done = [i \in Items(r) |-> 0]]
        /\ guard' = [guard EXCEPT ![a] = g]
    BY <1>1, Zenon DEF Call
  <2>1. r \in RangeType
    BY PoolAssumption, Zenon DEF RangeType
  <2>2. [i \in Items(r) |-> 0] \in Tallies
    <3>1. Items(r) \in SUBSET Int BY <2>1 DEF Items, RangeType
    <3>2. [i \in Items(r) |-> 0] \in [Items(r) -> Nat] BY SMT
    <3> QED BY <3>1, <3>2, Zenon DEF Tallies
  <2> DEFINE c == [call[a] EXCEPT !.range = r, !.done = [i \in Items(r) |-> 0]]
  <2>3. call' \in [Apps -> CallType]
    <3>1. c \in CallType BY <2>1, <2>2, Updated, Zenon DEF Typed
    <3>2. call' = [call EXCEPT ![a] = c] BY Zenon
    <3> QED BY <3>1, <3>2, CallUpdated, Zenon
  <2> QED BY <1>1, <2>3, Zenon DEF Typed, Call, Labels, Threads
<1>2. ASSUME NEW a \in Apps, Reset(a) PROVE Typed'
  <2>1. call' \in [Apps -> CallType]
    <3> PICK n \in Counts : call' = [call EXCEPT ![a].range.end = n]
      BY <1>2, Zenon DEF Reset
    <3>1. n \in Int BY PoolAssumption
    <3> DEFINE c == [call[a] EXCEPT !.range.end = n]
    <3>2. c \in CallType BY <3>1, Updated, Zenon DEF Typed
    <3>3. call' = [call EXCEPT ![a] = c] OBVIOUS
    <3> QED BY <3>2, <3>3, CallUpdated, Zenon
  <2> QED BY <1>2, <2>1, Zenon DEF Typed, Reset, Labels
<1>3. ASSUME NEW a \in Apps, Fork(a) PROVE Typed'
  BY <1>3, NoCallType, NoTaskType, Zenon DEF Typed, Fork, Labels
<1>4. ASSUME NEW a \in Apps, GetThreadpool(a) PROVE Typed'
  <2>1. pool + 1 \in 1 .. MaxPools
    BY <1>4, RoomForPool, Zenon DEF GetThreadpool
  <2> QED BY <1>4, <2>1, Zenon DEF Typed, GetThreadpool
<1>5. ASSUME NEW a \in Apps, CountSlots(a) PROVE Typed'
  <2> DEFINE c == [call[a] EXCEPT !.slots = count[pool]]
  <2>1. c \in CallType
    BY Updated, Zenon DEF Typed
  <2>2. call' = [call EXCEPT ![a] = c]
    BY <1>5, Zenon DEF CountSlots
  <2>3. call' \in [Apps -> CallType]
    BY <2>1, <2>2, CallUpdated, Zenon
  <2> QED BY <1>5, <2>3, Zenon DEF Typed, CountSlots, Labels
<1>6. ASSUME NEW a \in Apps, CompareCount(a) PROVE Typed'
  BY <1>6, Zenon DEF Typed, CompareCount, Labels
<1>7. ASSUME NEW a \in Apps, Replace(a) PROVE Typed'
  <2>1. pool + 1 \in 1 .. MaxPools
    BY <1>7, RoomForPool, Zenon DEF Replace
  <2>2. call' \in [Apps -> CallType]
    <3>1. \A b \in Apps : [call[b] EXCEPT !.resized = (call[b].slots > 0)] \in CallType
      <4> TAKE b \in Apps
      <4>1. call[b] \in CallType
        BY Zenon DEF Typed
      <4>2. (call[b].slots > 0) \in BOOLEAN
        BY <4>1 DEF CallType
      <4> QED BY <4>1, <4>2, Updated, Zenon
    <3> QED BY <1>7, <3>1, Zenon DEF Replace
  <2>4. count' \in [1 .. MaxPools -> Nat \ {0}]
    <3>1. call[a].range.end \in Nat \ {0}
      BY <1>7, Zenon DEF Replace, PoolInv
    <3>2. count' = [count EXCEPT ![pool + 1] = call[a].range.end]
      BY <1>7, Zenon DEF Replace
    <3> QED BY <3>1, <3>2, Zenon DEF Typed
  <2> QED BY <1>7, <2>1, <2>2, <2>4, Zenon DEF Typed, Replace, Labels
<1>8. ASSUME NEW a \in Apps, Refuse(a) PROVE Typed'
  BY <1>8, Zenon DEF Typed, Refuse, Labels
<1>9. ASSUME NEW a \in Apps, CalcTasks(a) PROVE Typed'
  <2> DEFINE t == calc_num_tasks_and_chunk_size(call[a].range, count[pool])
  <2>1. t[1] \in Int /\ t[2] \in Int
    BY <1>9, CalcTiles, SMT DEF Typed, CalcTasks, CallType
  <2>2. call' = [call EXCEPT ![a].num = t[1], ![a].size = t[2]]
    BY <1>9, Zenon DEF CalcTasks
  <2> HIDE DEF t
  <2>3. call' \in [Apps -> CallType]
    <3> DEFINE c == [call[a] EXCEPT !.num = t[1], !.size = t[2]]
    <3>1. c \in CallType BY <2>1, Updated, Zenon DEF Typed
    <3>2. call' = [call EXCEPT ![a] = c] BY <2>2, Zenon
    <3> QED BY <3>1, <3>2, CallUpdated, Zenon
  <2> QED BY <1>9, <2>3, Zenon DEF Typed, CalcTasks, Labels
<1>10. ASSUME NEW a \in Apps, RunSerially(a) PROVE Typed'
  <2> DEFINE c == [call[a] EXCEPT !.todo = 0 .. call[a].num - 1]
  <2>1. 0 .. call[a].num - 1 \in SUBSET Nat
    BY DEF Typed, CallType
  <2>2. c \in CallType
    BY <2>1, Updated, Zenon DEF Typed
  <2>3. call' = [call EXCEPT ![a] = c]
    BY <1>10, Zenon DEF RunSerially
  <2>4. call' \in [Apps -> CallType]
    BY <2>2, <2>3, CallUpdated, Zenon
  <2> QED BY <1>10, <2>4, Zenon DEF Typed, RunSerially, Labels
<1>11. ASSUME NEW a \in Apps, RunInPool(a) PROVE Typed'
  <2> DEFINE c == [call[a] EXCEPT !.on = pool, !.todo = 0 .. call[a].num - 1]
  <2>1. 0 .. call[a].num - 1 \in SUBSET Nat
    BY DEF Typed, CallType
  <2>2. c \in CallType
    BY <2>1, Updated, Zenon DEF Typed
  <2>3. call' = [call EXCEPT ![a] = c]
    BY <1>11, Zenon DEF RunInPool
  <2>4. call' \in [Apps -> CallType]
    BY <2>2, <2>3, CallUpdated, Zenon
  <2> QED BY <1>11, <2>4, Zenon DEF Typed, RunInPool, Labels
<1>12. ASSUME NEW a \in Apps, NextItem(a) PROVE Typed'
  BY <1>12, TypedStart, Zenon DEF NextItem, Threads
<1>13. ASSUME NEW a \in Apps, RunReturns(a) PROVE Typed'
  BY <1>13, Zenon DEF Typed, RunReturns, Labels
<1>14. ASSUME NEW a \in Apps, Leave(a) PROVE Typed'
  BY <1>14, NoCallType, Zenon DEF Typed, Leave, Labels, Threads
<1>15. ASSUME NEW t \in Threads, TakeItem(t) PROVE Typed'
  BY <1>15, TypedStart, SMTT(60) DEF TakeItem
<1>16. ASSUME NEW t \in Threads, FinishTask(t) PROVE Typed'
  <2> DEFINE a == task[t].of
             start == call[a].range.begin + task[t].id * call[a].size
             chunk == start .. Smaller(call[a].range.end, start + call[a].size) - 1
             done == call[a].done
             more == [i \in DOMAIN done |-> IF i \in chunk THEN done[i] + 1 ELSE done[i]]
             c == [call[a] EXCEPT !.done = more]
  <2>1. a \in Apps /\ call[a] \in CallType
    BY <1>16, Zenon DEF Typed, TaskInv, FinishTask
  <2>2. more \in Tallies
    <3>1. PICK S \in SUBSET Int : done \in [S -> Nat]
      BY <2>1, SMTT(60) DEF CallType, Tallies
    <3> HIDE DEF chunk, done
    <3>2. more \in [S -> Nat] BY <3>1, SMT
    <3> QED BY <3>2, Zenon DEF Tallies
  <2>3. call' = [call EXCEPT ![a] = c]
    BY <1>16, ZenonT(60) DEF FinishTask
  <2> HIDE DEF more, a
  <2>4. c \in CallType
    BY <2>1, <2>2, Updated, Zenon
  <2>5. call' \in [Apps -> CallType]
    BY <2>1, <2>3, <2>4, CallUpdated, Zenon
  <2>6. task' \in [Threads -> TaskType] /\ task[t].prev \in BOOLEAN
    BY <1>16, NoTaskType, Zenon DEF Typed, FinishTask, TaskType
  <2> QED BY <1>16, <2>5, <2>6, ZenonT(60) DEF Typed, FinishTask
<1>17. CASE UNCHANGED vars
  BY <1>17, Zenon DEF Typed, vars
<1> QED
  BY <1>1, <1>2, <1>3, <1>4, <1>5, <1>6, <1>7, <1>8, <1>9, <1>10, <1>11, <1>12, <1>13, <1>14,
     <1>15, <1>16, <1>17, SMTT(60), SMTT(60) DEF Next, AppStep, TaskStep

-----------------------------------------------------------------------------
(* What a step of one call changes of the calls *)

\* Only a's call takes a step.
OnlyCall(a) == \A b \in Apps : b # a => pc'[b] = pc[b] /\ call'[b] = call[b]

\* The application starts parallel_for().
LEMMA CallEffect ==
  ASSUME Typed, NEW a \in Apps, Call(a)
  PROVE  /\ OnlyCall(a) /\ pc[a] = "idle" /\ pc'[a] = "size"
         /\ call'[a].slots = call[a].slots /\ call'[a].num = call[a].num /\ call'[a].todo = call[a].todo
         /\ call'[a].resized = call[a].resized /\ call'[a].done = [i \in Items(call'[a].range) |-> 0]
<1>1. PICK r \in Ranges : call' = [call EXCEPT ![a].range = r, ![a].done = [i \in Items(r) |-> 0]]
  BY Zenon DEF Call
<1>2. call \in [Apps -> CallType] /\ pc \in [Apps -> Labels] /\ pc' = [pc EXCEPT ![a] = "size"] /\ pc[a] = "idle"
  BY Zenon DEF Typed, Call, Goto
<1> QED BY <1>1, <1>2, SMTT(60) DEF CallType, OnlyCall

\* _unsafe_reset_threadpool() is called.
LEMMA ResetEffect ==
  ASSUME Typed, NEW a \in Apps, Reset(a)
  PROVE  /\ OnlyCall(a) /\ pc[a] = "idle" /\ pc'[a] = "reset" /\ call'[a].range.end \in Nat
         /\ call'[a].slots = call[a].slots /\ call'[a].num = call[a].num /\ call'[a].todo = call[a].todo
         /\ call'[a].resized = call[a].resized /\ call'[a].done = call[a].done
<1>1. PICK n \in Counts : call' = [call EXCEPT ![a].range.end = n]
  BY Zenon DEF Reset
<1>2. call \in [Apps -> CallType] /\ pc \in [Apps -> Labels] /\ pc' = [pc EXCEPT ![a] = "reset"] /\ pc[a] = "idle"
  BY Zenon DEF Typed, Reset, Goto
<1>3. n \in Nat
  BY PoolAssumption, Zenon
<1>4. call'[a].range.end = n
  BY <1>1, <1>2, SMTT(60) DEF CallType, RangeType
<1> QED BY <1>1, <1>2, <1>3, <1>4, SMTT(60) DEF CallType, OnlyCall

\* The caller counts the slots.
LEMMA CountEffect ==
  ASSUME Typed, NEW a \in Apps, CountSlots(a)
  PROVE  /\ OnlyCall(a) /\ pc[a] = "size" /\ pc'[a] = "calc" /\ call'[a].slots = count[pool]
         /\ call'[a].num = call[a].num /\ call'[a].todo = call[a].todo
         /\ call'[a].resized = call[a].resized
         /\ call'[a].range = call[a].range /\ call'[a].done = call[a].done
<1>1. /\ call \in [Apps -> CallType] /\ call' = [call EXCEPT ![a].slots = count[pool]]
      /\ pc \in [Apps -> Labels] /\ pc' = [pc EXCEPT ![a] = "calc"] /\ pc[a] = "size"
  BY Zenon DEF Typed, CountSlots, Goto
<1> QED BY <1>1, SMTT(60) DEF CallType, OnlyCall

\* The pool is replaced under the calls.
LEMMA ReplaceEffect ==
  ASSUME Typed, NEW a \in Apps, Replace(a)
  PROVE  /\ pc[a] = "replace" /\ pc'[a] = "returned" /\ \A b \in Apps : b # a => pc'[b] = pc[b]
         /\ \A b \in Apps :
              /\ call'[b].range = call[b].range /\ call'[b].slots = call[b].slots
              /\ call'[b].num = call[b].num /\ call'[b].size = call[b].size
              /\ call'[b].todo = call[b].todo /\ call'[b].done = call[b].done
              /\ call'[b].resized <=> call[b].slots > 0
<1>1. /\ call \in [Apps -> CallType]
      /\ call' = [b \in Apps |-> [call[b] EXCEPT !.resized = (call[b].slots > 0)]]
      /\ pc \in [Apps -> Labels] /\ pc' = [pc EXCEPT ![a] = "returned"] /\ pc[a] = "replace"
  BY Zenon DEF Typed, Replace, Goto
<1>2. pc'[a] = "returned" /\ \A b \in Apps : b # a => pc'[b] = pc[b]
  BY <1>1, Zenon
<1>3. ASSUME NEW b \in Apps
      PROVE  /\ call'[b].range = call[b].range /\ call'[b].slots = call[b].slots
             /\ call'[b].num = call[b].num /\ call'[b].size = call[b].size
             /\ call'[b].todo = call[b].todo /\ call'[b].done = call[b].done
             /\ call'[b].resized <=> call[b].slots > 0
  <2> DEFINE y == call[b].slots > 0
  <2>2. call'[b] = [call[b] EXCEPT !.resized = y] /\ call[b] \in CallType
    BY <1>1, Zenon
  <2> HIDE DEF y
  <2>3. /\ call'[b].range = call[b].range /\ call'[b].slots = call[b].slots
        /\ call'[b].num = call[b].num /\ call'[b].size = call[b].size
        /\ call'[b].todo = call[b].todo /\ call'[b].done = call[b].done
        /\ call'[b].resized = y
    BY <2>2, SMTT(60) DEF CallType
  <2> QED BY <2>3, Zenon DEF y
<1> QED BY <1>1, <1>2, <1>3, Zenon

\* parallel_for() divides the range.
LEMMA CalcEffect ==
  ASSUME Typed, Typed', NEW a \in Apps, CalcTasks(a)
  PROVE  /\ OnlyCall(a) /\ pc[a] = "calc" /\ pc'[a] = "run"
         /\ call'[a].num <= count[pool] /\ Tiles(call'[a])
         /\ call'[a].slots = call[a].slots /\ call'[a].todo = call[a].todo
         /\ call'[a].resized = call[a].resized
         /\ call'[a].range = call[a].range /\ call'[a].done = call[a].done
<1> DEFINE r == call[a].range
           t == calc_num_tasks_and_chunk_size(r, count[pool])
<1>1. r \in RangeType /\ count[pool] \in Nat \ {0}
  BY Zenon DEF Typed, CallType
<1>2. r.begin >= 0 /\ r.end >= r.begin /\ r.grain > 0
  BY Zenon DEF CalcTasks
<1>3. /\ t[1] \in Nat /\ t[2] \in Nat /\ t[1] <= count[pool]
      /\ t[1] * t[2] >= r.end - r.begin
      /\ t[2] > 0 \/ r.end = r.begin
  BY <1>1, <1>2, CalcTiles, Zenon
<1>4. /\ call \in [Apps -> CallType] /\ call' = [call EXCEPT ![a].num = t[1], ![a].size = t[2]]
      /\ pc \in [Apps -> Labels] /\ pc' = [pc EXCEPT ![a] = "run"] /\ pc[a] = "calc"
  BY Zenon DEF Typed, CalcTasks, Goto
<1> HIDE DEF t
<1>5. /\ OnlyCall(a) /\ pc[a] = "calc" /\ pc'[a] = "run"
      /\ call'[a].num = t[1] /\ call'[a].size = t[2]
      /\ call'[a].slots = call[a].slots /\ call'[a].todo = call[a].todo
      /\ call'[a].resized = call[a].resized
      /\ call'[a].range = r /\ call'[a].done = call[a].done
  BY <1>4, SMTT(60) DEF CallType, OnlyCall
<1>6. Tiles(call'[a])
  <2>1. call'[a] \in CallType
    BY Zenon DEF Typed
  <2> QED BY <1>3, <1>5, <2>1, ChunksTile, Zenon
<1> QED BY <1>3, <1>5, <1>6, Zenon

\* run() starts.
LEMMA RunEffect ==
  ASSUME Typed, NEW a \in Apps, RunSerially(a) \/ RunInPool(a)
  PROVE  /\ OnlyCall(a) /\ pc[a] = "run" /\ pc'[a] \in Active
         /\ pc'[a] = "parallel" => call'[a].on = pool /\ mutex' = a
         /\ call'[a].todo = 0 .. call[a].num - 1
         /\ call'[a].range = call[a].range /\ call'[a].slots = call[a].slots
         /\ call'[a].num = call[a].num /\ call'[a].size = call[a].size
         /\ call'[a].resized = call[a].resized /\ call'[a].done = call[a].done
<1>1. call \in [Apps -> CallType] /\ pc \in [Apps -> Labels]
  BY Zenon DEF Typed
<1>2. CASE RunSerially(a)
  <2>1. /\ call' = [call EXCEPT ![a].todo = 0 .. call[a].num - 1]
        /\ pc' = [pc EXCEPT ![a] = "serial"] /\ pc[a] = "run"
    BY <1>2, Zenon DEF RunSerially, Goto
  <2> QED BY <1>1, <2>1, SMTT(60) DEF CallType, OnlyCall, Active
<1>3. CASE RunInPool(a)
  <2>1. /\ call' = [call EXCEPT ![a].on = pool, ![a].todo = 0 .. call[a].num - 1]
        /\ pc' = [pc EXCEPT ![a] = "parallel"] /\ pc[a] = "run" /\ mutex' = a
    BY <1>3, Zenon DEF RunInPool, Goto
  <2> QED BY <1>1, <2>1, SMTT(60) DEF CallType, OnlyCall, Active
<1> QED BY <1>2, <1>3, Zenon

\* A thread takes a task.
LEMMA StartEffect ==
  ASSUME Typed, NEW t \in Threads, NEW a \in Apps, NEW i, StartTask(t, a, i)
  PROVE  /\ pc' = pc /\ task[t] = NoTask /\ task'[t].of = a /\ task'[t].id = i
         /\ \A u \in Threads : u # t => task'[u] = task[u]
         /\ call'[a].todo = call[a].todo \ {i} /\ \A b \in Apps : b # a => call'[b].todo = call[b].todo
         /\ \A b \in Apps :
              /\ call'[b].range = call[b].range /\ call'[b].slots = call[b].slots
              /\ call'[b].num = call[b].num /\ call'[b].size = call[b].size /\ call'[b].on = call[b].on
              /\ call'[b].resized = call[b].resized /\ call'[b].done = call[b].done
<1>1. call \in [Apps -> CallType] /\ call' = [call EXCEPT ![a].todo = @ \ {i}]
  BY Zenon DEF Typed, StartTask
<1>2. pc' = pc /\ task \in [Threads -> TaskType] /\ task[t] = NoTask
  BY Zenon DEF Typed, StartTask
<1>3. PICK k \in Inner : task' = [task EXCEPT ![t] = [of |-> a, id |-> i, inner |-> k, prev |-> guard[t]]]
  BY Zenon DEF StartTask
<1>4. /\ task'[t].of = a /\ task'[t].id = i
      /\ \A u \in Threads : u # t => task'[u] = task[u]
  BY <1>2, <1>3, SMTT(60)
<1>5. /\ call'[a].todo = call[a].todo \ {i} /\ \A b \in Apps : b # a => call'[b].todo = call[b].todo
      /\ \A b \in Apps :
           /\ call'[b].range = call[b].range /\ call'[b].slots = call[b].slots
           /\ call'[b].num = call[b].num /\ call'[b].size = call[b].size /\ call'[b].on = call[b].on
           /\ call'[b].resized = call[b].resized /\ call'[b].done = call[b].done
  BY <1>1, SMTT(60) DEF CallType
<1> QED BY <1>2, <1>4, <1>5, Zenon

\* A thread finishes a task: task k of a's call.
LEMMA FinishEffect ==
  ASSUME Typed, TaskInv, NEW t \in Threads, FinishTask(t)
  PROVE  \E a \in Apps, k \in Nat :
           /\ a = task[t].of /\ k = task[t].id
           /\ pc' = pc /\ task'[t] = NoTask /\ \A u \in Threads : u # t => task'[u] = task[u]
           /\ \A b \in Apps :
                /\ call'[b].range = call[b].range /\ call'[b].slots = call[b].slots
                /\ call'[b].num = call[b].num /\ call'[b].size = call[b].size /\ call'[b].on = call[b].on
                /\ call'[b].todo = call[b].todo /\ call'[b].resized = call[b].resized
                /\ b # a => call'[b].done = call[b].done
           /\ call'[a].done = [i \in DOMAIN call[a].done |->
                                 IF i \in Chunk(call[a], k) THEN call[a].done[i] + 1 ELSE call[a].done[i]]
<1>0. PICK a \in Apps, k \in Nat : a = task[t].of /\ k = task[t].id
  <2>1. task[t].id \in Nat
    BY Zenon DEF Typed, TaskType
  <2>2. task[t].of \in Apps
    BY ZenonT(60) DEF FinishTask, TaskInv
  <2> QED BY <2>1, <2>2, Zenon
<1> DEFINE more == [i \in DOMAIN call[a].done |->
                      IF i \in Chunk(call[a], k) THEN call[a].done[i] + 1 ELSE call[a].done[i]]
<1>1. call' = [call EXCEPT ![a].done = more]
  <2>1. call' = [call EXCEPT ![task[t].of].done =
                   [i \in DOMAIN call[task[t].of].done |->
                      IF i \in Chunk(call[task[t].of], task[t].id)
                      THEN call[task[t].of].done[i] + 1 ELSE call[task[t].of].done[i]]]
    BY Zenon DEF FinishTask, Chunk
  <2> QED BY <1>0, <2>1, Zenon
<1>2. /\ task'[t] = NoTask /\ pc' = pc /\ \A u \in Threads : u # t => task'[u] = task[u]
  BY SMTT(60) DEF Typed, FinishTask
<1> HIDE DEF more
<1>3. call \in [Apps -> CallType]
  BY Zenon DEF Typed
<1>4. /\ \A b \in Apps :
           /\ call'[b].range = call[b].range /\ call'[b].slots = call[b].slots
           /\ call'[b].num = call[b].num /\ call'[b].size = call[b].size /\ call'[b].on = call[b].on
           /\ call'[b].todo = call[b].todo /\ call'[b].resized = call[b].resized
           /\ b # a => call'[b].done = call[b].done
      /\ call'[a].done = more
  BY <1>1, <1>3, SMTT(60) DEF CallType
<1>5. call'[a].done = [i \in DOMAIN call[a].done |->
                         IF i \in Chunk(call[a], k) THEN call[a].done[i] + 1 ELSE call[a].done[i]]
  BY <1>4, Zenon DEF more
<1>6. \A b \in Apps :
        /\ call'[b].range = call[b].range /\ call'[b].slots = call[b].slots
        /\ call'[b].num = call[b].num /\ call'[b].size = call[b].size /\ call'[b].on = call[b].on
        /\ call'[b].todo = call[b].todo /\ call'[b].resized = call[b].resized
        /\ b # a => call'[b].done = call[b].done
  BY <1>4, ZenonT(60)
<1> WITNESS a \in Apps, k \in Nat
<1> QED BY <1>0, <1>2, <1>5, <1>6, Zenon

\* The caller leaves.
LEMMA LeaveEffect ==
  ASSUME Typed, NEW a \in Apps, Leave(a)
  PROVE  /\ OnlyCall(a) /\ pc[a] \in {"returned", "refused"} /\ pc'[a] = "idle"
         /\ call'[a].slots = 0 /\ call'[a].resized = FALSE /\ call'[a].todo = {}
         /\ DOMAIN call'[a].done = {}
<1>1. /\ call \in [Apps -> CallType] /\ call' = [call EXCEPT ![a] = NoCall]
      /\ pc \in [Apps -> Labels] /\ pc' = [pc EXCEPT ![a] = "idle"] /\ pc[a] \in {"returned", "refused"}
  BY Zenon DEF Typed, Leave, Goto
<1> QED BY <1>1, SMTT(60) DEF NoCall, OnlyCall
-----------------------------------------------------------------------------
(* The pool *)

\* How each step changes the threads that are replacing the pool.
LEMMA BoundNext ==
  ASSUME Typed, PoolInv, [Next]_vars
  PROVE  (pool + Cardinality(Resetting) + (IF leak THEN 1 ELSE 0) <= MaxPools)'
<1> DEFINE n == Cardinality(Resetting)
           Same == Resetting' = Resetting
<1>1. IsFiniteSet(Resetting) /\ n \in Nat
  <2>1. Resetting \in SUBSET Apps /\ IsFiniteSet(Apps)
    BY PoolAssumption, Zenon DEF Resetting
  <2> QED BY <2>1, FS_Subset, FS_CardinalityType, Zenon
<1>2. pool \in Nat /\ MaxPools \in Nat /\ leak \in BOOLEAN
  BY PoolAssumption DEF Typed
<1>3. pool + n + (IF leak THEN 1 ELSE 0) <= MaxPools
  BY Zenon DEF PoolInv
<1>4. ASSUME Resetting' = Resetting, pool' = pool, leak' = leak
      PROVE  (pool + Cardinality(Resetting) + (IF leak THEN 1 ELSE 0) <= MaxPools)'
  BY <1>3, <1>4, Zenon
<1>5. ASSUME NEW a \in Apps, NEW l, Goto(a, l),
             (pc[a] \in {"reset", "replace"}) = (l \in {"reset", "replace"})
      PROVE  Resetting' = Resetting
  BY <1>5, Zenon DEF Resetting, Goto, Typed
<1> HIDE DEF n
<1>6. ASSUME NEW a \in Apps, Reset(a)
      PROVE  (pool + Cardinality(Resetting) + (IF leak THEN 1 ELSE 0) <= MaxPools)'
  <2>1. Resetting' = Resetting \cup {a} /\ a \notin Resetting
    BY <1>6, Zenon DEF Resetting, Reset, Goto, Typed
  <2>2. Cardinality(Resetting') = n + 1
    BY <1>1, <2>1, FS_AddElement, Zenon DEF n
  <2>3. pool + n + (IF leak THEN 1 ELSE 0) < MaxPools /\ pool' = pool /\ leak' = leak
    BY <1>6, Zenon DEF Reset, n, pools, Resetting
  <2> QED BY <1>1, <1>2, <2>2, <2>3
<1>7. ASSUME NEW a \in Apps, CompareCount(a) \/ Replace(a)
      PROVE  (pool + Cardinality(Resetting) + (IF leak THEN 1 ELSE 0) <= MaxPools)'
  <2>1. CASE CompareCount(a) /\ pc'[a] = "replace"
    <3>1. Resetting' = Resetting
      <4>1. Goto(a, "replace") /\ pc[a] = "reset"
        BY <2>1, Zenon DEF CompareCount, Goto, Typed
      <4> QED BY <4>1, Zenon DEF Resetting, Goto, Typed
    <3> QED BY <1>4, <2>1, <3>1, Zenon DEF CompareCount, pools
  <2>2. CASE pc' = [pc EXCEPT ![a] = "returned"]
    <3>1. Resetting' = Resetting \ {a} /\ a \in Resetting
      BY <1>7, <2>2, Zenon DEF Resetting, CompareCount, Replace, Typed
    <3>2. Cardinality(Resetting') = n - 1
      BY <1>1, <3>1, FS_RemoveElement, Zenon DEF n
    <3>3. (pool' = pool \/ pool' = pool + 1) /\ leak' = leak
      BY <1>7, Zenon DEF CompareCount, Replace, pools
    <3>4. CASE leak
      BY <1>1, <1>2, <1>3, <3>2, <3>3, <3>4, SMT, SMTT(60)
    <3>5. CASE ~leak
      BY <1>1, <1>2, <1>3, <3>2, <3>3, <3>5, SMT, SMTT(60)
    <3> QED BY <3>4, <3>5, Zenon
  <2> QED BY <1>7, <2>1, <2>2, Zenon DEF CompareCount, Replace, Goto, Typed
<1>8. ASSUME NEW a \in Apps, Fork(a)
      PROVE  (pool + Cardinality(Resetting) + (IF leak THEN 1 ELSE 0) <= MaxPools)'
  <2>1. Resetting' = {}
    BY <1>8, Zenon DEF Resetting, Fork
  <2>2. Cardinality(Resetting') = 0
    BY <2>1, FS_EmptySet, Zenon
  <2> QED BY <1>2, <1>8, <2>2 DEF Fork
<1>9. ASSUME NEW a \in Apps, GetThreadpool(a)
      PROVE  (pool + Cardinality(Resetting) + (IF leak THEN 1 ELSE 0) <= MaxPools)'
  <2>1. Resetting' = Resetting
    BY <1>9, Zenon DEF Resetting, GetThreadpool
  <2> QED BY <1>1, <1>2, <1>3, <1>9, <2>1 DEF GetThreadpool, n
<1>10. ASSUME NEW a \in Apps,
              \/ Call(a) \/ CountSlots(a) \/ Refuse(a) \/ CalcTasks(a) \/ RunSerially(a)
              \/ RunInPool(a) \/ RunReturns(a) \/ Leave(a)
       PROVE  (pool + Cardinality(Resetting) + (IF leak THEN 1 ELSE 0) <= MaxPools)'
  <2>1. Resetting' = Resetting
    BY <1>5, <1>10, SMTT(60) DEF Call, CountSlots, Refuse, CalcTasks, RunSerially, RunInPool, RunReturns, Leave
  <2>2. pool' = pool /\ leak' = leak
    BY <1>10, Zenon DEF Call, CountSlots, Refuse, CalcTasks, RunSerially, RunInPool, RunReturns, Leave, pools
  <2> QED BY <1>4, <2>1, <2>2, SMTT(60)
<1>11. ASSUME UNCHANGED <<pc, pool, leak>>
       PROVE  (pool + Cardinality(Resetting) + (IF leak THEN 1 ELSE 0) <= MaxPools)'
  BY <1>4, <1>11, SMTT(60) DEF Resetting
<1>12. ASSUME NEW t \in Threads, TaskStep(t) \/ \E a \in Apps : NextItem(a)
       PROVE  UNCHANGED <<pc, pool, leak>>
  BY <1>12, Zenon DEF TaskStep, NextItem, TakeItem, StartTask, FinishTask, pools
<1>13. CASE UNCHANGED vars
  BY <1>11, <1>13, SMTT(60) DEF vars, pools
<1> QED
  BY <1>6, <1>7, <1>8, <1>9, <1>10, <1>11, <1>12, <1>13, SMTT(60) DEF Next, AppStep, Threads

\* Every step keeps the mutex with the thread that drives the pool, and a live pool.
LEMMA PoolNext == Typed /\ Typed' /\ PoolInv /\ TaskInv /\ [Next]_vars => PoolInv'
<1> SUFFICES ASSUME Typed, Typed', PoolInv, TaskInv, [Next]_vars PROVE PoolInv'
  OBVIOUS
<1> USE DEF Counting, Active
<1>0. NoOne \notin Apps /\ pc \in [Apps -> Labels]
  BY PoolAssumption, SMTT(60) DEF Typed
<1>17. (pool + Cardinality(Resetting) + (IF leak THEN 1 ELSE 0) <= MaxPools)'
  BY BoundNext, Zenon
\* A step that leaves the pool alone and neither starts nor ends a run.
<1>18. ASSUME UNCHANGED <<mutex, pool, alive, leak>>,
             \A b \in Apps : pc'[b] = "parallel" => pc[b] = "parallel" /\ call'[b].on = call[b].on,
             \A b \in Apps : pc'[b] \in Counting \cup {"replace"} => pc[b] \in Counting \cup {"replace"} \/ ~leak,
             \A b \in Apps : pc'[b] \in {"reset", "replace"} =>
               pc'[b] = pc[b] /\ call'[b].range = call[b].range
      PROVE  PoolInv'
  BY <1>17, <1>18, Zenon DEF PoolInv
<1>1. ASSUME NEW a \in Apps, Call(a) PROVE PoolInv'
  <2>1. UNCHANGED <<mutex, pool, alive, leak>>
    BY <1>1, Zenon DEF Call, pools
  <2> QED BY <1>1, <1>18, <2>1, CallEffect, ZenonT(60) DEF OnlyCall
<1>2. ASSUME NEW a \in Apps, Reset(a) PROVE PoolInv'
  <2>1. UNCHANGED <<mutex, pool, alive, leak>>
    BY <1>2, Zenon DEF Reset, pools
  <2> QED BY <1>2, <1>17, <2>1, ResetEffect DEF OnlyCall, PoolInv
<1>3. ASSUME NEW a \in Apps, Fork(a) PROVE PoolInv'
  BY <1>3, <1>17, Zenon DEF PoolInv, Fork
<1>4. ASSUME NEW a \in Apps, GetThreadpool(a) PROVE PoolInv'
  BY <1>4, <1>17, SMTT(60) DEF PoolInv, GetThreadpool
<1>5. ASSUME NEW a \in Apps, CountSlots(a) PROVE PoolInv'
  <2>1. UNCHANGED <<mutex, pool, alive, leak>> /\ ~leak
    BY <1>5, SMTT(60) DEF CountSlots, CanCount, pools
  <2> QED BY <1>5, <1>18, <2>1, CountEffect DEF OnlyCall
<1>6. ASSUME NEW a \in Apps, CompareCount(a) PROVE PoolInv'
  <2>1. /\ UNCHANGED <<mutex, pool, alive, leak, call>> /\ ~leak /\ pc[a] = "reset"
        /\ pc' = [pc EXCEPT ![a] = IF call[a].range.end \in {count[pool], 0} THEN "returned" ELSE "replace"]
    BY <1>6, SMTT(60) DEF CompareCount, CanCount, pools, Goto
  <2> QED BY <1>0, <1>17, <2>1, Zenon DEF PoolInv
<1>7. ASSUME NEW a \in Apps, Replace(a) PROVE PoolInv'
  <2>1. \A b \in Apps : pc[b] # "parallel"
    BY <1>0, <1>7, Zenon DEF PoolInv, Replace
  <2>2. leak' = FALSE /\ pool' \in alive'
    BY <1>7 DEF PoolInv, Replace
  <2> QED BY <1>7, <1>17, <2>1, <2>2, ReplaceEffect DEF PoolInv
<1>8. ASSUME NEW a \in Apps, Refuse(a) PROVE PoolInv'
  <2>1. UNCHANGED <<mutex, pool, alive, leak, call>> /\ pc' = [pc EXCEPT ![a] = "refused"]
    BY <1>8, Zenon DEF Refuse, pools, Goto
  <2> QED BY <1>0, <1>18, <2>1, Zenon
<1>9. ASSUME NEW a \in Apps, CalcTasks(a) PROVE PoolInv'
  <2>1. UNCHANGED <<mutex, pool, alive, leak>>
    BY <1>9, SMTT(60) DEF CalcTasks, pools
  <2> QED BY <1>9, <1>18, <2>1, CalcEffect DEF OnlyCall
<1>10. ASSUME NEW a \in Apps, RunSerially(a) PROVE PoolInv'
  <2>1. UNCHANGED <<mutex, pool, alive, leak>> /\ pc'[a] = "serial"
    BY <1>0, <1>10, SMTT(60) DEF RunSerially, pools, Goto
  <2> QED BY <1>10, <1>18, <2>1, RunEffect, Zenon DEF OnlyCall
<1>11. ASSUME NEW a \in Apps, RunInPool(a) PROVE PoolInv'
  <2>1. \A b \in Apps : pc[b] # "parallel"
    BY <1>0, <1>11, Zenon DEF PoolInv, RunInPool
  <2>2. UNCHANGED <<pool, alive, leak>>
    BY <1>11, Zenon DEF RunInPool, pools
  <2> QED BY <1>11, <1>17, <2>1, <2>2, RunEffect DEF PoolInv, OnlyCall
<1>12. ASSUME NEW t \in Threads, NEW a \in Apps, NEW i, StartTask(t, a, i) PROVE PoolInv'
  <2>1. UNCHANGED <<mutex, pool, alive, leak>>
    BY <1>12, SMTT(60) DEF StartTask, pools
  <2> QED BY <1>12, <1>18, <2>1, StartEffect, Zenon
<1>13. ASSUME NEW a \in Apps, RunReturns(a) PROVE PoolInv'
  <2>1. /\ UNCHANGED <<pool, alive, leak, call>> /\ pc' = [pc EXCEPT ![a] = "returned"]
        /\ mutex' = IF pc[a] = "parallel" THEN NoOne ELSE mutex
    BY <1>13, SMTT(60) DEF RunReturns, pools, Goto
  <2> QED BY <1>0, <1>17, <2>1, Zenon DEF PoolInv
<1>14. ASSUME NEW a \in Apps, Leave(a) PROVE PoolInv'
  <2>1. UNCHANGED <<mutex, pool, alive, leak>>
    BY <1>14, Zenon DEF Leave, pools
  <2> QED BY <1>14, <1>18, <2>1, LeaveEffect, Zenon DEF OnlyCall
<1>15. ASSUME NEW t \in Threads, FinishTask(t) PROVE PoolInv'
  <2>1. UNCHANGED <<mutex, pool, alive, leak>>
    BY <1>15, Zenon DEF FinishTask, pools
  <2> QED BY <1>15, <1>18, <2>1, FinishEffect, ZenonT(60)
<1>16. CASE UNCHANGED vars
  BY <1>16, <1>17, SMTT(60) DEF PoolInv, vars, pools
<1> QED
  BY <1>1, <1>2, <1>3, <1>4, <1>5, <1>6, <1>7, <1>8, <1>9, <1>10, <1>11, <1>12, <1>13, <1>14,
     <1>15, <1>16, SMTT(60), SMTT(60) DEF Next, AppStep, TaskStep, NextItem, TakeItem, Threads

\* Every step keeps the slots those of the pool, or records that it was resized; there are
\* no more tasks than slots.
LEMMA SlotNext == Typed /\ Typed' /\ PoolInv /\ TaskInv /\ SlotInv /\ [Next]_vars => SlotInv'
<1> SUFFICES ASSUME Typed, Typed', PoolInv, TaskInv, SlotInv, [Next]_vars PROVE SlotInv'
  OBVIOUS
<1> USE DEF Counting, Active
<1>0. pc \in [Apps -> Labels]
  BY SMTT(60) DEF Typed
\* A step that leaves the count of the slots alone.
<1>1. ASSUME UNCHANGED <<pool, count>>,
             \A b \in Apps : /\ call'[b].slots = call[b].slots /\ call'[b].resized = call[b].resized
                             /\ call'[b].num = call[b].num,
             \A b \in Apps : \/ pc'[b] = pc[b] \/ pc'[b] \in {"returned", "refused"}
                             \/ pc[b] = "idle" /\ pc'[b] \in {"size", "reset"}
                             \/ pc[b] = "reset" /\ pc'[b] = "replace"
                             \/ pc[b] = "run" /\ pc'[b] \in Active
      PROVE  SlotInv'
  BY <1>1 DEF SlotInv
<1>2. ASSUME NEW a \in Apps, Call(a) PROVE SlotInv'
  <2>1. UNCHANGED <<pool, count>>
    BY <1>2, Zenon DEF Call, pools
  <2> QED BY <1>1, <1>2, <2>1, CallEffect, ZenonT(60) DEF OnlyCall
<1>3. ASSUME NEW a \in Apps, Reset(a) PROVE SlotInv'
  <2>1. UNCHANGED <<pool, count>>
    BY <1>3, SMTT(60) DEF Reset, pools
  <2> QED BY <1>1, <1>3, <2>1, ResetEffect, Zenon DEF OnlyCall
<1>4. ASSUME NEW a \in Apps, Fork(a) PROVE SlotInv'
  BY <1>4, Zenon DEF SlotInv, Fork, NoCall
<1>5. ASSUME NEW a \in Apps, GetThreadpool(a) PROVE SlotInv'
  <2>1. \A b \in Apps : pc[b] \notin Counting
    BY <1>5, SMTT(60) DEF PoolInv, GetThreadpool
  <2> QED BY <1>5, <2>1, Zenon DEF SlotInv, GetThreadpool
<1>6. ASSUME NEW a \in Apps, CountSlots(a) PROVE SlotInv'
  <2>1. UNCHANGED <<pool, count>> /\ count[pool] > 0
    BY <1>6 DEF CountSlots, pools, Typed
  <2> QED BY <1>6, <2>1, CountEffect DEF SlotInv, OnlyCall
<1>7. ASSUME NEW a \in Apps, CompareCount(a) \/ Refuse(a) \/ RunReturns(a) PROVE SlotInv'
  <2>1. /\ UNCHANGED <<pool, count, call>>
        /\ \/ pc' = [pc EXCEPT ![a] = "returned"] \/ pc' = [pc EXCEPT ![a] = "refused"]
           \/ pc[a] = "reset" /\ pc' = [pc EXCEPT ![a] = "replace"]
    BY <1>7, SMTT(60) DEF CompareCount, Refuse, RunReturns, Goto, pools
  <2> QED BY <1>1, <1>0, <2>1, SMTT(60)
<1>8. ASSUME NEW a \in Apps, Replace(a) PROVE SlotInv'
  <2>1. \A b \in Apps : call[b].slots \in Nat
    BY SMTT(60) DEF Typed, CallType
  <2>2. ASSUME NEW b \in Apps
        PROVE  /\ pc[b] \in Counting => call'[b].slots > 0 /\ call'[b].resized
               /\ pc[b] \notin Counting \cup {"returned", "refused"} =>
                    call'[b].slots = 0 /\ ~call'[b].resized
    BY <1>8, <2>1, ReplaceEffect, SMTT(60) DEF SlotInv
  <2> QED BY <1>8, <2>2, ReplaceEffect DEF SlotInv
<1>9. ASSUME NEW a \in Apps, CalcTasks(a) PROVE SlotInv'
  <2>1. UNCHANGED <<pool, count>>
    BY <1>9, SMTT(60) DEF CalcTasks, pools
  <2> QED BY <1>9, <2>1, CalcEffect DEF SlotInv, OnlyCall
<1>10. ASSUME NEW a \in Apps, RunSerially(a) \/ RunInPool(a) PROVE SlotInv'
  <2>1. UNCHANGED <<pool, count>>
    BY <1>10, SMTT(60) DEF RunSerially, RunInPool, pools
  <2> QED BY <1>1, <1>10, <2>1, RunEffect DEF OnlyCall
<1>11. ASSUME NEW t \in Threads, NEW a \in Apps, NEW i, StartTask(t, a, i) PROVE SlotInv'
  <2>1. UNCHANGED <<pool, count>>
    BY <1>11, Zenon DEF StartTask, pools
  <2> QED BY <1>1, <1>11, <2>1, StartEffect, Zenon
<1>12. ASSUME NEW a \in Apps, Leave(a) PROVE SlotInv'
  <2>1. UNCHANGED <<pool, count>>
    BY <1>12, Zenon DEF Leave, pools
  <2> QED BY <1>12, <2>1, LeaveEffect, Zenon DEF SlotInv, OnlyCall
<1>13. ASSUME NEW t \in Threads, FinishTask(t) PROVE SlotInv'
  <2>1. UNCHANGED <<pool, count>>
    BY <1>13, ZenonT(60) DEF FinishTask, pools
  <2> QED BY <1>1, <1>13, <2>1, FinishEffect, ZenonT(60)
<1>14. CASE UNCHANGED vars
  BY <1>1, <1>14, Zenon DEF vars, pools
<1> QED
  BY <1>2, <1>3, <1>4, <1>5, <1>6, <1>7, <1>8, <1>9, <1>10, <1>11, <1>12,
     <1>13, <1>14, SMTT(60), SMTT(60) DEF Next, AppStep, TaskStep, NextItem, TakeItem, Threads
=============================================================================
