-------------------------- MODULE ThreadPoolProofs --------------------------
(***************************************************************************)
(* Proofs about ThreadPool: calls of run() are serialized on a live pool,  *)
(* concurrent tasks have their own slots, and parallel_for() processes     *)
(* every work item exactly once, for any number of threads, ranges and     *)
(* resets.                                                                 *)
(***************************************************************************)
EXTENDS ThreadPoolInvariant

-----------------------------------------------------------------------------
(* The tasks *)

\* A task that a thread takes is nobody else's.
LEMMA TaskStart ==
  ASSUME Typed, TaskInv, NEW t \in Threads, NEW a \in Apps, NEW i \in call[a].todo,
         pc[a] \in Active, StartTask(t, a, i)
  PROVE  TaskInv'
<1>0. NoTask.of \notin Apps
  BY PoolAssumption, Zenon DEF NoTask
<1>1. /\ \A b \in Apps : call'[b].num = call[b].num
      /\ call'[a].todo = call[a].todo \ {i} /\ \A b \in Apps : b # a => call'[b].todo = call[b].todo
  BY StartEffect
<1>2. task[t] = NoTask /\ task'[t].of = a /\ task'[t].id = i
  BY StartEffect
<1>3. \A u \in Threads : u # t => task'[u] = task[u]
  BY StartEffect, Zenon
<1>4. \A u \in Threads : task'[u] # NoTask => task'[u].of \in Apps
  BY <1>2, <1>3, Zenon DEF TaskInv
<1>5. i \in 0 .. call[a].num - 1
  BY Zenon DEF TaskInv
<1>6. ASSUME NEW u \in Threads, NEW b \in Apps, task'[u].of = b
      PROVE  /\ pc'[b] \in Active
             /\ task'[u].id \in 0 .. call'[b].num - 1 /\ task'[u].id \notin call'[b].todo
             /\ \A v \in Threads : v # u /\ task'[v].of = b => task'[v].id # task'[u].id
  <2>0. pc' = pc
    BY Zenon DEF StartTask
  <2>1. CASE u = t
    <3>1. b = a BY <1>2, <1>6, <2>1, Zenon
    <3> QED BY <1>1, <1>2, <1>3, <1>5, <2>0, <2>1, <3>1, SMTT(60) DEF TaskInv, Works
  <2>2. CASE u # t
    <3>1. task[u].of = b /\ task'[u] = task[u]
      BY <1>3, <1>6, <2>2, Zenon
    <3>2. /\ pc[b] \in Active /\ task[u].id \in 0 .. call[b].num - 1 /\ task[u].id \notin call[b].todo
          /\ \A v \in Threads : v # u /\ task[v].of = b => task[v].id # task[u].id
      BY <3>1, Zenon DEF TaskInv, Works
    <3>3. ASSUME NEW v \in Threads, v # u, task'[v].of = b PROVE task'[v].id # task'[u].id
      BY <1>2, <1>3, <3>1, <3>2, <3>3, Zenon
    <3> QED BY <1>1, <2>0, <3>1, <3>2, <3>3, Zenon
  <2> QED BY <2>1, <2>2, Zenon
<1>7. \A b \in Apps : call'[b].todo \subseteq 0 .. call'[b].num - 1
  BY <1>1, Zenon DEF TaskInv
<1>8. \A b \in Apps : pc'[b] \notin Active => call'[b].todo = {}
  BY <1>1, Zenon DEF TaskInv, StartTask
<1> QED BY <1>4, <1>6, <1>7, <1>8, Zenon DEF TaskInv, Works

\* Every step keeps the tasks of a call distinct.
LEMMA TaskNext == Typed /\ Typed' /\ TaskInv /\ [Next]_vars => TaskInv'
<1> SUFFICES ASSUME Typed, Typed', TaskInv, [Next]_vars PROVE TaskInv'
  OBVIOUS
<1>0. NoTask.of \notin Apps
  BY PoolAssumption, Zenon DEF NoTask
\* A step of a call that has no tasks, and of no other call.
<1>1. ASSUME NEW a \in Apps, pc[a] \notin Active \/ \A t \in Threads : task[t].of # a,
             \A b \in Apps : b # a => pc'[b] = pc[b] /\ call'[b].num = call[b].num /\ call'[b].todo = call[b].todo,
             call'[a].todo \subseteq 0 .. call'[a].num - 1, pc'[a] \notin Active => call'[a].todo = {},
             task' = task
      PROVE  TaskInv'
  <2>1. \A t \in Threads : task[t].of # a
    BY <1>1, Zenon DEF TaskInv, Works
  <2> QED BY <1>1, <2>1 DEF TaskInv, Works
<1>2. pc \in [Apps -> Labels]
  BY Zenon DEF Typed
<1>3. ASSUME NEW a \in Apps, Call(a) PROVE TaskInv'
  <2>1. task' = task
    BY <1>3, Zenon DEF Call
  <2>2. /\ \A b \in Apps : b # a => pc'[b] = pc[b] /\ call'[b] = call[b]
        /\ pc[a] = "idle" /\ call'[a].todo = call[a].todo
    BY <1>3, CallEffect, Zenon DEF OnlyCall
  <2>3. pc[a] \notin Active /\ call'[a].todo = {}
    BY <2>2, Zenon DEF TaskInv, Active
  <2> QED BY <1>1, <2>1, <2>2, <2>3, Zenon
<1>4. ASSUME NEW a \in Apps, Reset(a) PROVE TaskInv'
  <2>1. task' = task
    BY <1>4, Zenon DEF Reset
  <2> QED BY <1>1, <1>4, <2>1, ResetEffect DEF TaskInv, OnlyCall, Active
<1>5. ASSUME NEW a \in Apps, Fork(a) PROVE TaskInv'
  BY <1>0, <1>5, Zenon DEF TaskInv, Works, Fork, NoCall
<1>6. ASSUME UNCHANGED <<pc, call, task>> PROVE TaskInv'
  BY <1>6 DEF TaskInv, Works
<1>7. ASSUME NEW a \in Apps, CountSlots(a) PROVE TaskInv'
  <2>1. task' = task
    BY <1>7, Zenon DEF CountSlots
  <2> QED BY <1>1, <1>7, <2>1, CountEffect DEF TaskInv, OnlyCall, Active
<1>8. ASSUME NEW a \in Apps, CompareCount(a) \/ Refuse(a) PROVE TaskInv'
  <2>1. /\ UNCHANGED <<call, task>> /\ pc[a] \in {"reset", "calc"}
        /\ \A b \in Apps : b # a => pc'[b] = pc[b]
    BY <1>2, <1>8, SMTT(60) DEF CompareCount, Refuse, Goto
  <2> QED BY <1>1, <2>1 DEF TaskInv, Active
<1>9. ASSUME NEW a \in Apps, Replace(a) PROVE TaskInv'
  <2>1. task' = task
    BY <1>9, SMTT(60) DEF Replace
  <2> QED BY <1>1, <1>9, <2>1, ReplaceEffect DEF TaskInv, Active
<1>10. ASSUME NEW a \in Apps, CalcTasks(a) PROVE TaskInv'
  <2>1. task' = task
    BY <1>10, Zenon DEF CalcTasks
  <2> QED BY <1>1, <1>10, <2>1, CalcEffect DEF TaskInv, OnlyCall, Active
<1>11. ASSUME NEW a \in Apps, RunSerially(a) \/ RunInPool(a) PROVE TaskInv'
  <2>1. task' = task
    BY <1>11, Zenon DEF RunSerially, RunInPool
  <2> QED BY <1>1, <1>11, <2>1, RunEffect, ZenonT(60) DEF OnlyCall, Active
<1>12. ASSUME NEW a \in Apps, RunReturns(a) PROVE TaskInv'
  <2>1. /\ UNCHANGED <<call, task>> /\ call[a].todo = {} /\ \A t \in Threads : task[t].of # a
        /\ \A b \in Apps : b # a => pc'[b] = pc[b]
    BY <1>2, <1>12, Zenon DEF RunReturns, Goto
  <2> QED BY <1>1, <2>1, Zenon
<1>13. ASSUME NEW a \in Apps, Leave(a) PROVE TaskInv'
  <2>1. task' = task
    BY <1>13, Zenon DEF Leave
  <2> QED BY <1>1, <1>13, <2>1, LeaveEffect, Zenon DEF OnlyCall, Active
<1>14. ASSUME NEW a \in Apps, NextItem(a) PROVE TaskInv'
  BY <1>14, TaskStart, Zenon DEF NextItem, Active, Threads
<1>15. ASSUME NEW t \in Threads, TakeItem(t) PROVE TaskInv'
  BY <1>15, TaskStart, Zenon DEF TakeItem, Active
<1>16. ASSUME NEW t \in Threads, FinishTask(t) PROVE TaskInv'
  <2>1. /\ \A b \in Apps : call'[b].todo = call[b].todo /\ call'[b].num = call[b].num
        /\ task'[t] = NoTask /\ \A u \in Threads : u # t => task'[u] = task[u]
        /\ pc' = pc
    BY <1>16, FinishEffect, ZenonT(60)
  <2> QED BY <1>0, <2>1 DEF TaskInv, Works
<1>17. CASE UNCHANGED vars
  BY <1>6, <1>17, Zenon DEF vars
<1>18. ASSUME NEW a \in Apps, GetThreadpool(a) PROVE TaskInv'
  BY <1>6, <1>18, SMTT(60) DEF GetThreadpool
<1> QED
  BY <1>3, <1>4, <1>5, <1>7, <1>8, <1>9, <1>10, <1>11, <1>12, <1>13, <1>14,
     <1>15, <1>16, <1>17, <1>18, SMTT(60), SMTT(60) DEF Next, AppStep, TaskStep

-----------------------------------------------------------------------------
(* What was processed *)

\* Nothing that the invariant reads of a call changed.
LEMMA DoneFrame ==
  ASSUME NEW b \in Apps, DoneAt(b), pc'[b] = pc[b],
         call'[b].range = call[b].range, call'[b].num = call[b].num, call'[b].size = call[b].size,
         call'[b].todo = call[b].todo, call'[b].done = call[b].done,
         \A t \in Threads : task'[t].of = b <=> task[t].of = b,
         \A t \in Threads : task[t].of = b => task'[t].id = task[t].id
  PROVE  DoneAt(b)'
<1>1. \A j : Chunk(call[b], j)' = Chunk(call[b], j)
  BY Zenon DEF Chunk
<1>2. Tiles(call[b])' <=> Tiles(call[b])
  BY <1>1, Zenon DEF Tiles
<1>3. \A j : Pending(b, j)' <=> Pending(b, j)
  BY Zenon DEF Pending, Works
<1> QED BY <1>1, <1>2, <1>3, SMTT(60) DEF DoneAt

\* Taking a task processes nothing.
LEMMA DoneStart ==
  ASSUME Typed, DoneInv, NEW t \in Threads, NEW a \in Apps, NEW i \in call[a].todo,
         NoTask.of \notin Apps, pc[a] \in Active, StartTask(t, a, i)
  PROVE  DoneInv'
<1>1. \A b \in Apps : /\ call'[b].range = call[b].range /\ call'[b].num = call[b].num
                      /\ call'[b].size = call[b].size /\ call'[b].done = call[b].done
  BY StartEffect, Zenon
<1>2. call'[a].todo = call[a].todo \ {i} /\ \A b \in Apps : b # a => call'[b].todo = call[b].todo
  BY StartEffect
<1>3. /\ task[t] = NoTask /\ task'[t].of = a /\ task'[t].id = i /\ pc' = pc
      /\ \A u \in Threads : u # t => task'[u] = task[u]
  BY StartEffect
<1>4. ASSUME NEW b \in Apps, b # a PROVE DoneAt(b)'
  <2>1. DoneAt(b)
    BY Zenon DEF DoneInv
  <2>2. \A u \in Threads : task'[u].of = b <=> task[u].of = b
    BY <1>3, <1>4, Zenon
  <2>3. \A u \in Threads : task[u].of = b => task'[u].id = task[u].id
    BY <1>3, SMTT(60)
  <2> QED BY <1>1, <1>2, <1>3, <1>4, <2>1, <2>2, <2>3, DoneFrame, SMTT(60)
<1>5. DoneAt(a)'
  <2>1. \A j : Chunk(call[a], j)' = Chunk(call[a], j)
    BY <1>1, Zenon DEF Chunk
  <2>2. Tiles(call[a])' <=> Tiles(call[a])
    BY <1>1, <2>1, Zenon DEF Tiles
  <2>3. \A j : Pending(a, j)' <=> Pending(a, j)
    BY <1>2, <1>3 DEF Pending, Works
  <2>4. DoneAt(a)
    BY Zenon DEF DoneInv
  <2>5. pc'[a] = pc[a] /\ pc[a] \in Active
    BY <1>3, Zenon
  <2>6. DOMAIN call'[a].done = Items(call'[a].range) /\ Tiles(call[a])'
    BY <1>1, <2>2, <2>4, <2>5, SMTT(60) DEF DoneAt
  <2>7. \A x \in DOMAIN call'[a].done : \A j \in 0 .. call'[a].num - 1 :
          x \in Chunk(call[a], j)' => call'[a].done[x] = (IF Pending(a, j)' THEN 0 ELSE 1)
    BY <1>1, <2>1, <2>3, <2>4, <2>5, Zenon DEF DoneAt
  <2> QED BY <2>5, <2>6, <2>7, Zenon DEF DoneAt, Active
<1> QED BY <1>4, <1>5, Zenon DEF DoneInv

\* Finishing a task processes the items of its chunk, which nobody had processed.
LEMMA DoneFinish ==
  ASSUME Typed, TaskInv, DoneInv, NoTask.of \notin Apps, NEW t \in Threads, FinishTask(t)
  PROVE  DoneInv'
<1>0. PICK a \in Apps, k \in Nat :
        /\ a = task[t].of /\ k = task[t].id
        /\ pc' = pc /\ task'[t] = NoTask /\ \A u \in Threads : u # t => task'[u] = task[u]
        /\ \A b \in Apps :
             /\ call'[b].range = call[b].range /\ call'[b].slots = call[b].slots
             /\ call'[b].num = call[b].num /\ call'[b].size = call[b].size /\ call'[b].on = call[b].on
             /\ call'[b].todo = call[b].todo /\ call'[b].resized = call[b].resized
             /\ b # a => call'[b].done = call[b].done
        /\ call'[a].done = [i \in DOMAIN call[a].done |->
                              IF i \in Chunk(call[a], k) THEN call[a].done[i] + 1 ELSE call[a].done[i]]
  BY FinishEffect, ZenonT(60)
<1> DEFINE done == call[a].done
<1>1. pc[a] \in Active /\ k \in 0 .. call[a].num - 1 /\ k \notin call[a].todo
  BY <1>0, SMTT(60) DEF TaskInv, Works
<1>2. \A u \in Threads : u # t /\ task[u].of = a => task[u].id # k
  BY <1>0 DEF TaskInv, Works
<1>3. /\ task'[t] = NoTask /\ pc' = pc
      /\ \A u \in Threads : u # t => task'[u] = task[u]
  BY <1>0, Zenon
<1>4. \A b \in Apps : /\ call'[b].range = call[b].range /\ call'[b].num = call[b].num
                      /\ call'[b].size = call[b].size /\ call'[b].todo = call[b].todo
                      /\ b # a => call'[b].done = call[b].done
  BY <1>0, Zenon
<1>5. /\ DOMAIN call'[a].done = DOMAIN done
      /\ \A i \in DOMAIN done :
           call'[a].done[i] = IF i \in Chunk(call[a], k) THEN done[i] + 1 ELSE done[i]
  BY <1>0, Zenon
<1>6. ASSUME NEW b \in Apps, b # a PROVE DoneAt(b)'
  <2>1. DoneAt(b)
    BY SMTT(60) DEF DoneInv
  <2>2. \A u \in Threads : task'[u].of = b <=> task[u].of = b
    BY <1>0, <1>3, <1>6, SMTT(60)
  <2>3. \A u \in Threads : task[u].of = b => task'[u].id = task[u].id
    BY <1>0, <1>3, <1>6, SMTT(60)
  <2> QED BY <1>3, <1>4, <1>6, <2>1, <2>2, <2>3, DoneFrame, SMTT(60)
<1>7. DoneAt(a)'
  <2>0. DoneAt(a)
    BY <1>1, SMTT(60) DEF DoneInv
  <2>1. \A j : Chunk(call[a], j)' = Chunk(call[a], j)
    BY <1>1, <1>4, SMTT(60) DEF Chunk
  <2>2. Tiles(call[a]) /\ Tiles(call[a])'
    BY <1>1, <1>4, <2>0, <2>1, SMTT(60) DEF Tiles, DoneAt
  <2>3. Pending(a, k) /\ ~Pending(a, k)'
    BY <1>0, <1>1, <1>2, <1>3, <1>4, SMTT(60) DEF Pending, Works
  <2>4. \A j : j # k => (Pending(a, j)' <=> Pending(a, j))
    BY <1>0, <1>3, <1>4, SMTT(60) DEF Pending, Works
  <2>5. ASSUME NEW i \in DOMAIN done, NEW j \in 0 .. call[a].num - 1, i \in Chunk(call[a], j)
        PROVE  call'[a].done[i] = (IF Pending(a, j)' THEN 0 ELSE 1)
    <3>1. done[i] = (IF Pending(a, j) THEN 0 ELSE 1)
      BY <1>1, <2>0, <2>5, SMTT(60) DEF DoneAt
    <3>2. CASE j = k
      BY <1>5, <2>3, <2>5, <3>1, <3>2, SMTT(60)
    <3>3. CASE j # k
      <4>1. i \notin Chunk(call[a], k)
        BY <1>1, <2>2, <2>5, <3>3, SMTT(60) DEF Tiles
      <4> QED BY <1>5, <2>4, <3>1, <3>3, <4>1, SMTT(60)
    <3> QED BY <3>2, <3>3, SMTT(60)
  <2>6. pc'[a] \in Active
    BY <1>1, <1>3, SMTT(60)
  <2>7. DOMAIN call'[a].done = Items(call'[a].range)
    BY <1>1, <1>4, <1>5, <2>0, SMTT(60) DEF DoneAt
  <2>8. \A i \in DOMAIN call'[a].done : \A j \in 0 .. call'[a].num - 1 :
          i \in Chunk(call[a], j)' => call'[a].done[i] = (IF Pending(a, j)' THEN 0 ELSE 1)
    BY <1>1, <1>4, <1>5, <2>1, <2>5, SMTT(60)
  <2> HIDE DEF done
  <2> QED BY <2>2, <2>6, <2>7, <2>8, SMTT(60) DEF DoneAt, Active
<1> QED BY <1>6, <1>7, Zenon DEF DoneInv

\* Every step keeps the tally of the items that were processed.
LEMMA DoneNext == Typed /\ Typed' /\ TaskInv /\ DoneInv /\ [Next]_vars => DoneInv'
<1> SUFFICES ASSUME Typed, Typed', TaskInv, DoneInv, [Next]_vars PROVE DoneInv'
  OBVIOUS
<1>0. NoTask.of \notin Apps
  BY PoolAssumption, SMTT(60) DEF NoTask
\* A step of one call.
<1>1. ASSUME NEW a \in Apps, task' = task, DoneAt(a)',
             \A b \in Apps : b # a =>
               /\ pc'[b] = pc[b]
               /\ call'[b].range = call[b].range /\ call'[b].num = call[b].num
               /\ call'[b].size = call[b].size /\ call'[b].todo = call[b].todo
               /\ call'[b].done = call[b].done
      PROVE  DoneInv'
  <2>1. ASSUME NEW b \in Apps, b # a PROVE DoneAt(b)'
    BY <1>1, <2>1, DoneFrame, Zenon DEF DoneInv
  <2> QED BY <1>1, <2>1, Zenon DEF DoneInv
<1>2. pc \in [Apps -> Labels]
  BY Zenon DEF Typed
<1>3. ASSUME NEW a \in Apps, Call(a) PROVE DoneInv'
  <2>1. task' = task
    BY <1>3, Zenon DEF Call
  <2>2. DoneAt(a)'
    BY <1>3, CallEffect, ZenonT(60) DEF DoneAt, Active
  <2> QED BY <1>1, <1>3, <2>1, <2>2, CallEffect, ZenonT(60) DEF OnlyCall
<1>4. ASSUME NEW a \in Apps, Reset(a) PROVE DoneInv'
  <2>1. task' = task
    BY <1>4, Zenon DEF Reset
  <2>2. DoneAt(a)'
    BY <1>4, ResetEffect, SMTT(60) DEF DoneAt, DoneInv, Active
  <2> QED BY <1>1, <1>4, <2>1, <2>2, ResetEffect DEF OnlyCall
<1>5. ASSUME NEW a \in Apps, Fork(a) PROVE DoneInv'
  <2>1. \A b \in Apps : DOMAIN call'[b].done = {} /\ pc'[b] \in {"idle", "gone"}
    BY <1>5, Zenon DEF Fork, NoCall
  <2> QED BY <2>1, Zenon DEF DoneInv, DoneAt, Active
<1>6. ASSUME UNCHANGED <<pc, call, task>> PROVE DoneInv'
  BY <1>6, DoneFrame, SMTT(60) DEF DoneInv
<1>7. ASSUME NEW a \in Apps, CountSlots(a) PROVE DoneInv'
  <2>1. task' = task
    BY <1>7, SMTT(60) DEF CountSlots
  <2>2. DoneAt(a)'
    BY <1>7, CountEffect DEF DoneAt, DoneInv, Active
  <2> QED BY <1>1, <1>7, <2>1, <2>2, CountEffect DEF OnlyCall
<1>8. ASSUME NEW a \in Apps, CompareCount(a) \/ Refuse(a) PROVE DoneInv'
  <2>1. /\ call' = call /\ task' = task /\ \A b \in Apps : b # a => pc'[b] = pc[b]
        /\ \/ pc[a] = "reset" /\ pc'[a] \in {"returned", "replace"}
           \/ pc'[a] = "refused"
    BY <1>2, <1>8, SMTT(60) DEF CompareCount, Refuse, Goto
  <2>2. DoneAt(a)'
    BY <2>1, SMTT(60) DEF DoneAt, DoneInv, Active
  <2> QED BY <1>1, <2>1, <2>2, SMTT(60)
<1>9. ASSUME NEW a \in Apps, Replace(a) PROVE DoneInv'
  <2>1. task' = task
    BY <1>9, SMTT(60) DEF Replace
  <2>2. DoneAt(a)'
    BY <1>9, ReplaceEffect, SMTT(60) DEF DoneAt, DoneInv, Active
  <2> QED BY <1>1, <1>9, <2>1, <2>2, ReplaceEffect
<1>10. ASSUME NEW a \in Apps, CalcTasks(a) PROVE DoneInv'
  <2>1. task' = task
    BY <1>10, SMTT(60) DEF CalcTasks
  <2>2. DoneAt(a)'
    BY <1>10, CalcEffect, SMTT(60) DEF DoneAt, DoneInv, Active
  <2> QED BY <1>1, <1>10, <2>1, <2>2, CalcEffect DEF OnlyCall
<1>11. ASSUME NEW a \in Apps, RunSerially(a) \/ RunInPool(a) PROVE DoneInv'
  <2>1. task' = task
    BY <1>11, SMTT(60) DEF RunSerially, RunInPool
  <2>2. /\ call'[a].range = call[a].range /\ call'[a].num = call[a].num
        /\ call'[a].size = call[a].size /\ call'[a].done = call[a].done
        /\ call'[a].todo = 0 .. call[a].num - 1
        /\ pc[a] = "run" /\ pc'[a] \in Active
    BY <1>11, RunEffect, SMTT(60)
  <2>3. \A j : Chunk(call[a], j)' = Chunk(call[a], j)
    BY <2>2, SMTT(60) DEF Chunk
  <2>4. Tiles(call[a])'
    <3>1. Tiles(call[a])
      BY <2>2, Zenon DEF DoneInv, DoneAt
    <3> QED BY <2>2, <2>3, <3>1, SMTT(60) DEF Tiles
  <2>5. \A j \in 0 .. call'[a].num - 1 : Pending(a, j)'
    BY <2>2, SMTT(60) DEF Pending
  <2>6. DOMAIN call'[a].done = Items(call'[a].range) /\ \A i \in DOMAIN call'[a].done : call'[a].done[i] = 0
    BY <2>2, SMTT(60) DEF DoneAt, DoneInv
  <2>7. DoneAt(a)'
    BY <2>2, <2>4, <2>5, <2>6, SMTT(60) DEF DoneAt, Active
  <2> QED BY <1>1, <1>11, <2>1, <2>7, RunEffect, Zenon DEF OnlyCall
<1>12. ASSUME NEW a \in Apps, RunReturns(a) PROVE DoneInv'
  <2>1. /\ pc[a] \in Active /\ pc'[a] = "returned" /\ call' = call /\ task' = task
        /\ \A b \in Apps : b # a => pc'[b] = pc[b]
    BY <1>2, <1>12, SMTT(60) DEF RunReturns, Active, Goto
  <2>2. \A j : ~Pending(a, j)
    BY <1>12, SMTT(60) DEF Pending, Works, RunReturns
  <2>3. \A i \in DOMAIN call[a].done : call[a].done[i] = 1
    <3> TAKE i \in DOMAIN call[a].done
    <3>1. i \in Items(call[a].range) /\ Tiles(call[a])
      BY <2>1, Zenon DEF DoneInv, DoneAt
    <3>2. PICK j \in 0 .. call[a].num - 1 : i \in Chunk(call[a], j)
      BY <3>1, Zenon DEF Tiles
    <3> QED BY <2>1, <2>2, <3>2, Zenon DEF DoneInv, DoneAt
  <2>4. DoneAt(a)'
    BY <2>1, <2>3, Zenon DEF DoneAt, Active
  <2> QED BY <1>1, <2>1, <2>4, SMTT(60)
<1>13. ASSUME NEW a \in Apps, Leave(a) PROVE DoneInv'
  <2>1. task' = task
    BY <1>13, Zenon DEF Leave
  <2>2. DoneAt(a)'
    BY <1>13, LeaveEffect, ZenonT(60) DEF DoneAt, Active
  <2> QED BY <1>1, <1>13, <2>1, <2>2, LeaveEffect, Zenon DEF OnlyCall
<1>14. ASSUME NEW a \in Apps, NextItem(a) PROVE DoneInv'
  BY <1>0, <1>14, DoneStart, Zenon DEF NextItem, Active, Threads
<1>15. ASSUME NEW t \in Threads, TakeItem(t) PROVE DoneInv'
  BY <1>0, <1>15, DoneStart, Zenon DEF TakeItem, Active
<1>16. ASSUME NEW t \in Threads, FinishTask(t) PROVE DoneInv'
  BY <1>0, <1>16, DoneFinish, Zenon
<1>17. CASE UNCHANGED vars
  BY <1>6, <1>17, Zenon DEF vars
<1>18. ASSUME NEW a \in Apps, GetThreadpool(a) PROVE DoneInv'
  BY <1>6, <1>18, Zenon DEF GetThreadpool
<1> QED
  BY <1>3, <1>4, <1>5, <1>7, <1>8, <1>9, <1>10, <1>11, <1>12, <1>13, <1>14,
     <1>15, <1>16, <1>17, <1>18, SMTT(60), SMTT(60) DEF Next, AppStep, TaskStep

-----------------------------------------------------------------------------
(* Theorems *)

\* The invariant holds initially ...
LEMMA InvariantInit == Init => IInv
<1> SUFFICES ASSUME Init PROVE IInv
  OBVIOUS
<1>1. Typed
  BY TypedInit, Zenon
<1>2. PoolInv
  <2>1. Resetting = {}
    BY Zenon DEF Init, Resetting
  <2>2. Cardinality(Resetting) = 0
    BY <2>1, FS_EmptySet, Zenon
  <2>3. pool + Cardinality(Resetting) + (IF leak THEN 1 ELSE 0) <= MaxPools
    BY <2>2, PoolAssumption DEF Init
  <2> QED BY <2>3, Zenon DEF Init, PoolInv, Counting, Active
<1>3. SlotInv
  BY Zenon DEF Init, SlotInv, NoCall, Counting, Active
<1>4. TaskInv
  BY PoolAssumption, Zenon DEF Init, TaskInv, Works, NoCall, NoTask
<1>5. DoneInv
  BY Zenon DEF Init, DoneInv, DoneAt, NoCall, Active
<1> QED BY <1>1, <1>2, <1>3, <1>4, <1>5, Zenon DEF IInv

\* ... every step keeps it ...
LEMMA InvariantNext == IInv /\ [Next]_vars => IInv'
BY TypedNext, PoolNext, SlotNext, TaskNext, DoneNext, Zenon DEF IInv

\* ... so it always holds.
LEMMA InvariantAlways == Spec => []IInv
<1>1. Init => IInv
  BY InvariantInit, Zenon
<1>2. IInv /\ [Next]_vars => IInv'
  BY InvariantNext, Zenon
<1> QED BY <1>1, <1>2, PTL DEF Spec

\* Every variable keeps its type: no step asks for a pthreadpool past those that
\* were created, and none has zero threads.
THEOREM TypeCorrect == Spec => []TypeOK
<1>1. IInv => TypeOK
  <2> SUFFICES ASSUME Typed PROVE TypeOK
    BY SMTT(60) DEF IInv
  <2>1. ASSUME NEW a \in Apps
        PROVE  /\ DOMAIN call[a] = DOMAIN NoCall
               /\ call[a].range \in [begin : Int, end : Int, grain : Int]
               /\ call[a].slots \in Nat /\ call[a].num \in Int /\ call[a].size \in Int
               /\ call[a].on \in 1 .. MaxPools /\ call[a].todo \subseteq Nat
               /\ call[a].resized \in BOOLEAN
    BY Zenon DEF Typed, CallType, RangeType, NoCall
  <2>2. ASSUME NEW a \in Apps, NEW i \in DOMAIN call[a].done PROVE call[a].done[i] \in Nat
    <3>1. PICK S \in SUBSET Int : call[a].done \in [S -> Nat]
      <4>1. call[a].done \in Tallies
        BY Zenon DEF Typed, CallType
      <4> QED BY <4>1, Zenon DEF Tallies
    <3> QED BY <3>1, <2>2, Zenon
  <2> QED BY <2>1, <2>2, Zenon DEF Typed, TypeOK, TaskType, Labels
<1> QED BY <1>1, InvariantAlways, PTL

\* parallel_for() processes every work item exactly once before it returns true,
\* for any range, grain size and number of threads, with tasks taken in any order
\* by the caller and the workers, and with the pool replaced or the process forked
\* between the count of the threads and the run.
THEOREM EveryItemOnce == Spec => []ProcessedOnce
<1>1. IInv => ProcessedOnce
  BY Zenon DEF IInv, DoneInv, DoneAt, ProcessedOnce
<1> QED BY <1>1, InvariantAlways, PTL

\* Two calls of run() without a guard never overlap, and the pool that one drives
\* is the current one and has its threads until it returns: a reset waits for the
\* mutex, and a child process makes a pool of its own first.
THEOREM RunsOnLivePool == Spec => []SerializedOnLivePool
<1>1. IInv => SerializedOnLivePool
  BY Zenon DEF IInv, PoolInv, SerializedOnLivePool, Counting, Active
<1> QED BY <1>1, InvariantAlways, PTL

\* Tasks that run at the same time for one call have different thread numbers, each
\* below the number of slots the caller counted, unless the pool was resized since.
THEOREM SlotsOwned == Spec => []OwnSlot
<1>1. IInv => OwnSlot
  <2> SUFFICES ASSUME IInv, NEW t \in Threads, task[t] # NoTask
               PROVE  /\ \A u \in Threads : u # t /\ task[u].of = task[t].of => task[u].id # task[t].id
                      /\ ~call[task[t].of].resized => task[t].id < call[task[t].of].slots
    BY Zenon DEF OwnSlot
  <2>1. PICK a \in Apps : a = task[t].of
    BY Zenon DEF IInv, TaskInv
  <2>2. /\ pc[a] \in Active /\ task[t].id \in 0 .. call[a].num - 1
        /\ \A u \in Threads : u # t /\ task[u].of = a => task[u].id # task[t].id
    BY <2>1, Zenon DEF IInv, TaskInv, Works
  <2>3. ~call[a].resized => call[a].num <= call[a].slots
    BY <2>2, Zenon DEF IInv, SlotInv, Counting, Active
  <2>4. call[a].num \in Int /\ call[a].slots \in Nat
    BY Zenon DEF IInv, Typed, CallType
  <2> QED BY <2>1, <2>2, <2>3, <2>4
<1> QED BY <1>1, InvariantAlways, PTL
=============================================================================
