------------------------- MODULE AssetManagerProofs -------------------------
(***************************************************************************)
(* The theorems about AssetManager: the database and the directory         *)
(* implement a cache, only blocks that remove assets drop them, and the    *)
(* size that compaction goes by is never less than what the assets weigh.  *)
(***************************************************************************)
EXTENDS AssetManagerInvariant

(* The queue *)

\* Every step leaves a queue of blocks: one action at a time.
LEMMA QueueStep == ASSUME IInv, [Next]_vars PROVE Blocks(queue')
<1>1. Blocks(queue)
  BY Zenon DEF IInv, Types
<1>2. queue # <<>> => IsBlock(Head(queue)) /\ Blocks(Tail(queue))
  BY <1>1, FirstBlock, Zenon
<1>3. CASE Queue
  <2>1. CASE Finish /\ queue # <<>>
    BY <1>2, <2>1, Zenon DEF Finish
  <2>2. CASE RunStore \/ RunLookup \/ RunRemove \/ RunRecent \/ RunPurge \/ CompactReturns
    BY <2>1, <2>2, Zenon DEF RunStore, RunLookup, RunRemove, RunRecent, RunPurge, CompactReturns, Running
  <2>3. CASE ChooseVictims
    <3>1. queue # <<>> /\ Head(queue).op = "compact"
      BY <2>3, Zenon DEF ChooseVictims, Running
    <3>2. \/ Finish
          \/ \E v : queue' = <<[Head(queue) EXCEPT !.chosen = TRUE, !.victims = v]>> \o Tail(queue)
      BY <2>3, Zenon DEF ChooseVictims
    <3>3. ASSUME NEW v PROVE Blocks(<<[Head(queue) EXCEPT !.chosen = TRUE, !.victims = v]>> \o Tail(queue))
      <4>1. PICK b : b = [Head(queue) EXCEPT !.chosen = TRUE, !.victims = v]
        BY SMTT(60)
      <4>2. IsBlock(b)
        BY <1>2, <3>1, <4>1, ChangedBlock, Zenon
      <4>3. Blocks(<<b>>)
        BY <4>2, OneBlock, Zenon
      <4>4. Blocks(<<b>> \o Tail(queue))
        BY <1>2, <3>1, <4>3, JoinedBlocks, Zenon
      <4> QED BY <4>1, <4>4, Zenon
    <3> QED BY <2>1, <3>1, <3>2, <3>3, ZenonT(60)
  <2>4. CASE RemoveVictim
    <3>1. queue # <<>> /\ Head(queue).op = "compact" /\ queue' = [queue EXCEPT ![1].victims = Tail(@)]
      BY <2>4, Zenon DEF RemoveVictim, Running
    <3>2. PICK b : b = [queue[1] EXCEPT !.victims = Tail(@)]
      BY Zenon
    <3>3. queue[1] = Head(queue) /\ queue' = [queue EXCEPT ![1] = b]
      <4>1. PICK S : queue \in Seq(S)
        BY <1>1, Zenon DEF Blocks
      <4> QED BY <3>1, <3>2, <4>1
    <3>4. IsBlock(b)
      BY <1>2, <3>1, <3>2, <3>3, ChangedBlock, Zenon
    <3>5. Blocks([queue EXCEPT ![1] = b])
      BY <1>1, <3>1, <3>4, FirstChanges, Zenon
    <3> QED BY <3>3, <3>5, Zenon
  <2> QED BY <1>3, <2>2, <2>3, <2>4, Zenon DEF Queue
<1>4. CASE removeFilesInTrashDirectory
  BY <1>1, <1>4, Zenon DEF removeFilesInTrashDirectory
<1>5. CASE Crash
  <2>1. queue' = <<>>
    BY <1>5, Zenon DEF Crash
  <2>2. IsBlock(Block("remove", NoOne, NoOne))
    BY NewBlock, Zenon
  <2>3. Blocks(<<>>)
    BY <2>2, OneBlock, Zenon
  <2> QED BY <2>1, <2>3, Zenon
<1>6. CASE Restart
  BY <1>6, TriggerBlocks, Zenon DEF Restart
<1>7. ASSUME NEW c \in Callers, Calling(c) PROVE Blocks(queue')
  <2>1. ASSUME NEW b, IsBlock(b), Submit(c, b) PROVE Blocks(queue')
    BY <1>1, <2>1, AppendedBlock, Zenon DEF Submit
  <2>2. CASE CallStore(c)
    <3>1. PICK i \in Ids : Submit(c, Block("store", i, c))
      BY <2>2, Zenon DEF CallStore
    <3>2. IsBlock(Block("store", i, c))
      BY NewBlock, Zenon
    <3> QED BY <2>1, <3>1, <3>2, Zenon
  <2>3. CASE CallLookup(c) \/ CallRemove(c) \/ CallPurge(c)
    <3>1. PICK op, id : op # "store" /\ Submit(c, Block(op, id, c))
      BY <2>3, Zenon DEF CallLookup, CallRemove, CallPurge
    <3>2. IsBlock(Block(op, id, c))
      BY <3>1, NewBlock, Zenon
    <3> QED BY <2>1, <3>1, <3>2, Zenon
  <2>4. CASE CallRecent(c)
    <3>1. PICK n \in 1 .. Cardinality(Ids) : Submit(c, [Block("recent", NoOne, c) EXCEPT !.size = n])
      BY <2>4, Zenon DEF CallRecent
    <3>2. n \in Nat
      OBVIOUS
    <3>3. IsBlock([Block("recent", NoOne, c) EXCEPT !.size = n])
      BY <3>2, NewBlock, Zenon
    <3> QED BY <2>1, <3>1, <3>3, Zenon
  <2>5. CASE CallCompact(c)
    <3>1. PICK n \in {0, MaxAssets} : Submit(c, [Block("compact", NoOne, c) EXCEPT !.size = n])
      BY <2>5, Zenon DEF CallCompact
    <3>2. n \in Nat
      BY AssetAssumption
    <3>3. IsBlock([Block("compact", NoOne, c) EXCEPT !.size = n])
      BY <3>2, NewBlock, Zenon
    <3> QED BY <2>1, <3>1, <3>3, Zenon
  <2> QED BY <1>7, <2>2, <2>3, <2>4, <2>5, Zenon DEF Calling
<1>8. ASSUME NEW c \in Callers, KeepAlive(c) PROVE Blocks(queue')
  <2>1. PICK i : queue' = queue \/ queue' = Append(queue, Block("remove", i, NoOne))
    BY <1>8, Zenon DEF KeepAlive
  <2>2. IsBlock(Block("remove", i, NoOne))
    BY NewBlock, Zenon
  <2> QED BY <1>1, <2>1, <2>2, AppendedBlock, Zenon
<1>9. ASSUME NEW c \in Callers, AfterStore(c) PROVE Blocks(queue')
  BY <1>1, <1>9, TriggerBlocks, JoinedBlocks, Zenon DEF AfterStore
<1>10. ASSUME NEW c \in Callers, Write(c) \/ Prewarm(c) \/ Close(c) PROVE Blocks(queue')
  <2>1. queue' = queue
    BY <1>10, Zenon DEF Write, Prewarm, Close
  <2> QED BY <1>1, <2>1, Zenon
<1>11. CASE UNCHANGED vars
  BY <1>1, <1>11, Zenon DEF vars
<1> QED BY <1>3, <1>4, <1>5, <1>6, <1>7, <1>8, <1>9, <1>10, <1>11, Zenon DEF Next

-----------------------------------------------------------------------------
(* The callers *)

\* No caller has got a package, some may have lost theirs.
CallsKept ==
  /\ call' \in [Callers -> CallType] /\ written' = written
  /\ \A c \in Callers : call'[c].pkg \in {0, call[c].pkg}

LEMMA OneCallChanges ==
  ASSUME Types, written' = written, NEW c, NEW x, call' = [call EXCEPT ![c] = x],
         c \in Callers => x \in CallType /\ x.pkg \in {0, call[c].pkg}
  PROVE  CallsKept
<1>1. call \in [Callers -> CallType]
  BY Zenon DEF Types
<1>2. call' \in [Callers -> CallType]
  BY <1>1, Zenon
<1>3. \A d \in Callers : call'[d].pkg \in {0, call[d].pkg}
  BY <1>1, Zenon
<1> QED BY <1>2, <1>3, Zenon DEF CallsKept

\* A call that returns forgets its package.
LEMMA ReturnKeeps == ASSUME Types, written' = written, NEW c, Return(c) PROVE CallsKept
<1>1. Idle \in CallType /\ Idle.pkg = 0
  BY Zenon DEF Idle, CallType
<1>2. CASE call' = call
  BY <1>2, Zenon DEF CallsKept, Types
<1>3. CASE call' = [call EXCEPT ![c] = Idle]
  BY <1>1, <1>3, OneCallChanges, Zenon
<1> QED BY <1>2, <1>3, Zenon DEF Return

\* Only Write gives a caller a package, the next one.
LEMMA CallStep ==
  ASSUME IInv, [Next]_vars
  PROVE  \/ CallsKept
         \/ \E c \in Callers : /\ written < Len(PkgSize) /\ written' = written + 1
                               /\ table' = table /\ files' = files
                               /\ call' = [call EXCEPT ![c] = [at |-> "written", id |-> NoOne, pkg |-> written + 1]]
<1>1. Types /\ call \in [Callers -> CallType]
  BY Zenon DEF IInv, Types
<1>2. CASE call' = call /\ written' = written
  BY <1>1, <1>2, Zenon DEF CallsKept
<1>3. CASE Queue
  <2>1. CASE RunStore
    <3>1. PICK c : call' = [call EXCEPT ![c] = [Idle EXCEPT !.at = "stored"]] /\ written' = written
      BY <2>1, Zenon DEF RunStore
    <3>2. PICK x : x = [Idle EXCEPT !.at = "stored"]
      BY Zenon
    <3>3. x = [at |-> "stored", id |-> NoOne, pkg |-> 0]
      BY <3>2, Zenon DEF Idle
    <3>4. x \in CallType /\ x.pkg = 0
      BY <3>3, Zenon DEF CallType
    <3> QED BY <1>1, <3>1, <3>2, <3>4, OneCallChanges, Zenon
  <2>2. CASE RunLookup
    <3>1. CASE Return(Head(queue).for) /\ written' = written
      BY <1>1, <3>1, ReturnKeeps, Zenon
    <3>2. CASE call' = [call EXCEPT ![Head(queue).for].at = "fetched"] /\ written' = written
      <4>1. PICK c : c = Head(queue).for
        OBVIOUS
      <4>2. PICK x : x = [call[c] EXCEPT !.at = "fetched"]
        BY Zenon
      <4>3. call' = [call EXCEPT ![c] = x]
        BY <3>2, <4>1, <4>2, Zenon
      <4>4. ASSUME c \in Callers PROVE x \in CallType /\ x.pkg = call[c].pkg
        <5>1. PICK y \in CallType : y = call[c]
          BY <1>1, <4>4, Zenon
        <5>2. x = [y EXCEPT !.at = "fetched"]
          BY <4>2, <5>1, Zenon
        <5>3. x \in CallType /\ x.pkg = y.pkg
          BY <5>2, Zenon DEF CallType
        <5> QED BY <5>1, <5>3, Zenon
      <4> QED BY <1>1, <3>2, <4>3, <4>4, OneCallChanges, Zenon
    <3> QED BY <2>2, <3>1, <3>2, Zenon DEF RunLookup
  <2>3. CASE \E c : Return(c) /\ written' = written
    BY <1>1, <2>3, ReturnKeeps, Zenon
  <2>4. CASE RunRemove \/ RunRecent \/ RunPurge \/ CompactReturns
    BY <2>3, <2>4, Zenon DEF RunRemove, RunRecent, RunPurge, CompactReturns
  <2>5. CASE ChooseVictims
    <3>1. written' = written /\ (call' = call \/ Return(Head(queue).for))
      BY <2>5, Zenon DEF ChooseVictims
    <3> QED BY <1>2, <2>3, <3>1, Zenon
  <2>6. CASE RemoveVictim
    BY <1>2, <2>6, Zenon DEF RemoveVictim
  <2> QED BY <1>3, <2>1, <2>2, <2>4, <2>5, <2>6, Zenon DEF Queue
<1>4. CASE removeFilesInTrashDirectory
  <2>1. written' = written /\ call' = [c \in Callers |-> [call[c] EXCEPT !.pkg = 0]]
    BY <1>4, Zenon DEF removeFilesInTrashDirectory
  <2>2. \A c \in Callers : [call[c] EXCEPT !.pkg = 0] \in CallType /\ [call[c] EXCEPT !.pkg = 0].pkg = 0
    <3> SUFFICES ASSUME NEW c \in Callers
                 PROVE  [call[c] EXCEPT !.pkg = 0] \in CallType /\ [call[c] EXCEPT !.pkg = 0].pkg = 0
      OBVIOUS
    <3>1. PICK y \in CallType : y = call[c]
      BY <1>1, Zenon
    <3>2. [y EXCEPT !.pkg = 0] \in CallType /\ [y EXCEPT !.pkg = 0].pkg = 0
      BY Zenon DEF CallType
    <3> QED BY <3>1, <3>2, Zenon
  <2>3. call' \in [Callers -> CallType] /\ \A c \in Callers : call'[c].pkg = 0
    BY <2>1, <2>2, Zenon
  <2> QED BY <2>1, <2>3, Zenon DEF CallsKept
<1>5. CASE Crash
  <2>1. written' = written /\ call' = [c \in Callers |-> Idle]
    BY <1>5, Zenon DEF Crash
  <2>2. Idle \in CallType /\ Idle.pkg = 0
    BY Zenon DEF Idle, CallType
  <2> QED BY <2>1, <2>2, Zenon DEF CallsKept
<1>6. CASE Restart
  BY <1>2, <1>6, Zenon DEF Restart
<1>7. ASSUME NEW c \in Callers, Calling(c) PROVE CallsKept
  <2>1. PICK b : Submit(c, b) /\ b.id \in Ids \cup {NoOne}
    <3>1. \A op, id, for : Block(op, id, for).id = id
      BY Zenon DEF Block
    <3>2. ASSUME NEW op, NEW id, NEW for, NEW n PROVE [Block(op, id, for) EXCEPT !.size = n].id = id
      <4>1. PICK u : u = Block(op, id, for)
        OBVIOUS
      <4>2. u = [op |-> op, id |-> id, for |-> for, size |-> 0, chosen |-> FALSE, victims |-> <<>>]
        BY <4>1, Zenon DEF Block
      <4>3. [u EXCEPT !.size = n].id = id
        BY <4>2, Zenon
      <4> QED BY <4>1, <4>3, Zenon
    <3>3. CASE CallStore(c) \/ CallLookup(c) \/ CallRemove(c) \/ CallPurge(c)
      BY <3>1, <3>3 DEF CallStore, CallLookup, CallRemove, CallPurge
    <3>4. CASE CallRecent(c)
      <4>1. PICK n : Submit(c, [Block("recent", NoOne, c) EXCEPT !.size = n])
        BY <3>4, Zenon DEF CallRecent
      <4>2. [Block("recent", NoOne, c) EXCEPT !.size = n].id \in Ids \cup {NoOne}
        BY <3>2
      <4> QED BY <4>1, <4>2, Zenon
    <3>5. CASE CallCompact(c)
      <4>1. PICK n : Submit(c, [Block("compact", NoOne, c) EXCEPT !.size = n])
        BY <3>5, Zenon DEF CallCompact
      <4>2. [Block("compact", NoOne, c) EXCEPT !.size = n].id \in Ids \cup {NoOne}
        BY <3>2
      <4> QED BY <4>1, <4>2, Zenon
    <3> QED BY <1>7, <3>3, <3>4, <3>5, Zenon DEF Calling
  <2>2. written' = written /\ call' = [call EXCEPT ![c].at = "waiting", ![c].id = b.id]
    BY <2>1, Zenon DEF Submit
  <2>3. PICK x : x = [at |-> "waiting", id |-> b.id, pkg |-> call[c].pkg]
    BY Zenon
  <2>4. x \in CallType /\ x.pkg = call[c].pkg
    BY <1>1, <2>1, <2>3, Zenon DEF CallType
  <2>5. call' = [call EXCEPT ![c] = x]
    <3>1. PICK y : y = call[c]
      OBVIOUS
    <3>2. y = [at |-> y.at, id |-> y.id, pkg |-> y.pkg]
      BY <1>1, <3>1, Zenon DEF CallType
    <3>3. PICK z : z = [y EXCEPT !.at = "waiting"]
      BY Zenon
    <3>4. z = [at |-> "waiting", id |-> y.id, pkg |-> y.pkg]
      BY <3>2, <3>3, Zenon
    <3>5. PICK w : w = [z EXCEPT !.id = b.id]
      BY Zenon
    <3>6. w = x
      BY <2>3, <3>1, <3>4, <3>5
    <3> QED BY <1>1, <2>2, <3>1, <3>3, <3>5, <3>6, Zenon
  <2> QED BY <1>1, <2>2, <2>4, <2>5, OneCallChanges, Zenon
<1>8. ASSUME NEW c \in Callers, KeepAlive(c) \/ AfterStore(c) PROVE CallsKept
  <2>1. Return(c) /\ written' = written
    BY <1>8, Zenon DEF KeepAlive, AfterStore
  <2> QED BY <1>1, <2>1, ReturnKeeps, Zenon
<1>9. ASSUME NEW c \in Callers, Prewarm(c) \/ Close(c) PROVE CallsKept
  <2>1. call' = call /\ written' = written
    BY <1>9, Zenon DEF Prewarm, Close
  <2> QED BY <1>1, <2>1, Zenon DEF CallsKept
<1>10. ASSUME NEW c \in Callers, Write(c)
       PROVE  /\ written < Len(PkgSize) /\ written' = written + 1 /\ table' = table /\ files' = files
              /\ call' = [call EXCEPT ![c] = [at |-> "written", id |-> NoOne, pkg |-> written + 1]]
  BY <1>10, Zenon DEF Write, disk
<1>11. CASE UNCHANGED vars
  BY <1>2, <1>11, Zenon DEF vars
<1> QED BY <1>3, <1>4, <1>5, <1>6, <1>7, <1>8, <1>9, <1>10, <1>11, Zenon DEF Next

\* While the manager does not exist nothing is queued and nobody waits, again.
LEMMA DownStep == ASSUME IInv, [Next]_vars PROVE Down'
<1>1. call \in [Callers -> CallType]
  BY Zenon DEF IInv, Types
<1>2. CASE Crash
  <2>1. queue' = <<>> /\ call' = [c \in Callers |-> Idle]
    BY <1>2, Zenon DEF Crash
  <2> QED BY <2>1, Zenon DEF Down, Idle
<1>3. CASE up'
  BY <1>3, Zenon DEF Down
<1>4. CASE ~Crash /\ ~up'
  <2>1. ~up
    <3>1. CASE Queue
      BY <1>4, <3>1, Zenon DEF Queue, RunStore, RunLookup, RunRemove, RunRecent, RunPurge, ChooseVictims,
                               RemoveVictim, CompactReturns
    <3>2. CASE removeFilesInTrashDirectory \/ Restart
      BY <1>4, <3>2, Zenon DEF removeFilesInTrashDirectory, Restart
    <3>3. ASSUME NEW c \in Callers, Write(c) \/ Calling(c) \/ KeepAlive(c) \/ AfterStore(c) \/ Prewarm(c) \/ Close(c)
          PROVE  up' = up
      BY <3>3, Zenon DEF Write, Calling, CallStore, CallLookup, CallRemove, CallRecent, CallCompact, CallPurge,
                         Submit, KeepAlive, AfterStore, Prewarm, Close
    <3>4. CASE UNCHANGED vars
      BY <1>4, <3>4, Zenon DEF vars
    <3> QED BY <1>4, <3>1, <3>2, <3>3, <3>4, Zenon DEF Next
  <2>2. queue = <<>> /\ \A c \in Callers : call[c].at = "idle"
    BY <2>1, Zenon DEF IInv, Down
  <2>3. ~Queue
    BY <2>2, Zenon DEF Queue, RunStore, RunLookup, RunRemove, RunRecent, RunPurge, ChooseVictims,
                       RemoveVictim, CompactReturns, Running
  <2>4. ~Restart
    BY <1>4, Zenon DEF Restart
  <2>5. CASE removeFilesInTrashDirectory
    <3>1. queue' = queue /\ call' = [c \in Callers |-> [call[c] EXCEPT !.pkg = 0]]
      BY <2>5, Zenon DEF removeFilesInTrashDirectory
    <3>2. ASSUME NEW c \in Callers PROVE [call[c] EXCEPT !.pkg = 0].at = "idle"
      <4>1. PICK y \in CallType : y = call[c]
        BY <1>1, Zenon
      <4>2. [y EXCEPT !.pkg = 0].at = y.at
        BY Zenon DEF CallType
      <4> QED BY <2>2, <4>1, <4>2, Zenon
    <3> QED BY <2>2, <3>1, <3>2, Zenon DEF Down
  <2>6. ASSUME NEW c \in Callers PROVE ~Write(c) /\ ~Calling(c) /\ ~KeepAlive(c) /\ ~AfterStore(c)
    <3>1. ~Write(c) /\ ~KeepAlive(c) /\ ~AfterStore(c)
      BY <2>1, <2>2, Zenon DEF Write, KeepAlive, AfterStore
    <3>2. ~Calling(c)
      BY <2>1, Zenon DEF Calling, CallStore, CallLookup, CallRemove, CallRecent, CallCompact, CallPurge, Submit
    <3> QED BY <3>1, <3>2, Zenon
  <2>7. ASSUME NEW c \in Callers, Prewarm(c) \/ Close(c) PROVE queue' = queue /\ call' = call
    BY <2>7, Zenon DEF Prewarm, Close
  <2>8. CASE UNCHANGED vars
    BY <2>2, <2>8, Zenon DEF vars, Down
  <2> QED BY <1>4, <2>2, <2>3, <2>4, <2>5, <2>6, <2>7, <2>8, Zenon DEF Next, Down
<1> QED BY <1>2, <1>3, <1>4, Zenon

-----------------------------------------------------------------------------
(* The database and the directory *)

\* The block that runs may take the asset of identifier i away.
Removing(i) ==
  /\ queue # <<>>
  /\ \/ Head(queue).op = "remove" /\ Head(queue).id = i
     \/ Head(queue).op = "purge"
     \/ Head(queue).op = "compact" /\ i \notin Alive

\* A step that makes nothing valid, and loses what it may.
ShrinkStep ==
  /\ table' \in Rows /\ DOMAIN table' \subseteq DOMAIN table
  /\ \A j \in DOMAIN table' : table'[j].value = table[j].value
  /\ \A j \in DOMAIN table' \cap DOMAIN files' : j \in DOMAIN files /\ files'[j] = files[j]
  /\ \A j \in DOMAIN table \cap DOMAIN files : Removing(j) \/ j \in DOMAIN table' \cap DOMAIN files'

\* A step that makes identifier i valid, with the package of caller c.
GrowStep(i, c) ==
  /\ call[c].pkg # 0 /\ call'[c].pkg = 0
  /\ table' \in Rows /\ i \notin DOMAIN table /\ DOMAIN table' = DOMAIN table \cup {i}
  /\ \A j \in DOMAIN table : table'[j].value = table[j].value
  /\ table'[i].value = call[c].pkg /\ files' = With(files, i, call[c].pkg)

DiskStep ==
  /\ ShrinkStep \/ \E i \in Ids, c \in Callers : GrowStep(i, c)
  /\ clock' \in Nat /\ total' \in Nat /\ estimate' \in Nat
  /\ "commit" \notin Faults /\ SizeAccounted => SizeAccounted'

\* Nothing happens to the disk.
LEMMA QuietDisk ==
  ASSUME Types, UNCHANGED <<table, total, files, clock, estimate, up>>
  PROVE  DiskStep
<1>1. ShrinkStep
  BY Zenon DEF Types, ShrinkStep
<1>2. clock' \in Nat /\ total' \in Nat /\ estimate' \in Nat
  BY Zenon DEF Types
<1>3. SizeAccounted => SizeAccounted'
  BY Zenon DEF SizeAccounted
<1> QED BY <1>1, <1>2, <1>3, Zenon DEF DiskStep

\* Keys are looked at.
LEMMA LookedUp ==
  ASSUME Types, NEW s, Like(s, table), table' = s.rows, clock' = s.clock,
         UNCHANGED <<total, files, estimate, up>>
  PROVE  DiskStep
<1>1. /\ s.rows \in Rows /\ DOMAIN s.rows = DOMAIN table /\ s.clock \in Nat
      /\ \A j \in DOMAIN table : s.rows[j].value = table[j].value
      /\ SizeOf(s.rows) = SizeOf(table)
  BY LikeWeighs, Zenon
<1>2. ShrinkStep
  BY <1>1, Zenon DEF ShrinkStep
<1>3. clock' \in Nat /\ total' \in Nat /\ estimate' \in Nat
  BY <1>1, Zenon DEF Types
<1>4. SizeAccounted => SizeAccounted'
  BY <1>1, Zenon DEF SizeAccounted
<1> QED BY <1>2, <1>3, <1>4, Zenon DEF DiskStep

\* A block ends with outcome r.
LEMMA BlockEnds ==
  ASSUME NEW r, Becomes(r), up, up' = up,
         \/ \E S : Shrunk(r, S) /\ \A j \in S \cap DOMAIN table \cap DOMAIN files : Removing(j)
         \/ \E i \in Ids, c \in Callers : Grown(r, i, call[c].pkg) /\ call'[c].pkg = 0,
         "commit" \notin Faults /\ Sized(table, total, estimate) => Sized(r.store.rows, r.total, r.estimate)
  PROVE  DiskStep
<1>1. /\ table' = r.store.rows /\ clock' = r.store.clock
      /\ total' = r.total /\ files' = r.files /\ estimate' = r.estimate
  BY Zenon DEF Becomes
<1>2. "commit" \notin Faults /\ SizeAccounted => SizeAccounted'
  BY <1>1, Zenon DEF SizeAccounted, Sized
<1>3. ASSUME NEW S, Shrunk(r, S), \A j \in S \cap DOMAIN table \cap DOMAIN files : Removing(j)
      PROVE  ShrinkStep /\ clock' \in Nat /\ total' \in Nat /\ estimate' \in Nat
  BY <1>1, <1>3, Zenon DEF Shrunk, ShrinkStep
<1>4. ASSUME NEW i \in Ids, NEW c \in Callers, Grown(r, i, call[c].pkg), call'[c].pkg = 0
      PROVE  GrowStep(i, c) /\ clock' \in Nat /\ total' \in Nat /\ estimate' \in Nat
  BY <1>1, <1>4, Zenon DEF Grown, GrowStep
<1> QED BY <1>2, <1>3, <1>4, Zenon DEF DiskStep

\* Every step of the manager is such a step: one action at a time.
LEMMA EveryDiskStep == ASSUME IInv, [Next]_vars PROVE DiskStep
<1>1. Types /\ call \in [Callers -> CallType]
  BY Zenon DEF IInv, Types
<1>2. queue # <<>> => IsBlock(Head(queue)) /\ up
  BY <1>1, FirstBlock, Zenon DEF IInv, Types, Down
<1>3. /\ Like(Store, table) /\ Cardinality(DOMAIN table) \in Nat /\ Store.rows = table
  BY <1>1, StoreNow, Zenon DEF Store
<1>4. \A j \in DOMAIN table : j \in Ids
  BY <1>1, RowsFinite, Zenon DEF Types
<1>5. CASE UNCHANGED <<table, total, files, clock, estimate, up>>
  BY <1>1, <1>5, QuietDisk, Zenon
<1>6. CASE RunStore
  <2>1. PICK b : b = Head(queue)
    OBVIOUS
  <2>2. b.for \in Callers /\ b.id \in Ids /\ up /\ up' = up
    BY <1>2, <1>6, <2>1, Zenon DEF RunStore, Running, IsBlock
  <2>3. PICK r \in StoreAsset(b.id, call[b.for].pkg, Faults) :
          Becomes(r) /\ call' = [call EXCEPT ![b.for] = [Idle EXCEPT !.at = "stored"]]
    BY <1>6, <2>1, Zenon DEF RunStore
  <2>4. call[b.for].pkg \in Nat /\ call[b.for].pkg <= written
    BY <1>1, <2>2, Zenon DEF IInv, Fresh, CallType
  <2>5. /\ Shrunk(r, {}) \/ Grown(r, b.id, call[b.for].pkg)
        /\ Sized(table, total, estimate) => Sized(r.store.rows, r.total, r.estimate)
    BY <1>1, <2>2, <2>4, StoreOutcome, Zenon
  <2>6. call'[b.for].pkg = 0
    <3>1. [Idle EXCEPT !.at = "stored"].pkg = 0
      BY Zenon DEF Idle
    <3> QED BY <1>1, <2>2, <2>3, <3>1, Zenon
  <2> QED BY <2>2, <2>3, <2>5, <2>6, BlockEnds
<1>7. CASE RunLookup
  <2>1. CASE Head(queue).id \in DOMAIN table
    <3>1. /\ table' = get(Store, Head(queue).id).rows /\ clock' = get(Store, Head(queue).id).clock
          /\ UNCHANGED <<total, files, estimate, up>>
      BY <1>7, <2>1, Zenon DEF RunLookup
    <3>2. Like(get(Store, Head(queue).id), table)
      BY <1>3, GetLike, Zenon
    <3> QED BY <1>1, <3>1, <3>2, LookedUp, Zenon
  <2>2. CASE Head(queue).id \notin DOMAIN table
    BY <1>5, <1>7, <2>2, Zenon DEF RunLookup
  <2> QED BY <2>1, <2>2, Zenon
<1>8. CASE RunRemove
  <2>1. PICK i : i = Head(queue).id
    OBVIOUS
  <2>2. PICK r \in RemoveAsset(i, Faults) : Becomes(r)
    BY <1>8, <2>1, Zenon DEF RunRemove
  <2>3. queue # <<>> /\ Head(queue).op = "remove" /\ up' = up
    BY <1>8, Zenon DEF RunRemove, Running
  <2>4. /\ Shrunk(r, {i} \ Alive)
        /\ Sized(table, total, estimate) => Sized(r.store.rows, r.total, r.estimate)
    BY <1>1, <2>2, RemoveOutcome, Zenon
  <2>5. \A j \in ({i} \ Alive) \cap DOMAIN table \cap DOMAIN files : Removing(j)
    BY <2>1, <2>3, Zenon DEF Removing
  <2> QED BY <1>2, <2>2, <2>3, <2>4, <2>5, BlockEnds
<1>9. CASE RunRecent
  <2>1. PICK b : b = Head(queue)
    OBVIOUS
  <2>2. PICK rank : /\ table' = CollectByTime(Store, rank, b.size).store.rows
                    /\ clock' = CollectByTime(Store, rank, b.size).store.clock
    BY <1>9, <2>1, Zenon DEF RunRecent
  <2>3. b.size \in Nat /\ UNCHANGED <<total, files, estimate, up>>
    BY <1>2, <1>9, <2>1, Zenon DEF RunRecent, Running, IsBlock
  <2>4. Like(CollectByTime(Store, rank, b.size).store, table)
    BY <1>3, <2>3, CollectByTimeKeeps, Zenon
  <2> QED BY <1>1, <2>2, <2>3, <2>4, LookedUp
<1>10. ASSUME NEW r \in PurgeAssets(Faults), Becomes(r), up' = up, queue # <<>>,
              Head(queue).op = "purge" \/ (Head(queue).op = "compact" /\ Alive = {})
       PROVE  DiskStep
  <2>1. /\ Shrunk(r, DOMAIN files)
        /\ "commit" \notin Faults /\ Sized(table, total, estimate) => Sized(r.store.rows, r.total, r.estimate)
    BY <1>1, PurgeOutcome, Zenon
  <2>2. \A j \in DOMAIN files \cap DOMAIN table \cap DOMAIN files : Removing(j)
    BY <1>10, Zenon DEF Removing
  <2> QED BY <1>2, <1>10, <2>1, <2>2, BlockEnds, Zenon
<1>11. CASE RunPurge
  <2>1. PICK r \in PurgeAssets(Faults) : Becomes(r)
    BY <1>11, Zenon DEF RunPurge
  <2>2. up' = up /\ queue # <<>> /\ Head(queue).op = "purge"
    BY <1>11, Zenon DEF RunPurge, Running
  <2> QED BY <1>10, <2>1, <2>2, Zenon
<1>12. CASE ChooseVictims
  <2>1. PICK b : b = Head(queue)
    BY SMTT(60)
  <2>2. queue # <<>> /\ b.op = "compact" /\ up' = up /\ b.size \in Nat
    BY <1>2, <1>12, <2>1, Zenon DEF ChooseVictims, Running, IsBlock
  <2>3. \/ Alive = {} /\ \E r \in PurgeAssets(Faults) : Becomes(r)
        \/ UNCHANGED <<table, total, files, clock, estimate, up>>
        \/ /\ estimate > b.size /\ UNCHANGED <<total, files, estimate, up>>
           /\ \E rank : LET w == CollectByCount(Store, rank, Alive, PkgSize, estimate - b.size)
                        IN  table' = w.store.rows /\ clock' = w.store.clock
    BY <1>12, <2>1, Zenon DEF ChooseVictims, disk, memory
  <2>4. CASE Alive = {} /\ \E r \in PurgeAssets(Faults) : Becomes(r)
    BY <1>10, <2>1, <2>2, <2>4, Zenon
  <2>5. CASE estimate > b.size /\ UNCHANGED <<total, files, estimate, up>>
             /\ \E rank : LET w == CollectByCount(Store, rank, Alive, PkgSize, estimate - b.size)
                          IN  table' = w.store.rows /\ clock' = w.store.clock
    <3>1. PICK rank : /\ table' = CollectByCount(Store, rank, Alive, PkgSize, estimate - b.size).store.rows
                      /\ clock' = CollectByCount(Store, rank, Alive, PkgSize, estimate - b.size).store.clock
      BY <2>5, Zenon
    <3>2. estimate - b.size \in Nat
      BY <1>1, <2>2, <2>5 DEF Types
    <3>3. Like(CollectByCount(Store, rank, Alive, PkgSize, estimate - b.size).store, table)
      BY <1>3, <3>2, CollectByCountKeeps, Zenon
    <3> QED BY <1>1, <2>5, <3>1, <3>3, LookedUp
  <2> QED BY <1>5, <2>3, <2>4, <2>5, Zenon
<1>13. CASE RemoveVictim
  <2>1. PICK i : i = Head(Head(queue).victims)
    OBVIOUS
  <2>2. PICK r \in RemoveAsset(i, Faults) : Becomes(r)
    BY <1>13, <2>1, Zenon DEF RemoveVictim
  <2>3. queue # <<>> /\ Head(queue).op = "compact" /\ up' = up
    BY <1>13, Zenon DEF RemoveVictim, Running
  <2>4. /\ Shrunk(r, {i} \ Alive)
        /\ Sized(table, total, estimate) => Sized(r.store.rows, r.total, r.estimate)
    BY <1>1, <2>2, RemoveOutcome, Zenon
  <2>5. \A j \in ({i} \ Alive) \cap DOMAIN table \cap DOMAIN files : Removing(j)
    BY <2>3, Zenon DEF Removing
  <2> QED BY <1>2, <2>2, <2>3, <2>4, <2>5, BlockEnds
<1>14. CASE CompactReturns
  BY <1>5, <1>14, Zenon DEF CompactReturns, disk, memory
<1>15. CASE Crash
  <2>1. PICK r \in Interrupted : table' = r.store.rows /\ files' = r.files
    BY <1>15, Zenon DEF Crash
  <2>2. clock' = 1 /\ estimate' = 0 /\ total' = total /\ ~up'
    BY <1>15, Zenon DEF Crash
  <2>3. \E S : /\ Shrunk(r, S) /\ SizeOf(r.store.rows) = SizeOf(table)
               /\ \A j \in S \cap DOMAIN table \cap DOMAIN files : Removing(j)
    <3> DEFINE b == Head(queue)
               all == {"db", "move", "commit"}
    <3>1. \/ r = Unchanged
          \/ /\ queue # <<>> /\ ~r.ok
             /\ \/ b.op = "store" /\ r \in StoreAsset(b.id, call[b.for].pkg, all)
                \/ b.op = "remove" /\ r \in RemoveAsset(b.id, all)
                \/ (b.op = "purge" \/ (b.op = "compact" /\ Alive = {})) /\ r \in PurgeAssets(all)
                \/ b.op = "compact" /\ r \in RemoveAsset(Head(b.victims), all)
      BY <2>1, Zenon DEF Interrupted, Running
    <3>2. CASE r = Unchanged
      <4>1. Shrunk(r, {}) /\ SizeOf(r.store.rows) = SizeOf(table)
        BY <1>1, <3>2, UnchangedShrinks, Zenon
      <4> QED BY <4>1
    <3>3. CASE queue # <<>> /\ ~r.ok /\ b.op = "store" /\ r \in StoreAsset(b.id, call[b.for].pkg, all)
      <4>1. b.for \in Callers /\ b.id \in Ids
        BY <1>2, <3>3, Zenon DEF IsBlock
      <4>2. call[b.for].pkg \in Nat /\ call[b.for].pkg <= written
        BY <1>1, <4>1, Zenon DEF IInv, Fresh, CallType
      <4>3. Shrunk(r, {}) /\ SizeOf(r.store.rows) = SizeOf(table)
        BY <1>1, <3>3, <4>1, <4>2, StoreOutcome
      <4> QED BY <4>3
    <3>4. ASSUME NEW i, r \in RemoveAsset(i, all), ~r.ok, queue # <<>>,
                 (b.op = "remove" /\ i = b.id) \/ b.op = "compact"
          PROVE  \E S : /\ Shrunk(r, S) /\ SizeOf(r.store.rows) = SizeOf(table)
                        /\ \A j \in S \cap DOMAIN table \cap DOMAIN files : Removing(j)
      <4>1. Shrunk(r, {i} \ Alive) /\ SizeOf(r.store.rows) = SizeOf(table)
        BY <1>1, <3>4, RemoveOutcome, Zenon
      <4>2. \A j \in ({i} \ Alive) \cap DOMAIN table \cap DOMAIN files : Removing(j)
        BY <3>4, Zenon DEF Removing
      <4> QED BY <4>1, <4>2, Zenon
    <3>5. CASE /\ queue # <<>> /\ ~r.ok /\ r \in PurgeAssets(all)
               /\ b.op = "purge" \/ (b.op = "compact" /\ Alive = {})
      <4>1. Shrunk(r, DOMAIN files) /\ SizeOf(r.store.rows) = SizeOf(table)
        BY <1>1, <3>5, PurgeOutcome, Zenon
      <4>2. \A j \in DOMAIN files \cap DOMAIN table \cap DOMAIN files : Removing(j)
        BY <3>5, Zenon DEF Removing
      <4> QED BY <4>1, <4>2, Zenon
    <3> HIDE DEF b, all
    <3> QED BY <3>1, <3>2, <3>3, <3>4, <3>5, Zenon
  <2>4. ShrinkStep
    BY <2>1, <2>3, Zenon DEF Shrunk, ShrinkStep
  <2>5. SizeAccounted => SizeAccounted'
    BY <2>1, <2>2, <2>3, Zenon DEF SizeAccounted
  <2>6. clock' \in Nat /\ total' \in Nat /\ estimate' \in Nat
    BY <1>1, <2>2, Zenon DEF Types
  <2> QED BY <2>4, <2>5, <2>6, Zenon DEF DiskStep
<1>16. CASE Restart
  <2>1. /\ estimate' = total /\ clock' = 1 /\ files' = files
        /\ \/ DOMAIN files = {} /\ table' = Empty /\ total' = 0
           \/ table' = table /\ total' = total
    BY <1>16, Zenon DEF Restart
  <2>2. total \in Nat /\ table \in Rows
    BY <1>1, Zenon DEF Types
  <2>3. CASE table' = table /\ total' = total
    <3>1. ShrinkStep
      BY <2>1, <2>2, <2>3, Zenon DEF ShrinkStep
    <3>2. SizeAccounted => SizeAccounted'
      BY <2>1, <2>3, Zenon DEF SizeAccounted
    <3> QED BY <2>1, <2>2, <2>3, <3>1, <3>2 DEF DiskStep
  <2>4. CASE DOMAIN files = {} /\ table' = Empty /\ total' = 0
    <3>1. Empty \in Rows /\ DOMAIN Empty = {}
      <4>1. Empty \in [{} -> RowType] /\ {} \in SUBSET Ids
        BY Zenon DEF Empty
      <4> QED BY <4>1, Zenon DEF Rows
    <3>2. ShrinkStep
      BY <2>1, <2>4, <3>1, Zenon DEF ShrinkStep
    <3>3. SizeAccounted'
      BY <2>1, <2>2, <2>4, SizeNat DEF SizeAccounted
    <3> QED BY <2>1, <2>2, <2>4, <3>2, <3>3 DEF DiskStep
  <2> QED BY <2>1, <2>3, <2>4, Zenon
<1>17. CASE removeFilesInTrashDirectory
  BY <1>5, <1>17, Zenon DEF removeFilesInTrashDirectory, disk, memory
<1>18. ASSUME NEW c \in Callers, Write(c) \/ Calling(c) \/ KeepAlive(c) \/ AfterStore(c) \/ Prewarm(c) \/ Close(c)
       PROVE  UNCHANGED <<table, total, files, clock, estimate, up>>
  BY <1>18, Zenon DEF Write, Calling, CallStore, CallLookup, CallRemove, CallRecent, CallCompact, CallPurge,
                      Submit, KeepAlive, AfterStore, Prewarm, Close, disk, memory
<1>19. CASE UNCHANGED vars
  BY <1>5, <1>19, Zenon DEF vars, disk, memory
<1>20. CASE Queue
  BY <1>6, <1>7, <1>8, <1>9, <1>11, <1>12, <1>13, <1>14, <1>20, Zenon DEF Queue
<1> QED BY <1>5, <1>15, <1>16, <1>17, <1>18, <1>19, <1>20, Zenon DEF Next

-----------------------------------------------------------------------------
(* The invariant *)

LEMMA InitIInv == ASSUME Init PROVE IInv
<1>1. Empty \in Rows /\ DOMAIN Empty = {}
  <2>1. Empty \in [{} -> RowType] /\ {} \in SUBSET Ids
    BY Zenon DEF Empty
  <2> QED BY <2>1, Zenon DEF Rows
<1>2. Idle \in CallType /\ Idle.pkg = 0 /\ Idle.at = "idle"
  BY Zenon DEF Idle, CallType
<1>3. Blocks(<<>>)
  <2>1. PICK S : S = {}
    BY Zenon
  <2>2. <<>> \in Seq(S) /\ \A b \in S : IsBlock(b)
    BY <2>1
  <2> QED BY <2>2, Zenon DEF Blocks
<1>4. Len(PkgSize) \in Nat
  BY AssetAssumption
<1>5. Types
  BY <1>1, <1>2, <1>3, <1>4 DEF Init, Types
<1>6. Down /\ Fresh /\ Written
  BY <1>1, <1>2 DEF Init, Down, Fresh, Written
<1> QED BY <1>5, <1>6, Zenon DEF IInv

\* What the rows of a type are.
LEMMA RowValue ==
  ASSUME NEW rows \in Rows, NEW i \in DOMAIN rows
  PROVE  i \in Ids /\ rows[i].value \in Nat
<1>1. rows \in [DOMAIN rows -> RowType] /\ i \in Ids
  BY RowsFinite, Zenon
<1>2. Len(PkgSize) \in Nat
  BY AssetAssumption
<1> QED BY <1>1, <1>2 DEF RowType, Packages

LEMMA NextIInv == ASSUME IInv, [Next]_vars PROVE IInv'
<1>1. DiskStep /\ Blocks(queue') /\ Down'
  BY EveryDiskStep, QueueStep, DownStep, Zenon
<1>2. /\ Types /\ call \in [Callers -> CallType] /\ table \in Rows /\ written \in Nat
      /\ Len(PkgSize) \in Nat /\ written <= Len(PkgSize)
  BY AssetAssumption DEF IInv, Types
<1>3. table' \in Rows /\ clock' \in Nat /\ total' \in Nat /\ estimate' \in Nat
  BY <1>1, Zenon DEF DiskStep, ShrinkStep, GrowStep
<1>4. /\ \A c \in Callers : call[c].pkg \in Nat /\ call[c].pkg <= written
      /\ \A i \in DOMAIN table : table[i].value \in Nat /\ table[i].value <= written
  BY <1>2, RowValue, Zenon DEF IInv, Fresh, Written, CallType
<1>5. CASE CallsKept
  <2>1. call' \in [Callers -> CallType] /\ written' = written
    BY <1>5, Zenon DEF CallsKept
  <2>2. Types'
    BY <1>1, <1>2, <1>3, <2>1, Zenon DEF Types
  <2>3. CASE ShrinkStep
    <3>1. \A i \in DOMAIN table' : i \in DOMAIN table /\ table'[i].value = table[i].value
      BY <2>3, Zenon DEF ShrinkStep
    <3>2. Written'
      BY <1>4, <2>1, <3>1, Zenon DEF Written
    <3>3. Fresh'
      BY <1>2, <1>4, <1>5, <2>1, <3>1 DEF IInv, Fresh, CallsKept
    <3> QED BY <1>1, <2>2, <3>2, <3>3, Zenon DEF IInv
  <2>4. ASSUME NEW i \in Ids, NEW c \in Callers, GrowStep(i, c) PROVE IInv'
    <3>1. \A j \in DOMAIN table' :
            \/ j \in DOMAIN table /\ table'[j].value = table[j].value
            \/ table'[j].value = call[c].pkg
      BY <2>4, Zenon DEF GrowStep
    <3>2. Written'
      BY <1>4, <2>1, <3>1, Zenon DEF Written
    <3>3. call[c].pkg # 0 /\ call'[c].pkg = 0
      BY <2>4, Zenon DEF GrowStep
    <3>4. ASSUME NEW d \in Callers, call'[d].pkg # 0
          PROVE  /\ d # c /\ call'[d].pkg = call[d].pkg /\ call[d].pkg # call[c].pkg
                 /\ \A j \in DOMAIN table : table[j].value # call[d].pkg
      BY <1>5, <3>3, <3>4, Zenon DEF IInv, Fresh, CallsKept
    <3>5. \A d \in Callers : call'[d].pkg <= written'
      BY <1>2, <1>4, <1>5, <2>1 DEF CallsKept
    <3>6. \A d \in Callers : call'[d].pkg # 0 => \A j \in DOMAIN table' : table'[j].value # call'[d].pkg
      BY <3>1, <3>4, Zenon
    <3>7. \A d \in Callers : call'[d].pkg # 0 => \A e \in Callers \ {d} : call'[e].pkg # call'[d].pkg
      BY <1>5, Zenon DEF IInv, Fresh, CallsKept
    <3>8. Fresh'
      BY <3>5, <3>6, <3>7, Zenon DEF Fresh
    <3> QED BY <1>1, <2>2, <3>2, <3>8, SMTT(60) DEF IInv
  <2> QED BY <1>1, <2>3, <2>4, Zenon DEF DiskStep
<1>6. ASSUME NEW c \in Callers, written < Len(PkgSize), written' = written + 1, table' = table, files' = files,
             call' = [call EXCEPT ![c] = [at |-> "written", id |-> NoOne, pkg |-> written + 1]]
      PROVE  IInv'
  <2>1. [at |-> "written", id |-> NoOne, pkg |-> written + 1] \in CallType
    BY <1>2 DEF CallType
  <2>2. call' \in [Callers -> CallType] /\ call'[c].pkg = written + 1 /\ \A d \in Callers \ {c} : call'[d] = call[d]
    BY <1>2, <1>6, <2>1, Zenon
  <2>3. Types'
    BY <1>1, <1>2, <1>3, <1>6, <2>2 DEF Types
  <2>4. Written'
    BY <1>2, <1>4, <1>6 DEF Written
  <2>5. Fresh'
    BY <1>2, <1>4, <1>6, <2>2 DEF IInv, Fresh
  <2> QED BY <1>1, <2>3, <2>4, <2>5, Zenon DEF IInv
<1> QED BY <1>5, <1>6, CallStep, Zenon

\* The inductive invariant: every asset that a caller is about to store is new, and
\* nothing is queued or stored while the manager does not exist.
THEOREM Invariance == Spec => []IInv
<1>1. Init => IInv
  BY InitIInv, Zenon
<1>2. IInv /\ [Next]_vars => IInv'
  BY NextIInv, Zenon
<1> QED BY <1>1, <1>2, PTL DEF Spec

-----------------------------------------------------------------------------
(* The theorems *)

\* What an identifier finds.
LEMMA StoredIs ==
  /\ DOMAIN Stored = {j \in Ids : j \in DOMAIN table /\ j \in DOMAIN files /\ files[j] = table[j].value}
  /\ \A j \in DOMAIN Stored : Stored[j] = table[j].value
BY Zenon DEF Stored, Valid

LEMMA StoredBecomes ==
  /\ DOMAIN Stored' = {j \in Ids : j \in DOMAIN table' /\ j \in DOMAIN files' /\ files'[j] = table'[j].value}
  /\ \A j \in DOMAIN Stored' : Stored'[j] = table'[j].value
BY Zenon DEF Stored, Valid

\* What was valid and was not to be removed stays valid.
LEMMA ShrinkKeeps ==
  ASSUME ShrinkStep
  PROVE  /\ DOMAIN Stored' \subseteq DOMAIN Stored /\ \A j \in DOMAIN Stored' : Stored'[j] = Stored[j]
         /\ \A j \in DOMAIN Stored : Removing(j) \/ j \in DOMAIN Stored'
<1>1. DOMAIN Stored' \subseteq DOMAIN Stored
  BY StoredIs, StoredBecomes, Zenon DEF ShrinkStep
<1>2. \A j \in DOMAIN Stored' : Stored'[j] = Stored[j]
  BY <1>1, StoredIs, StoredBecomes, Zenon DEF ShrinkStep
<1>3. \A j \in DOMAIN Stored : Removing(j) \/ j \in DOMAIN Stored'
  BY StoredIs, StoredBecomes, Zenon DEF ShrinkStep
<1> QED BY <1>1, <1>2, <1>3, Zenon

LEMMA GrowKeeps ==
  ASSUME IInv, NEW i \in Ids, NEW c \in Callers, GrowStep(i, c)
  PROVE  /\ i \notin DOMAIN Stored /\ DOMAIN Stored' = DOMAIN Stored \cup {i}
         /\ \A j \in DOMAIN Stored : Stored'[j] = Stored[j] /\ Stored[j] # Stored'[i]
<1>1. /\ DOMAIN table' = DOMAIN table \cup {i} /\ i \notin DOMAIN table
      /\ \A j \in DOMAIN table : table'[j].value = table[j].value
      /\ table'[i].value = call[c].pkg
      /\ call[c].pkg # 0
  BY Zenon DEF GrowStep
<1>2. /\ DOMAIN files' = DOMAIN files \cup {i} /\ files'[i] = call[c].pkg
      /\ \A j \in DOMAIN files \ {i} : files'[j] = files[j]
  BY Zenon DEF GrowStep, With
<1>3. \A j \in DOMAIN table : table[j].value # call[c].pkg
  BY <1>1, Zenon DEF IInv, Fresh
<1>4. i \notin DOMAIN Stored /\ DOMAIN Stored' = DOMAIN Stored \cup {i}
  BY <1>1, <1>2, StoredIs, StoredBecomes, SMTT(60)
<1>5. Stored'[i] = call[c].pkg /\ \A j \in DOMAIN Stored : Stored'[j] = Stored[j]
  BY <1>1, <1>4, StoredIs, StoredBecomes
<1> QED BY <1>3, <1>4, <1>5, StoredIs

\* The asset manager implements the cache (AssetManager.CacheSpec): whatever fails,
\* whoever calls and whenever the process dies, an identifier that finds an asset
\* finds the same one until it finds none, and a new one only holds a package that
\* no other identifier finds.
THEOREM ImplementsCache == Spec => CacheSpec
<1>1. Init => Cache!Init
  <2> SUFFICES ASSUME Init PROVE Stored = [i \in {} |-> 0]
    BY Zenon DEF Cache!Init
  <2>1. table = [i \in {} |-> 0]
    BY Zenon DEF Init, Empty
  <2>2. {j \in Ids : Valid(j)} = {}
    BY <2>1, Zenon DEF Valid
  <2> QED BY <2>2, Zenon DEF Stored
<1>2. ASSUME IInv, [Next]_vars PROVE Cache!Next
  <2>1. CASE ShrinkStep
    BY <2>1, ShrinkKeeps, Zenon DEF Cache!Next, Cache!Drop, Cache!Keep
  <2>2. ASSUME NEW i \in Ids, NEW c \in Callers, GrowStep(i, c) PROVE Cache!Next
    <3>1. i \in DOMAIN Stored' /\ Cache!Put(i)
      BY <1>2, <2>2, GrowKeeps, Zenon DEF Cache!Put, Cache!Keep
    <3> QED BY <3>1, Zenon DEF Cache!Next
  <2>3. DiskStep
    BY <1>2, EveryDiskStep, Zenon
  <2> QED BY <2>1, <2>2, <2>3, Zenon DEF DiskStep
<1>3. IInv /\ [Next]_vars => [Cache!Next]_Stored
  BY <1>2, Zenon
<1> QED BY <1>1, <1>3, Invariance, PTL DEF Spec, CacheSpec, Cache!Spec

\* A valid asset disappears only in a block whose work it is to remove it
\* (AssetManager.OnlyRemovalsDrop): _storeAssetAtURL, initWithDatabase and the
\* cleanup of the trash take none away, a failed transaction of theirs and a crash
\* in the middle of one included.
THEOREM OnlyRemovals == Spec => OnlyRemovalsDrop
<1> DEFINE Dropping == \A i \in DOMAIN Stored : i \in DOMAIN Stored' \/
                         /\ queue # <<>>
                         /\ \/ Head(queue).op = "remove" /\ Head(queue).id = i
                            \/ Head(queue).op = "purge"
                            \/ Head(queue).op = "compact" /\ i \notin Alive
<1>1. ASSUME IInv, [Next]_vars PROVE Dropping
  <2>1. CASE ShrinkStep
    BY <2>1, ShrinkKeeps, Zenon DEF Removing
  <2>2. ASSUME NEW i \in Ids, NEW c \in Callers, GrowStep(i, c) PROVE Dropping
    BY <1>1, <2>2, GrowKeeps, Zenon
  <2>3. DiskStep
    BY <1>1, EveryDiskStep, Zenon
  <2> QED BY <2>1, <2>2, <2>3, Zenon DEF DiskStep
<1>2. IInv /\ [Next]_vars => [Dropping]_vars
  BY <1>1, Zenon
<1> QED BY <1>2, Invariance, PTL DEF Spec, OnlyRemovalsDrop

\* As long as every commit succeeds, neither the size in the meta store nor the
\* estimate that triggers compaction falls below what the stored assets weigh
\* (AssetManager.SizeAccounted).  A commit of _purge that fails would reset the
\* estimate over assets that are still there.
THEOREM SizesCover == ASSUME "commit" \notin Faults PROVE Spec => []SizeAccounted
<1>1. Init => SizeAccounted
  <2> SUFFICES ASSUME Init PROVE SizeAccounted
    OBVIOUS
  <2>1. SizeOf(Empty) = 0
    BY SizeNat, Zenon
  <2> QED BY <2>1 DEF Init, SizeAccounted
<1>2. IInv /\ SizeAccounted /\ [Next]_vars => SizeAccounted'
  BY EveryDiskStep, Zenon DEF DiskStep
<1> QED BY <1>1, <1>2, Invariance, PTL DEF Spec
=============================================================================
