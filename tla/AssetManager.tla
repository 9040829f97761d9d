----------------------------- MODULE AssetManager -----------------------------
(***************************************************************************)
(* The asset manager of the Core ML delegate and the key-value store it    *)
(* keeps its index in, from backends/apple/coreml/runtime/delegate and     *)
(* kvstore.                                                                *)
(***************************************************************************)
EXTENDS Integers, Functions, Sequences, FiniteSets, FiniteSetsExt

(* The key-value store of the Core ML delegate (kvstore): a SQLite table   *)
(* with an access count and an access time per entry, both indexed, and a  *)
(* clock of accesses in memory.  A store is a record [rows, clock]; rows   *)
(* maps the keys of the table to [value, count, time].                     *)
(*                                                                         *)
(* The sorted queries walk an index while their callback runs.  A callback *)
(* that calls get() updates the entry it is looking at: SQLite moves the   *)
(* entry in the index, and when it moves ahead of the cursor the walk      *)
(* meets it again.  Entries of equal count or time are met in the order of *)
(* their rowids, which rank gives.                                         *)

Empty == [k \in {} |-> 0]
Without(f, S) == Restrict(f, DOMAIN f \ S)
With(f, k, v) == [x \in DOMAIN f \cup {k} |-> IF x = k THEN v ELSE f[x]]

\* init(): the clock is set from the success of the query for the latest access
\* time, which is 1, and not from the time that the query reads.
init(rows) == [rows |-> rows, clock |-> 1]

get(s, k) ==
  [rows  |-> [s.rows EXCEPT ![k].count = @ + 1, ![k].time = s.clock],
   clock |-> s.clock + 1]

put(s, k, v) ==
  [rows  |-> With(s.rows, k, [value |-> v, count |-> 1, time |-> s.clock]),
   clock |-> s.clock + 1]

remove(s, k) == [s EXCEPT !.rows = Without(@, {k})]

purge(s) == init(Empty)

-----------------------------------------------------------------------------
(* The sorted queries *)

Before(p, q) == p[1] < q[1] \/ (p[1] = q[1] /\ p[2] < q[2])

\* A row of get_keys_sorted_by_access_count(), ascending, whose callback calls get()
\* on the keys outside skip until the values it got weigh need.
NextByCount(w, rank, skip, weight) ==
  LET rows == w.store.rows
      At(k) == <<rows[k].count, rank[k]>>
      ahead == {k \in DOMAIN rows : Before(w.cursor, At(k))}
      key == CHOOSE k \in ahead : \A j \in ahead \ {k} : Before(At(k), At(j))
  IN  IF w.need <= 0 \/ ahead = {} THEN w
      ELSE IF key \in skip THEN [w EXCEPT !.cursor = At(key)]
      ELSE [store |-> get(w.store, key), cursor |-> At(key), keys |-> Append(w.keys, key),
            need |-> w.need - weight[rows[key].value]]

\* The whole walk: it meets a skipped key once, and what it gets weighs something.
CollectByCount(s, rank, skip, weight, need) ==
  LET most == need + Cardinality(DOMAIN s.rows)
      walk[n \in 0 .. most] ==
        IF n = 0 THEN [store |-> s, cursor |-> <<0, 0>>, keys |-> <<>>, need |-> need]
        ELSE NextByCount(walk[n - 1], rank, skip, weight)
  IN  walk[most]

\* A row of get_keys_sorted_by_access_time(), descending, whose callback calls get()
\* on every key.
NextByTime(w, rank) ==
  LET rows == w.store.rows
      At(k) == <<rows[k].time, rank[k]>>
      ahead == {k \in DOMAIN rows : w.cursor = <<>> \/ Before(At(k), w.cursor)}
      key == CHOOSE k \in ahead : \A j \in ahead \ {k} : Before(At(j), At(k))
  IN  IF ahead = {} THEN w
      ELSE [store |-> get(w.store, key), cursor |-> At(key), keys |-> Append(w.keys, key)]

\* The walk that ends when the callback got max of them.
CollectByTime(s, rank, max) ==
  LET walk[n \in 0 .. max] ==
        IF n = 0 THEN [store |-> s, cursor |-> <<>>, keys |-> <<>>]
        ELSE NextByTime(walk[n - 1], rank)
  IN  walk[max]

-----------------------------------------------------------------------------
(* The asset manager of the Core ML delegate: compiled models cached in a  *)
(* directory, with a row per asset in a key-value store and the size of    *)
(* the whole in another.                                                   *)
(*                                                                         *)
(* Callers hand blocks to a serial queue, and wait for theirs; compaction  *)
(* and the cleanup of broken assets are queued without waiting.  A block   *)
(* changes the database in a transaction and moves files inside it.  The   *)
(* database rolls back when a step fails or the process dies; the moves do *)
(* not.  A caller opens the files of an asset it looked up outside the     *)
(* queue.                                                                  *)
(*                                                                         *)
(* A package is a number, in the order in which packages are written.      *)
(* Every package has a file, and is written to the trash directory before  *)
(* it is stored, as the model manager writes precompiled models.  A caller *)
(* has at most one asset object per identifier.                            *)

CONSTANTS
  Ids,         \* asset identifiers
  Callers,     \* threads that use the manager
  PkgSize,     \* size of each package, in the order in which they are written
  MaxAssets,   \* maxAssetsSizeInBytes
  Faults,      \* what may fail: "db", "move", "commit"
  MaxCalls,    \* bound on the calls made
  MaxCrashes   \* bound on the crashes

NoOne == 0

ASSUME AssetAssumption ==
  /\ IsFiniteSet(Ids) /\ IsFiniteSet(Callers) /\ NoOne \notin Callers
  /\ PkgSize \in Seq(Nat \ {0}) /\ MaxAssets \in Nat
  /\ Faults \subseteq {"db", "move", "commit"}
  /\ MaxCalls \in Nat /\ MaxCrashes \in Nat

VARIABLES
  table,      \* rows of the assets store, by identifier
  total,      \* size of all assets in the meta store
  files,      \* the assets directory: the package of each identifier
  clock,      \* lastAccessTime_ of the assets store
  estimate,   \* _estimatedSizeInBytes
  held,       \* asset objects of each caller, by identifier
  inUse,      \* assetsInUseMap: the caller whose object is in the map
  queue,      \* blocks of syncQueue, the one that runs first
  cleaning,   \* removeFilesInTrashDirectory is queued
  call,       \* each caller: [at, id, pkg], with the package in the trash directory
              \* that it wants to store
  written,    \* number of packages written
  up,         \* the manager exists
  calls,      \* number of calls made
  crashes     \* number of crashes

disk == <<table, total, files>>
memory == <<clock, estimate>>
objects == <<held, inUse>>
bounds == <<calls, crashes>>
vars == <<disk, memory, objects, queue, cleaning, call, written, up, bounds>>

Packages == 1 .. Len(PkgSize)
Idle == [at |-> "idle", id |-> NoOne, pkg |-> 0]

\* A block of the queue; for is the caller that waits for it.
Block(op, id, for) == [op |-> op, id |-> id, for |-> for, size |-> 0,
                       chosen |-> FALSE, victims |-> <<>>]

Init ==
  /\ table = Empty /\ total = 0 /\ files = Empty
  /\ clock = 1 /\ estimate = 0
  /\ held = [c \in Callers |-> Empty] /\ inUse = [i \in Ids |-> NoOne]
  /\ queue = <<>> /\ cleaning = FALSE
  /\ call = [c \in Callers |-> Idle] /\ written = 0
  /\ up = TRUE /\ calls = 0 /\ crashes = 0

-----------------------------------------------------------------------------
(* Assets *)

Store == [rows |-> table, clock |-> clock]

\* is_asset_valid(): the files on disk are the ones the row describes.
Valid(i) == i \in DOMAIN table /\ i \in DOMAIN files /\ files[i] = table[i].value

is_asset_alive(i) == inUse[i] # NoOne /\ held[inUse[i]][i].open # 0
Alive == {i \in Ids : is_asset_alive(i)}

SizeOf(rows) == MapThenSumSet(LAMBDA i : PkgSize[rows[i].value], DOMAIN rows)

\* The directory when the packages of the identifiers S are moved to the trash,
\* where nothing looks for them again.
ToTrash(S) == Without(files, S)

\* What a block may leave behind: ok, the store, the disk and the estimate.
Unchanged == [ok |-> FALSE, store |-> Store, total |-> total, files |-> files, estimate |-> estimate]

Becomes(r) ==
  /\ table' = r.store.rows /\ clock' = r.store.clock
  /\ total' = r.total /\ files' = r.files /\ estimate' = r.estimate

-----------------------------------------------------------------------------
(* Transactions.  Neither the files nor the clock of the store are rolled   *)
(* back when a step fails.                                                  *)

\* Database::transaction(): the outcomes when all goes well and when an update, a
\* move of files or the commit fails, as far as F says they may.
Transaction(F, done, update, move, commit) ==
  {done} \cup {update : f \in F \cap {"db"}} \cup {move : f \in F \cap {"move"}}
         \cup {commit : f \in F \cap {"commit"}}

\* The transaction is rolled back; s is the store before it, fs the directory now.
Undone(s, fs) == [Unchanged EXCEPT !.store = s, !.files = fs]

\* _removeAssetWithIdentifier: the lookup comes before the transaction.
RemoveAsset(i, F) ==
  LET s == get(Store, i)
      size == IF estimate < PkgSize[table[i].value] THEN estimate ELSE PkgSize[table[i].value]
      done == [ok |-> TRUE, store |-> remove(s, i), total |-> estimate - size,
               files |-> ToTrash({i}), estimate |-> estimate - size]
  IN  IF is_asset_alive(i) THEN {Unchanged}
      ELSE IF i \notin DOMAIN table THEN {[Unchanged EXCEPT !.ok = TRUE]}
      ELSE Transaction(F, done, Undone(s, files), Undone(s, files), Undone(s, done.files))

\* Mutant of StoreAsset: the row of an asset with the identifier is overwritten.
StoreAssetReplaces(i, p, F) ==
  LET size == estimate + PkgSize[p]
  IN  IF p = 0 \/ is_asset_alive(i) THEN {Unchanged}
      ELSE {[ok |-> TRUE, store |-> put(Store, i, p), total |-> size, files |-> With(files, i, p),
             estimate |-> size]}

\* Mutant of StoreAsset: the old file is moved away before its row is removed.
StoreAssetMovesFirst(i, p, F) ==
  LET size == estimate + PkgSize[p]
  IN  IF p = 0 \/ is_asset_alive(i) THEN {Unchanged}
      ELSE IF i \in DOMAIN table THEN {[Unchanged EXCEPT !.files = ToTrash({i})]}
      ELSE {[ok |-> TRUE, store |-> put(Store, i, p), total |-> size, files |-> With(files, i, p),
             estimate |-> size]}

\* _storeAssetAtURL: when there is a row with the identifier, the removal of the
\* old asset begins a transaction inside this one, which SQLite refuses, and the
\* store fails.  A file without a row is moved to the trash first.
StoreAsset(i, p, F) ==
  LET s == put(Store, i, p)
      b == [rows |-> table, clock |-> s.clock]
      size == estimate + PkgSize[p]
      done == [ok |-> TRUE, store |-> s, total |-> size, files |-> With(files, i, p),
               estimate |-> size]
  IN  IF p = 0 \/ is_asset_alive(i) THEN {Unchanged}
      ELSE IF i \in DOMAIN table THEN {[Unchanged EXCEPT !.store.clock = @ + 1]}
      ELSE Transaction(F, done, Undone(b, files), Undone(b, ToTrash({i})), Undone(b, done.files))

\* _purge: the tables are dropped and created again, which resets the clock, and
\* the estimate is reset before the commit.
PurgeAssets(F) ==
  LET done == [ok |-> TRUE, store |-> purge(Store), total |-> 0, files |-> ToTrash(DOMAIN files),
               estimate |-> 0]
  IN  Transaction(F, done, Unchanged, Undone(init(table), files),
                  [Undone(init(table), done.files) EXCEPT !.estimate = 0])

-----------------------------------------------------------------------------
(* Calls *)

Return(c) == call' = IF c = NoOne THEN call ELSE [call EXCEPT ![c] = Idle]

\* compiledModelURLWithIdentifier: the model manager writes a package.
Write(c) ==
  /\ up /\ call[c].at = "idle" /\ written < Len(PkgSize)
  /\ written' = written + 1
  /\ call' = [call EXCEPT ![c] = [at |-> "written", id |-> NoOne, pkg |-> written + 1]]
  /\ UNCHANGED <<disk, memory, objects, queue, cleaning, up, bounds>>

\* A caller hands a block to the queue and waits (dispatch_sync).
Submit(c, b) ==
  /\ up /\ calls < MaxCalls /\ calls' = calls + 1
  /\ call' = [call EXCEPT ![c].at = "waiting", ![c].id = b.id]
  /\ queue' = Append(queue, b)
  /\ UNCHANGED <<disk, memory, objects, cleaning, written, up, crashes>>

CallStore(c) ==
  /\ call[c].at = "written"
  /\ \E i \in Ids \ DOMAIN held[c] :
       Submit(c, Block("store", i, c))

CallLookup(c) ==
  /\ call[c].at = "idle"
  /\ \E i \in Ids \ DOMAIN held[c] : Submit(c, Block("lookup", i, c))

CallRemove(c) == call[c].at = "idle" /\ \E i \in Ids : Submit(c, Block("remove", i, c))

CallRecent(c) ==
  /\ call[c].at = "idle" /\ held[c] = Empty
  /\ \E n \in 1 .. Cardinality(Ids) : Submit(c, [Block("recent", NoOne, c) EXCEPT !.size = n])

CallCompact(c) ==
  /\ call[c].at = "idle"
  /\ \E n \in {0, MaxAssets} : Submit(c, [Block("compact", NoOne, c) EXCEPT !.size = n])

CallPurge(c) == call[c].at = "idle" /\ Submit(c, Block("purge", NoOne, c))

-----------------------------------------------------------------------------
(* Blocks of the serial queue *)

Running(op) == queue # <<>> /\ Head(queue).op = op
Finish == queue' = Tail(queue)

\* A new object for the row of identifier i goes to caller c and into the map.
NewObject(i, rows) == [pkg |-> rows[i].value, valid |-> Valid(i), open |-> 0]

RunStore ==
  /\ Running("store") /\ Finish
  /\ LET b == Head(queue)
         p == call[b.for].pkg
     IN  \E r \in StoreAsset(b.id, p, Faults) :
           /\ Becomes(r) /\ call' = [call EXCEPT ![b.for] = [Idle EXCEPT !.at = "stored"]]
           /\ IF r.ok
              THEN /\ held' = [held EXCEPT ![b.for] = With(@, b.id,
                                 [pkg |-> p, valid |-> TRUE, open |-> p])]
                   /\ inUse' = [inUse EXCEPT ![b.id] = b.for]
              ELSE UNCHANGED objects
  /\ UNCHANGED <<cleaning, written, up, bounds>>

\* _assetWithIdentifier: the object enters the map before its files are open.
RunLookup ==
  /\ Running("lookup") /\ Finish
  /\ LET b == Head(queue)
     IN  IF b.id \in DOMAIN table
         THEN /\ table' = get(Store, b.id).rows /\ clock' = get(Store, b.id).clock
              /\ held' = [held EXCEPT ![b.for] = With(@, b.id, NewObject(b.id, table))]
              /\ inUse' = [inUse EXCEPT ![b.id] = b.for]
              /\ call' = [call EXCEPT ![b.for].at = "fetched"]
         ELSE Return(b.for) /\ UNCHANGED <<table, clock, objects>>
  /\ UNCHANGED <<total, files, estimate, cleaning, written, up, bounds>>

\* assetWithIdentifier, after the block: open the files at the path, or have a
\* broken asset removed.  The object is returned either way.
KeepAlive(c) ==
  /\ call[c].at = "fetched" /\ Return(c)
  /\ LET i == call[c].id
         o == held[c][i]
     IN  IF o.valid /\ i \in DOMAIN files
         THEN /\ held' = [held EXCEPT ![c][i].open = files[i]]
              /\ inUse' = [inUse EXCEPT ![i] = c]
              /\ UNCHANGED queue
         ELSE /\ queue' = IF o.valid THEN queue ELSE Append(queue, Block("remove", i, NoOne))
              /\ UNCHANGED objects
  /\ UNCHANGED <<disk, memory, cleaning, written, up, bounds>>

\* removeAssetWithIdentifier, and the block of cleanupAssetIfNeeded
RunRemove ==
  /\ Running("remove") /\ Finish /\ Return(Head(queue).for)
  /\ \E r \in RemoveAsset(Head(queue).id, Faults) : Becomes(r)
  /\ UNCHANGED <<objects, cleaning, written, up, bounds>>

\* _recentlyUsedAssetsWithMaxCount: new objects, closed, replace those in the map.
RunRecent ==
  /\ Running("recent") /\ Finish
  /\ LET b == Head(queue)
     IN  \E rank \in Injection(Ids, 1 .. Cardinality(Ids)) :
           LET w == CollectByTime(Store, rank, b.size)
               got == Range(w.keys)
           IN  /\ table' = w.store.rows /\ clock' = w.store.clock
               /\ held' = [held EXCEPT ![b.for] = [i \in got |-> NewObject(i, table)]]
               /\ inUse' = [i \in Ids |-> IF i \in got THEN b.for ELSE inUse[i]]
               /\ Return(b.for)
  /\ UNCHANGED <<total, files, estimate, cleaning, written, up, bounds>>

RunPurge ==
  /\ Running("purge") /\ Finish /\ Return(Head(queue).for)
  /\ \E r \in PurgeAssets(Faults) : Becomes(r) /\ cleaning' = (cleaning \/ r.ok)
  /\ UNCHANGED <<objects, written, up, bounds>>

\* triggerCompaction, which reads the estimate outside the queue
Trigger(e) == IF e < MaxAssets THEN <<>>
              ELSE <<[Block("compact", NoOne, NoOne) EXCEPT !.size = MaxAssets]>>

AfterStore(c) ==
  /\ call[c].at = "stored" /\ Return(c)
  /\ queue' = queue \o Trigger(estimate)
  /\ UNCHANGED <<disk, memory, objects, cleaning, written, up, bounds>>

\* _compact, first step: nothing to do, a purge, or get_assets_to_remove().
ChooseVictims ==
  /\ Running("compact") /\ ~Head(queue).chosen
  /\ LET b == Head(queue)
     IN  \/ /\ b.size = 0 /\ Alive = {}
            /\ \E r \in PurgeAssets(Faults) : Becomes(r) /\ cleaning' = (cleaning \/ r.ok)
            /\ Finish /\ Return(b.for)
         \/ /\ ~(b.size = 0 /\ Alive = {}) /\ estimate <= b.size
            /\ Finish /\ Return(b.for)
            /\ UNCHANGED <<disk, memory, cleaning>>
         \/ /\ ~(b.size = 0 /\ Alive = {}) /\ estimate > b.size
            /\ \E rank \in Injection(Ids, 1 .. Cardinality(Ids)) :
                 LET w == CollectByCount(Store, rank, Alive, PkgSize, estimate - b.size)
                 IN  /\ table' = w.store.rows /\ clock' = w.store.clock
                     /\ queue' = <<[b EXCEPT !.chosen = TRUE, !.victims = w.keys]>> \o Tail(queue)
            /\ UNCHANGED <<total, files, estimate, cleaning, call>>
  /\ UNCHANGED <<objects, written, up, bounds>>

RemoveVictim ==
  /\ Running("compact") /\ Head(queue).victims # <<>>
  /\ \E r \in RemoveAsset(Head(Head(queue).victims), Faults) : Becomes(r)
  /\ queue' = [queue EXCEPT ![1].victims = Tail(@)]
  /\ UNCHANGED <<objects, cleaning, call, written, up, bounds>>

CompactReturns ==
  /\ Running("compact") /\ Head(queue).chosen /\ Head(queue).victims = <<>>
  /\ cleaning' = TRUE /\ Finish /\ Return(Head(queue).for)
  /\ UNCHANGED <<disk, memory, objects, written, up, bounds>>

-----------------------------------------------------------------------------
(* Outside the queue *)

\* prewarmAndReturnError opens the files of an object.
Prewarm(c) ==
  /\ call[c].at = "idle"
  /\ \E i \in DOMAIN held[c] \cap DOMAIN files :
       /\ held[c][i].valid /\ held[c][i].open = 0
       /\ held' = [held EXCEPT ![c][i].open = files[i]]
  /\ UNCHANGED <<disk, memory, inUse, queue, cleaning, call, written, up, bounds>>

\* A caller drops an object; the map refers to it weakly.
Close(c) ==
  /\ call[c].at = "idle"
  /\ \E i \in DOMAIN held[c] :
       /\ held' = [held EXCEPT ![c] = Without(@, {i})]
       /\ inUse' = [inUse EXCEPT ![i] = IF @ = c THEN NoOne ELSE @]
  /\ UNCHANGED <<disk, memory, queue, cleaning, call, written, up, bounds>>

removeFilesInTrashDirectory ==
  /\ cleaning /\ cleaning' = FALSE
  /\ call' = [c \in Callers |-> [call[c] EXCEPT !.pkg = 0]]
  /\ UNCHANGED <<disk, memory, objects, queue, written, up, bounds>>

-----------------------------------------------------------------------------
(* Crash and restart *)

\* What the running block may have done to the disk when the process dies: what
\* it leaves when one of its steps fails, for the database rolls back.
Interrupted ==
  LET b == Head(queue)
      all == {"db", "move", "commit"}
  IN  {Unchanged} \cup
      {r \in CASE Running("store") -> StoreAsset(b.id, call[b.for].pkg, all)
               [] Running("remove") -> RemoveAsset(b.id, all)
               [] Running("purge") -> PurgeAssets(all)
               [] Running("compact") /\ b.victims # <<>> -> RemoveAsset(Head(b.victims), all)
               [] Running("compact") /\ b.size = 0 /\ Alive = {} -> PurgeAssets(all)
               [] OTHER -> {} : ~r.ok}

Crash ==
  /\ up /\ crashes < MaxCrashes /\ crashes' = crashes + 1 /\ up' = FALSE
  /\ \E r \in Interrupted : table' = r.store.rows /\ files' = r.files
  /\ clock' = 1 /\ estimate' = 0
  /\ held' = [c \in Callers |-> Empty] /\ inUse' = [i \in Ids |-> NoOne]
  /\ queue' = <<>> /\ cleaning' = FALSE /\ call' = [c \in Callers |-> Idle]
  /\ UNCHANGED <<total, written, calls>>

\* Mutant of Restart: the size in the meta store is not read.
RestartFromZero ==
  /\ ~up /\ up' = TRUE
  /\ estimate' = 0 /\ clock' = 1
  /\ IF DOMAIN files = {} THEN table' = Empty /\ total' = 0 ELSE UNCHANGED <<table, total>>
  /\ UNCHANGED <<files, objects, queue, cleaning, call, written, bounds>>

\* initWithDatabase: the size is read before the stores are purged, which they are
\* when the assets directory is empty.
Restart ==
  /\ ~up /\ up' = TRUE
  /\ estimate' = total /\ clock' = 1
  /\ IF DOMAIN files = {} THEN table' = Empty /\ total' = 0 ELSE UNCHANGED <<table, total>>
  /\ queue' = Trigger(total)
  /\ UNCHANGED <<files, objects, cleaning, call, written, bounds>>

-----------------------------------------------------------------------------

Queue == \/ RunStore \/ RunLookup \/ RunRemove \/ RunRecent \/ RunPurge
         \/ ChooseVictims \/ RemoveVictim \/ CompactReturns

Calling(c) == \/ CallStore(c) \/ CallLookup(c) \/ CallRemove(c) \/ CallRecent(c)
              \/ CallCompact(c) \/ CallPurge(c)

Next ==
  \/ Queue \/ removeFilesInTrashDirectory \/ Crash \/ Restart
  \/ \E c \in Callers : Write(c) \/ Calling(c) \/ KeepAlive(c) \/ AfterStore(c)
                        \/ Prewarm(c) \/ Close(c)

Spec == Init /\ [][Next]_vars

-----------------------------------------------------------------------------
(* Properties *)

Partial(D, R) == UNION {[S -> R] : S \in SUBSET D}

\* Every variable has the type of the field or the file it models, and the map of
\* assets in use refers to objects that exist.
TypeOK ==
  /\ DOMAIN table \subseteq Ids
  /\ \A i \in DOMAIN table : table[i].value \in Packages /\ table[i].count > 0 /\ table[i].time > 0
  /\ files \in Partial(Ids, Packages)
  /\ written \in 0 .. Len(PkgSize) /\ \A c \in Callers : call[c].pkg \in 0 .. written
  /\ {total, clock, estimate, crashes} \subseteq Nat /\ {cleaning, up} \subseteq BOOLEAN
  /\ \A c \in Callers :
       held[c] \in Partial(Ids, [pkg : Packages, valid : BOOLEAN, open : Packages \cup {0}])
  /\ \A i \in Ids : inUse[i] \in Callers => i \in DOMAIN held[inUse[i]]
  /\ \A c \in Callers : call[c].at = "fetched" => call[c].id \in DOMAIN held[c]

\* Neither the size in the meta store nor the estimate in memory, which decide
\* when the store is compacted, is ever less than what the stored assets weigh:
\* not after failed updates or moves, a crash in the middle of a block, or a
\* restart that found the directory empty.
SizeAccounted == SizeOf(table) <= total /\ (up => SizeOf(table) <= estimate)

\* The assets that a lookup would find valid, and what they hold.
Stored == [i \in {j \in Ids : Valid(j)} |-> table[i].value]

\* The database and the directory together implement a cache: an identifier that
\* has no asset gets one, complete; an asset goes as a whole; nothing else, and no
\* crash, changes what an identifier finds.
Cache == INSTANCE AssetCache WITH stored <- Stored
CacheSpec == Cache!Spec

\* A valid asset disappears only in a block whose work it is to remove it: no
\* store, no restart and no cleanup of the trash takes it away, and a crash only
\* what the block was removing.
OnlyRemovalsDrop ==
  [][\A i \in DOMAIN Stored : i \in DOMAIN Stored' \/
       /\ queue # <<>>
       /\ \/ Head(queue).op = "remove" /\ Head(queue).id = i
          \/ Head(queue).op = "purge"
          \/ Head(queue).op = "compact" /\ i \notin Alive]_vars

=============================================================================
