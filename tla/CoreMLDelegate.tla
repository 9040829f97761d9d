--------------------------- MODULE CoreMLDelegate ---------------------------
(***************************************************************************)
(* The Core ML backend, from backends/apple/coreml/runtime/delegate and    *)
(* runtime/sdk: the delegate, the model manager behind it, the loader, the *)
(* model and its executors.                                                *)
(*                                                                         *)
(* Clients are threads, each with one method.  A load finds the compiled   *)
(* model in the cache of assets or compiles it; loads of one identifier    *)
(* take turns on a queue.  The cache may drop any asset, is the one of     *)
(* AssetCache, and the directory models are written to on their way to it  *)
(* is emptied now and then.  A package is a number, in the order in which  *)
(* packages are written; a path is a directory and what names a package in *)
(* it.  Core ML is a function from the input and the state to the output.  *)
(***************************************************************************)
EXTENDS Integers, Sequences, SequencesExt, Functions, FiniteSets

CONSTANTS
  Clients,    \* threads
  Models,     \* by identifier: [in, out, stateful], what the types of the arguments are
              \* to the types the model has ("same" or "other"), and if it has state
  Forms,      \* what the blobs hold: "Model", "CompiledModel", or "none" when corrupted
  Builds,     \* "release", or "tracing" (ET_EVENT_TRACER_ENABLED)
  Logs,       \* what the caller asks to log: subsets of {"profile", "debug"}
  Feeds,      \* inputs, not zero
  Faults,     \* what may fail: "manager", "lookup", "model", "write", "compile", "store",
              \* "predict", "plan"
  MaxLoads,   \* bound on the calls of init
  MaxCalls    \* bound on the calls of execute

Ids == DOMAIN Models
None == <<>>

VARIABLES
  build,      \* how the delegate was compiled
  impl,       \* the model manager exists
  stored,     \* the package each identifier finds in the cache of assets
  loose,      \* packages in the trash directory and in the temporary one
  warming,    \* assets on the prewarm queue
  prewarmed,  \* modelIdentifierToPrewarmedAssetMap
  executors,  \* handleToExecutorMap, by the client that has the handle
  client,     \* what each client does
  outs,       \* the output tensor of each client
  written,    \* number of packages written
  compiles,   \* by identifier: times the model was compiled
  lost,       \* by identifier: times an asset was dropped, not stored or not usable
  loads, calls

shared == <<build, impl, warming, prewarmed>>
files == <<stored, loose>>
counts == <<written, compiles, lost, loads, calls>>
vars == <<shared, files, executors, client, outs, counts>>

Empty == [i \in {} |-> 0]
With(f, i, v) == [j \in DOMAIN f \cup {i} |-> IF j = i THEN v ELSE f[j]]
Without(f, S) == [j \in DOMAIN f \ S |-> f[j]]
More(f, i) == [f EXCEPT ![i] = @ + 1]

Idle == [at |-> "idle", id |-> CHOOSE i \in Ids : TRUE, form |-> "none", url |-> None,
         asset |-> None, source |-> FALSE, hit |-> FALSE, fed |-> 0, steps |-> 0]

Path(dir, pkg) == [dir |-> dir, pkg |-> pkg]
Asset(i, path) == [id |-> i, path |-> path]

Init ==
  /\ build \in Builds /\ impl = FALSE /\ loose = {}
  /\ stored \in {Empty, [i \in Ids |-> 0]}
  /\ warming = <<>> /\ prewarmed = Empty
  /\ executors = [c \in Clients |-> None] /\ client = [c \in Clients |-> Idle]
  /\ outs = [c \in Clients |-> <<0, 0>>]
  /\ written = 0 /\ loads = 0 /\ calls = 0
  /\ compiles = [i \in Ids |-> 0] /\ lost = [i \in Ids |-> 0]

\* The outcomes of a step that may fail.
May(fault) == {TRUE} \cup {FALSE : f \in Faults \cap {fault}}

FilesAt(i, path) == IF path.dir = "assets" THEN i \in DOMAIN stored ELSE path.pkg \in loose

Go(c, at) == client' = [client EXCEPT ![c].at = at]

\* The load fails; why is remembered.
Fail(c, hit) ==
  client' = [client EXCEPT ![c].at = "failed", ![c].hit = @ \/ hit, ![c].url = None, ![c].asset = None]

-----------------------------------------------------------------------------
(* The model manager comes into being on a queue, in the background or for  *)
(* the first caller that needs it.                                          *)

prewarmRecentlyUsedAssets(S) ==
  IF S = Empty THEN {<<>>} ELSE {<<Asset(i, Path("assets", 0))>> : i \in DOMAIN S}

_loadAndReturnError(ok) ==
  IF impl \/ ~ok THEN UNCHANGED <<impl, warming>>
  ELSE impl' = TRUE /\ warming' \in prewarmRecentlyUsedAssets(stored)

loadAsynchronously ==
  /\ ~impl /\ loads = 0 /\ _loadAndReturnError(TRUE)
  /\ UNCHANGED <<build, prewarmed, files, executors, client, outs, counts>>

\* The prewarm queue: the files of the asset are opened, if they are there.
addPrewarmedAsset ==
  /\ warming # <<>> /\ warming' = Tail(warming)
  /\ LET a == Head(warming)
     IN  prewarmed' = IF FilesAt(a.id, a.path) THEN With(prewarmed, a.id, a) ELSE prewarmed
  /\ UNCHANGED <<build, impl, files, executors, client, outs, counts>>

-----------------------------------------------------------------------------
(* Loading *)

\* CoreMLBackendDelegate::init as far as the queue of the identifier: the blob is
\* parsed, and its metadata names the model.
init(c) ==
  /\ client[c].at \in {"idle", "failed"} /\ executors[c] = None
  /\ loads < MaxLoads /\ loads' = loads + 1
  /\ \E i \in Ids, f \in Forms, ok \in May("manager") :
       /\ _loadAndReturnError(ok)
       /\ client' = [client EXCEPT ![c] =
            [Idle EXCEPT !.id = i, !.form = f, !.hit = ~ok,
                         !.at = IF ok \/ impl THEN "queued" ELSE "failed"]]
  /\ UNCHANGED <<build, prewarmed, files, executors, outs, written, compiles, lost, calls>>

InQueue(d) == client[d].at \in {"lookup", "open", "write", "compile", "store", "load"}

\* Mutant of enterQueue: the map of queues does not give back the queue that
\* another load waits on.
enterOwnQueue(c) ==
  /\ client[c].at = "queued" /\ Go(c, "lookup")
  /\ UNCHANGED <<shared, files, executors, outs, counts>>

\* queueForLoadingModelWithIdentifier and dispatch_sync: one load of an identifier
\* at a time.
enterQueue(c) ==
  /\ client[c].at = "queued"
  /\ \A d \in Clients : InQueue(d) => client[d].id # client[c].id
  /\ Go(c, "lookup")
  /\ UNCHANGED <<shared, files, executors, outs, counts>>

\* modelExecutorWithMetadata, assetWithIdentifier: a prewarmed asset, or one from
\* the cache.  A tracing build keeps the model it compiled from too.
assetWithIdentifier(c) ==
  /\ client[c].at = "lookup"
  /\ \E ok \in May("lookup") :
       LET i == client[c].id
           asset == IF i \in DOMAIN prewarmed THEN <<prewarmed[i]>>
                    ELSE IF i \in DOMAIN stored /\ ok THEN <<Asset(i, Path("assets", 0))>>
                    ELSE None
           tracing == build = "tracing"
       IN  /\ client' = [client EXCEPT ![c].asset = asset,
             ![c].source = tracing /\ client[c].form = "Model",
             ![c].url = IF tracing /\ asset # None THEN <<asset[1].path>> ELSE None,
             ![c].at = IF asset = None THEN "write" ELSE IF tracing THEN "store" ELSE "open",
             ![c].hit = @ \/ ~ok]
           /\ lost' = IF asset = None /\ i \in DOMAIN stored THEN More(lost, i) ELSE lost
  /\ UNCHANGED <<shared, files, executors, outs, written, compiles, loads, calls>>

\* get_model_from_asset: the files are open, or are opened at the path of the
\* asset; Core ML reads the model there.
Opens(a, ok) == ok /\ FilesAt(a.id, a.path)

\* An executor for a model; a model with state starts from zeros.
Executor == [ignore |-> FALSE, state |-> 0, cached |-> 0]

Loaded(c) ==
  /\ executors' = [executors EXCEPT ![c] = <<Executor>>]
  /\ client' = [client EXCEPT ![c].at = "loaded", ![c].url = None]

\* The asset's model; when it cannot be opened, the model is written and compiled.
openAsset(c) ==
  /\ client[c].at = "open"
  /\ \E ok \in May("model") :
       IF Opens(client[c].asset[1], ok) THEN Loaded(c) /\ UNCHANGED lost
       ELSE /\ client' = [client EXCEPT ![c].at = "write", ![c].asset = None, ![c].hit = @ \/ ~ok]
            /\ lost' = More(lost, client[c].id) /\ UNCHANGED executors
  /\ UNCHANGED <<shared, files, outs, written, compiles, loads, calls>>

\* write_model_files, to a new directory in the trash directory.
write_model_files(c) ==
  /\ client[c].at = "write"
  /\ \E ok \in May("write") :
       IF client[c].form = "none" \/ ~ok
       THEN Fail(c, TRUE) /\ UNCHANGED <<loose, written>>
       ELSE /\ written' = written + 1 /\ loose' = loose \cup {written + 1}
            /\ client' = [client EXCEPT ![c].url = <<Path("trash", written + 1)>>,
                 ![c].at = IF client[c].form = "CompiledModel" THEN "store" ELSE "compile"]
  /\ UNCHANGED <<shared, stored, executors, outs, compiles, lost, loads, calls>>

\* compileModelAtURL: Core ML compiles in the background and is waited for; a model
\* that takes too long, or whose files are gone, is not compiled.
compileModelAtURL(c) ==
  /\ client[c].at = "compile"
  /\ compiles' = More(compiles, client[c].id)
  /\ \E ok \in May("compile") :
       IF ~ok \/ ~FilesAt(client[c].id, client[c].url[1])
       THEN Fail(c, TRUE) /\ lost' = More(lost, client[c].id) /\ UNCHANGED <<loose, written>>
       ELSE /\ written' = written + 1 /\ loose' = loose \cup {written + 1}
            /\ client' = [client EXCEPT ![c].url = <<Path("temp", written + 1)>>, ![c].at = "store"]
            /\ UNCHANGED lost
  /\ UNCHANGED <<shared, stored, executors, outs, loads, calls>>

\* An asset of the identifier is in use.  is_asset_alive knows the one that was
\* handed out last, and may not know of another.
Alive(i) ==
  \/ i \in DOMAIN prewarmed
  \/ \E d \in Clients : client[d].id = i /\ client[d].asset # None /\ client[d].asset[1].path.dir = "assets"

\* loadModelWithContentsOfURL, first half: the asset by then in the cache, or the
\* model moves there.  The cache may refuse while an asset is in use.
storeAsset(c) ==
  /\ client[c].at = "store"
  /\ LET i == client[c].id
         url == client[c].url[1]
         found == <<Asset(i, Path("assets", 0))>>
     IN  \/ /\ i \in DOMAIN stored
            /\ client' = [client EXCEPT ![c].at = "load", ![c].asset = found]
            /\ UNCHANGED <<files, lost>>
         \/ /\ i \notin DOMAIN stored /\ url.dir # "assets" /\ FilesAt(i, url)
            /\ stored' = With(stored, i, url.pkg) /\ loose' = loose \ {url.pkg}
            /\ client' = [client EXCEPT ![c].at = "load", ![c].asset = found]
            /\ UNCHANGED lost
         \/ /\ i \notin DOMAIN stored
            /\ url.dir = "assets" \/ ~FilesAt(i, url) \/ "store" \in Faults \/ Alive(i)
            /\ client' = [client EXCEPT ![c].at = "load", ![c].asset = None]
            /\ lost' = More(lost, i) /\ UNCHANGED files
  /\ UNCHANGED <<shared, executors, outs, written, compiles, loads, calls>>

\* loadModelWithContentsOfURL, second half: from the asset, or from where the model
\* was compiled to.
loadModel(c) ==
  /\ client[c].at = "load"
  /\ \E ok \in May("model") :
       LET i == client[c].id
           own == Asset(i, client[c].url[1])
           there == client[c].asset # None /\ Opens(client[c].asset[1], ok)
       IN  IF there THEN Loaded(c) /\ UNCHANGED lost
           ELSE IF Opens(own, TRUE)
           THEN /\ executors' = [executors EXCEPT ![c] = <<Executor>>]
                /\ client' = [client EXCEPT ![c].at = "loaded", ![c].url = None, ![c].asset = <<own>>]
                /\ lost' = More(lost, i)
           ELSE Fail(c, ~ok) /\ lost' = More(lost, i) /\ UNCHANGED executors
  /\ UNCHANGED <<shared, files, outs, written, compiles, loads, calls>>

\* prewarmModelWithHandle: one prediction from zeros, after which the state is
\* zeros again, whether it succeeded or not.
prewarmModel(c) ==
  /\ client[c].at = "loaded"
  /\ executors' = [executors EXCEPT ![c][1].state = 0]
  /\ Go(c, "ready")
  /\ UNCHANGED <<shared, files, outs, counts>>

-----------------------------------------------------------------------------
(* Execution.  An argument whose type is the model's is used in place; any  *)
(* other goes through storage that the model keeps between calls.           *)

\* prepareArgs for one argument, with the storage the cache may have given back.
prepareArg(type, value, copyData, cached) ==
  IF type = "same" THEN [inPlace |-> TRUE, value |-> value]
  ELSE [inPlace |-> FALSE, value |-> IF copyData THEN value ELSE cached]

\* predictionFromFeatures: fails, or answers in the array it was offered for the
\* output, or in one of its own.  A model with state needs it.
Predict(m, state, usesState, input, backing) ==
  LET Outcome(ok, inPlace) ==
        [ok |-> ok, inPlace |-> inPlace, value |-> <<input.value, IF m.stateful THEN state ELSE 0>>,
         state |-> IF ok /\ m.stateful THEN state + 1 ELSE state]
      fails == {Outcome(FALSE, FALSE)}
      answers == {Outcome(TRUE, b) : b \in {FALSE, backing.offered /\ backing.inPlace}}
  IN  IF m.stateful /\ ~usesState THEN fails
      ELSE answers \cup (IF "predict" \in Faults THEN fails ELSE {})

\* executeModelWithInputs of an executor: the outcome and the outputs it hands back,
\* as a sequence of at most one.  The profiler hands back none: it was never told
\* their names.
ExecuteOnce(m, e, log, source, input, backing) ==
  LET Run(state, usesState) == Predict(m, state, usesState, input, backing)
      Given(r) == [ok |-> r.ok, state |-> r.state, inPlace |-> r.inPlace,
                   wrote |-> <<r.value>>, outputs |-> IF r.ok THEN <<r.value>> ELSE None]
      Refuse(state) == {[ok |-> FALSE, state |-> state, inPlace |-> FALSE, wrote |-> None, outputs |-> None]}
      profiled == IF "plan" \in Faults THEN Refuse(e.state) ELSE {}
      Profile == profiled \cup {[Given(r) EXCEPT !.outputs = None] : r \in Run(e.state, TRUE)}
      Debug(state) == IF ~source THEN Refuse(state)
                      ELSE {[Given(r) EXCEPT !.state = state] : r \in Run(state, FALSE)}
  IN  CASE log = {} -> {Given(r) : r \in Run(e.state, TRUE)}
        [] log = {"profile"} -> Profile
        [] log = {"debug"} -> Debug(e.state)
        [] log = {"profile", "debug"} -> UNION {Debug(r.state) : r \in Profile}

\* executeModelUsingExecutor and set_outputs: a prediction that fails is tried
\* again without offering the outputs, and they are not offered from then on.
ExecuteModel(m, e, log, source, value, out, cached) ==
  LET input == prepareArg(m.in, value, TRUE, cached)
      offer == prepareArg(m.out, out, FALSE, cached)
      Backing(offered) == [offered |-> offered, inPlace |-> offer.inPlace]
      Once(x, offered) == ExecuteOnce(m, x, log, source, input, Backing(offered))
      Done(r, ignore) ==
        [ok |-> r.ok,
         e |-> [e EXCEPT !.ignore = ignore, !.state = r.state,
                         !.cached = IF m.in = "other" THEN value ELSE 0],
         out |-> IF r.outputs # None THEN r.outputs[1]
                 ELSE IF r.ok /\ r.inPlace THEN r.wrote[1] ELSE out]
      first == Once(e, ~e.ignore)
  IN  {Done(r, e.ignore) : r \in {x \in first : x.ok \/ e.ignore}}
      \cup UNION {{Done(s, TRUE) : s \in Once([e EXCEPT !.state = r.state], FALSE)} :
                    r \in {x \in first : ~x.ok /\ ~e.ignore}}

execute(c) ==
  /\ client[c].at = "ready" /\ calls < MaxCalls /\ calls' = calls + 1
  /\ \E v \in Feeds, log \in (IF build = "tracing" THEN Logs ELSE {{}}),
        cached \in {0, executors[c][1].cached} :
       \E r \in ExecuteModel(Models[client[c].id], executors[c][1], log, client[c].source,
                             v, outs[c], cached) :
         /\ executors' = [executors EXCEPT ![c] = <<r.e>>]
         /\ outs' = [outs EXCEPT ![c] = r.out]
         /\ client' = [client EXCEPT ![c].at = IF r.ok THEN "done" ELSE "error", ![c].fed = v,
              ![c].form = IF log = {} THEN "plain" ELSE "logged",
              ![c].steps = IF r.ok /\ Models[client[c].id].stateful THEN @ + 1 ELSE @]
  /\ UNCHANGED <<shared, files, written, compiles, lost, loads>>

executed(c) ==
  /\ client[c].at \in {"done", "error"} /\ Go(c, "ready")
  /\ UNCHANGED <<shared, files, executors, outs, counts>>

destroy(c) ==
  /\ client[c].at = "ready"
  /\ executors' = [executors EXCEPT ![c] = None]
  /\ client' = [client EXCEPT ![c] = Idle]
  /\ UNCHANGED <<shared, files, outs, counts>>

-----------------------------------------------------------------------------
(* The cache *)

\* The asset manager drops assets: all of them when purge_models_cache is called,
\* those not in use when it compacts.
Drop ==
  /\ impl /\ stored # Empty
  /\ \E S \in {DOMAIN stored} \cup (SUBSET {i \in DOMAIN stored : ~Alive(i)} \ {{}}) :
       /\ stored' = Without(stored, S)
       /\ lost' = [i \in Ids |-> IF i \in S THEN lost[i] + 1 ELSE lost[i]]
       /\ client' = [c \in Clients |->
            IF client[c].at = "load" /\ client[c].id \in S THEN [client[c] EXCEPT !.hit = TRUE] ELSE client[c]]
  /\ UNCHANGED <<shared, loose, executors, outs, written, compiles, loads, calls>>

\* removeFilesInTrashDirectory, which takes what loads have just written there too.
InTrash == {p \in loose : \E d \in Clients : client[d].url = <<Path("trash", p)>>}

removeFilesInTrashDirectory ==
  /\ impl /\ InTrash # {}
  /\ loose' = loose \ InTrash
  /\ client' = [c \in Clients |->
       IF client[c].url # None /\ client[c].url[1].dir = "trash"
       THEN [client[c] EXCEPT !.hit = TRUE] ELSE client[c]]
  /\ UNCHANGED <<shared, stored, executors, outs, counts>>

-----------------------------------------------------------------------------

Next ==
  \/ loadAsynchronously \/ addPrewarmedAsset \/ Drop \/ removeFilesInTrashDirectory
  \/ \E c \in Clients :
       \/ init(c) \/ enterQueue(c) \/ assetWithIdentifier(c) \/ openAsset(c)
       \/ write_model_files(c) \/ compileModelAtURL(c) \/ storeAsset(c) \/ loadModel(c)
       \/ prewarmModel(c) \/ execute(c) \/ executed(c) \/ destroy(c)

Spec == Init /\ [][Next]_vars

-----------------------------------------------------------------------------
(* Properties *)

\* "If there are multiple calls to load the same model, we only want to compile it
\* once": a model is compiled again only for each time its asset was dropped, could
\* not be stored or could not be opened, however many loads of it overlap.
CompiledOnce == \A i \in Ids : compiles[i] <= 1 + lost[i]

\* In a release build a load fails only for what happened while it ran: a step of it
\* failed, the blob was corrupted, the model it wrote was taken away with the trash
\* directory, or the asset it had just stored was purged.  Whatever was dropped
\* before leaves nothing behind that makes later loads fail.
LoadsAgain ==
  \A c \in Clients : build = "release" /\ client[c].at = "failed" => client[c].hit

\* In a release build, when execute returns Ok the output tensor holds what the model
\* computes from this call's inputs and from the state of this method: the result of
\* the calls before it that succeeded, and of nothing that was run to prewarm it.
ComputesThisCall ==
  \A c \in Clients :
    build = "release" /\ client[c].at = "done" =>
      outs[c] = <<client[c].fed, IF Models[client[c].id].stateful THEN client[c].steps - 1 ELSE 0>>

-----------------------------------------------------------------------------
(* The arrays of the delegate, from                                        *)
(* backends/apple/coreml/runtime/delegate/multiarray.mm: strided views of  *)
(* memory they do not own, and the copy of one into another.               *)
(*                                                                         *)
(* The memory under an array is a function from element offsets; a value   *)
(* is a natural number that every element type but Bool holds.  Whether    *)
(* the vendor library accepts a copy is not known: both are tried.         *)

CONSTANTS
  Arrays,     \* pairs of arrays of one shape, each [type, shape, strides, data]
  MaxRank     \* BNNS_MAX_TENSOR_DIMENSION

VARIABLES
  src, dst,   \* the two arrays
  copied      \* the memory of dst after the call, in a sequence of at most one

Prod(s) == FoldLeft(LAMBDA a, b : a * b, 1, s)

num_elements(a) == IF a.shape = <<>> THEN 0 ELSE Prod(a.shape)

num_bytes(a) ==
  CASE a.type \in {"Bool", "Byte", "Char"} -> 1
    [] a.type \in {"Short", "Float16"} -> 2
    [] a.type \in {"Int32", "Float32"} -> 4
    [] a.type \in {"Int64", "Float64"} -> 8

\* An array of rank one counts as packed whatever its stride.
is_packed(a) ==
  \/ Len(a.strides) < 2
  \/ \A d \in 1 .. Len(a.shape) : a.strides[d] = Prod(SubSeq(a.shape, d + 1, Len(a.shape)))

to_ml_multiarray_data_type(t) ==
  IF t \in {"Float16", "Float32", "Float64", "Int32"} THEN <<t>> ELSE <<>>

calculate_strides(shape) ==
  [d \in 1 .. Len(shape) |-> Prod(SubSeq(shape, d + 1, Len(shape)))]

\* data(indices) and data(index): the offset of an element by its indices, from
\* zero, and by its number in row-major order.
OffsetOfIndices(a, indices) ==
  FoldLeft(LAMBDA n, d : n + indices[d] * a.strides[d], 0, [d \in DOMAIN indices |-> d])

get_data_offset(a, index) ==
  LET Div(d) == Prod(SubSeq(a.shape, d + 1, Len(a.shape)))
      Step(w, d) == [left |-> w.left % Div(d), offset |-> w.offset + (w.left \div Div(d)) * a.strides[d]]
  IN  FoldLeft(Step, [left |-> index, offset |-> 0], [d \in DOMAIN a.shape |-> d]).offset

\* copy_value<T1, T2>: static_cast between element types.
copy_value(type, v) == IF type = "Bool" /\ v # 0 THEN 1 ELSE v

-----------------------------------------------------------------------------
(* The vendor library *)

Ascending(s) == \A d \in 1 .. Len(s) - 1 : s[d] <= s[d + 1]

\* get_bnns_data_layout: the strides are handed over in ascending order, with a
\* flag that says whether the first dimension has the last of them.
get_bnns_data_layout(strides) ==
  CASE Len(strides) > MaxRank -> <<>>
    [] Len(strides) <= MaxRank /\ Ascending(strides) -> <<[stride |-> strides, first_major |-> FALSE]>>
    [] Len(strides) <= MaxRank /\ ~Ascending(strides) /\ Ascending(Reverse(strides)) ->
         <<[stride |-> Reverse(strides), first_major |-> TRUE]>>
    [] OTHER -> <<>>

get_bnns_data_type(t) == IF t = "Float64" THEN <<>> ELSE <<t>>

init_bnns_descriptor(a) ==
  IF num_elements(a) = 1 \/ get_bnns_data_type(a.type) = <<>> THEN <<>>
  ELSE get_bnns_data_layout(a.strides)

Coordinates(shape) ==
  LET top == FoldLeft(LAMBDA m, s : IF s > m THEN s ELSE m, 1, shape)
  IN  {c \in [1 .. Len(shape) -> 0 .. top - 1] : \A d \in DOMAIN shape : c[d] < shape[d]}

\* BNNSCopy moves each element to the one with the same coordinates.
BNNSCopy(to, from) ==
  LET Offset(l, c) ==
        FoldLeft(LAMBDA n, d : n + c[d] * l.stride[IF l.first_major THEN Len(c) + 1 - d ELSE d],
                 0, [d \in DOMAIN c |-> d])
  IN  {<<Offset(init_bnns_descriptor(from)[1], c), Offset(init_bnns_descriptor(to)[1], c)>> :
         c \in Coordinates(from.shape)}

can_copy_using_bnns(from, to) ==
  /\ num_bytes(to) >= num_bytes(from)
  /\ init_bnns_descriptor(from) # <<>> /\ init_bnns_descriptor(to) # <<>>

-----------------------------------------------------------------------------
(* The loop over all elements *)

can_coalesce_dimensions(shape, all_strides, dim1, dim2) ==
  \/ shape[dim1] = 1 \/ shape[dim2] = 1
  \/ \A i \in DOMAIN all_strides : shape[dim1] * all_strides[i][dim1] = all_strides[i][dim2]

Put(s, d, v) == [k \in DOMAIN s |-> IF k = d THEN v ELSE s[k]]

update_strides(all_strides, dim1, dim2) ==
  [i \in DOMAIN all_strides |-> Put(all_strides[i], dim1, all_strides[i][dim2])]

\* Mutant of coalesce_dimensions: a run that began with a dimension of size one
\* keeps its stride.
coalesce_keeping_strides(layouts) ==
  LET rank == Len(layouts[1].shape)
      Step(w, dim) ==
        IF can_coalesce_dimensions(w.shape, w.strides, w.prev, dim)
        THEN [w EXCEPT !.shape = Put(@, w.prev, w.shape[w.prev] * w.shape[dim])]
        ELSE [shape |-> Put(w.shape, w.prev + 1, w.shape[dim]), prev |-> w.prev + 1,
              strides |-> update_strides(w.strides, w.prev + 1, dim)]
      w == FoldLeft(Step,
             [shape |-> Reverse(layouts[Len(layouts)].shape), prev |-> 1,
              strides |-> [i \in DOMAIN layouts |-> Reverse(layouts[i].strides)]],
             [d \in 1 .. rank - 1 |-> d + 1])
  IN  IF rank < 2 \/ rank = w.prev THEN layouts
      ELSE [i \in DOMAIN layouts |->
              [shape |-> Reverse(SubSeq(w.shape, 1, w.prev)),
               strides |-> Reverse(SubSeq(w.strides[i], 1, w.prev))]]

\* coalesce_dimensions: from the last dimension to the first, runs of dimensions
\* that are adjacent in every array become one.
coalesce_dimensions(layouts) ==
  LET rank == Len(layouts[1].shape)
      Step(w, dim) ==
        IF can_coalesce_dimensions(w.shape, w.strides, w.prev, dim)
        THEN [w EXCEPT !.strides = IF w.shape[w.prev] = 1 THEN update_strides(@, w.prev, dim) ELSE @,
                       !.shape = Put(@, w.prev, w.shape[w.prev] * w.shape[dim])]
        ELSE [shape |-> Put(w.shape, w.prev + 1, w.shape[dim]), prev |-> w.prev + 1,
              strides |-> update_strides(w.strides, w.prev + 1, dim)]
      w == FoldLeft(Step,
             [shape |-> Reverse(layouts[Len(layouts)].shape), prev |-> 1,
              strides |-> [i \in DOMAIN layouts |-> Reverse(layouts[i].strides)]],
             [d \in 1 .. rank - 1 |-> d + 1])
  IN  IF rank < 2 \/ rank = w.prev THEN layouts
      ELSE [i \in DOMAIN layouts |->
              [shape |-> Reverse(SubSeq(w.shape, 1, w.prev)),
               strides |-> Reverse(SubSeq(w.strides[i], 1, w.prev))]]

set_data_pointers(datas, index, dim, layouts) ==
  [i \in DOMAIN datas |-> datas[i] + layouts[i].strides[dim] * index]

RECURSIVE exec(_, _, _)

\* MultiArrayIterator::exec: the offsets it calls fn with.  Nothing is visited at
\* rank zero.
exec(layouts, datas, n) ==
  IF n = 0 THEN {}
  ELSE UNION {LET moved == set_data_pointers(datas, i, n, layouts)
              IN  IF n = 1 THEN {moved} ELSE exec(layouts, moved, n - 1) :
              i \in 0 .. layouts[Len(layouts)].shape[n] - 1}

Iterated(from, to) ==
  LET layouts == coalesce_dimensions(<<[shape |-> from.shape, strides |-> from.strides],
                                       [shape |-> to.shape, strides |-> to.strides]>>)
  IN  exec(layouts, <<0, 0>>, Len(layouts[1].shape))

-----------------------------------------------------------------------------
(* Copy *)

Packed(n) == {<<i, i>> : i \in 0 .. n - 1}

\* copy(src, dst, options): the library, then memcpy, then the loop.
Moves(from, to, use_bnns, use_memcpy, accepted) ==
  CASE use_bnns /\ can_copy_using_bnns(from, to) /\ accepted -> BNNSCopy(to, from)
    [] ~(use_bnns /\ can_copy_using_bnns(from, to) /\ accepted)
         /\ use_memcpy /\ from.type = to.type /\ is_packed(from) /\ is_packed(to) ->
         Packed(num_elements(from))
    [] OTHER -> Iterated(from, to)

\* The memory of the destination when the elements at these offsets were copied.
CopiedInto(from, to, moves) ==
  [o \in DOMAIN to.data |->
     LET came == {m \in moves : m[2] = o}
     IN  IF came = {} THEN to.data[o]
         ELSE copy_value(to.type, from.data[(CHOOSE m \in came : TRUE)[1]])]

copy ==
  /\ copied = <<>>
  /\ \E use_bnns, use_memcpy, accepted \in BOOLEAN :
       copied' = <<CopiedInto(src, dst, Moves(src, dst, use_bnns, use_memcpy, accepted))>>
  /\ UNCHANGED <<src, dst>>

ArraysInit == copied = <<>> /\ \E p \in Arrays : src = p[1] /\ dst = p[2]

ArraysNext == copy

-----------------------------------------------------------------------------

\* MultiArray::copy: whichever of the three ways is taken, with dimensions merged
\* or not, every element of the destination holds the element of the source with
\* the same indices, converted, by either of the ways to address an element; and
\* the padding between the elements of the destination is left alone.
ElementsCopied ==
  copied # <<>> =>
    /\ \A c \in Coordinates(dst.shape) :
         copied[1][OffsetOfIndices(dst, c)] = copy_value(dst.type, src.data[OffsetOfIndices(src, c)])
    /\ \A n \in 0 .. num_elements(dst) - 1 :
         copied[1][get_data_offset(dst, n)] = copy_value(dst.type, src.data[get_data_offset(src, n)])
    /\ \A o \in DOMAIN dst.data :
         o \in {OffsetOfIndices(dst, c) : c \in Coordinates(dst.shape)} \/ copied[1][o] = dst.data[o]
=============================================================================
