---------------------------- MODULE NeuronLlama -----------------------------
(***************************************************************************)
(* The Llama runner for MediaTek devices: LlamaRuntime runs a decoder that *)
(* is split into chunks.  A chunk (LlamaModelChunk over ModelChunk and     *)
(* MultiModelLoader) has a model for the prompt and one for single tokens, *)
(* of which one is loaded at a time behind the Neuron delegate, and owns   *)
(* the buffers both use: attention mask, rotary embedding and key-value    *)
(* caches, which the model shifts to the left by its batch of tokens.      *)
(*                                                                         *)
(* Memory is an array of cells per buffer: a token's row of the embedding  *)
(* and of a cache is one cell, a position's row of the rotary embedding    *)
(* HeadDim cells each for cos and sin.  What a model computes for a row is *)
(* the row's input together with all it attends to.                        *)
(***************************************************************************)
EXTENDS LlamaBuffers, Sequences, FiniteSets, SequencesExt

CONSTANTS
  LlamaOptions,   \* [chunks, batch, cache, max, align, rows, prompt, import, caller]
  MaxResponse,    \* FLAGS_max_response
  MaxTokens,      \* bound: tokens ever fed
  MaxSwaps,       \* bound: calls of SwapModel and Reset
  Junk            \* contents of memory that was not written

VARIABLES
  lopt,           \* the options and the model files
  lrt,            \* LlamaRuntime and its caller
  lchunk,         \* mLlamaModelChunks
  lmem,           \* buffers of the Neuron allocator: [size, live, data]
  lhist           \* tokens of the conversation: [token, past]

LlamaVars == <<lopt, lrt, lchunk, lmem, lhist>>

NumCache == 2                     \* a layer per chunk
Caches == 1..NumCache

-----------------------------------------------------------------------------
(* The models: sizes of their inputs, in the order of LlamaModelChunk, and *)
(* of their outputs.  The compiler may pad the rows of a mask.             *)
MaskWidth(o, b) == (((o.cache + b) + o.align - 1) \div o.align) * o.align
CacheSize(o) == o.rows * o.cache
InputSizes(o, b) == <<b, b * MaskWidth(o, b), 2 * b * HeadDim>> \o [j \in Caches |-> CacheSize(o)]
OutputSizes(o, b) == <<b>> \o [j \in Caches |-> CacheSize(o)]
kMaskInputIndex == 2
kRotEmbInputIndex == 3
kCacheInputIndexes == [j \in Caches |-> 3 + j]
GetLinkedInputIndex(outputIndex) == IF outputIndex > 1 THEN kCacheInputIndexes[outputIndex - 1] ELSE 0

InitBatchSize(o) == IF o.prompt THEN o.batch ELSE 1
HasModel(o, b) == b = 1 \/ (o.prompt /\ b = o.batch)

-----------------------------------------------------------------------------
(* The Neuron delegate of a loaded model: the pointer cached for each      *)
(* argument, the buffers imported for good, and what the execution has     *)
(* been given.  A pointer is the number of a buffer.                       *)
(* The execution made from the compiled network has no buffers yet.        *)
LoadFromCompiledNetwork == [in |-> <<>>, out |-> <<>>]
NewDelegate == [in |-> <<>>, out |-> <<>>, imported |-> {}, bound |-> LoadFromCompiledNetwork]
NoDelegate == [in |-> <<>>]

At(map, i) == IF i \in DOMAIN map THEN map[i] ELSE 0
Put(map, i, value) == [k \in DOMAIN map \cup {i} |-> IF k = i THEN value ELSE map[k]]
IsCached(map, i, ptr) == At(map, i) = ptr

HintImportForever(d, side, args) ==
  LET Hint(s, i) ==
        IF args[i].data \in s.imported THEN s
        ELSE [s EXCEPT !.imported = @ \cup {args[i].data}, !.bound[side] = Put(@, i, [ptr |-> args[i].data, bytes |-> args[i].nbytes])]
  IN FoldLeft(Hint, d, [i \in DOMAIN args |-> i])

BindArguments(d, side, args) ==
  LET Bind(s, i) ==
        IF IsCached(s[side], i, args[i].data) THEN s
        ELSE [s EXCEPT ![side] = Put(@, i, args[i].data), !.bound[side] = Put(@, i, [ptr |-> args[i].data, bytes |-> args[i].used])]
  IN FoldLeft(Bind, d, [i \in DOMAIN args |-> i])

(* NeuronExecuTorchDelegate::execute up to Compute.                        *)
Hinted(d, import, args) ==
  IF import THEN HintImportForever(HintImportForever(d, "in", args.in), "out", args.out) ELSE d
BeforeCompute(d, import, args) == BindArguments(BindArguments(Hinted(d, import, args), "in", args.in), "out", args.out)

-----------------------------------------------------------------------------
(* What a model computes (external).                                       *)
PositionOf(rot, b, lut, r) ==
  LET Same(pos) == \A col \in Cells(HeadDim) :
        rot[r * HeadDim + col] = lut[pos][col] /\ rot[(b + r) * HeadDim + col] = lut[pos][HeadDim + col]
  IN IF \E pos \in DOMAIN lut : Same(pos) THEN CHOOSE pos \in DOMAIN lut : Same(pos) ELSE -1

(* The cells that a row of the batch attends to: of each cache and row h.  *)
Attended(o, mask, w, b, r, caches, kv) ==
  UNION {{caches[j][h * o.cache + i] : i \in {i \in Cells(o.cache) : mask[r * w + i] = TRUE}} : j \in Caches, h \in Cells(o.rows)}
  \cup {<<j, h, kv[k]>> : j \in Caches, h \in Cells(o.rows), k \in {k \in Cells(b) : mask[r * w + o.cache + k] = TRUE}}

Compute(o, mem, b, bound) ==
  LET In(i) == mem[bound.in[i].ptr].data
      lut == generate(o.max)
      kv == [r \in Cells(b) |-> <<In(1)[r], PositionOf(In(kRotEmbInputIndex), b, lut, r)>>]
      caches == [j \in Caches |-> In(kCacheInputIndexes[j])]
      out == [r \in Cells(b) |->
                <<In(1)[r], Attended(o, In(kMaskInputIndex), MaskWidth(o, b), b, r, caches, kv)>>]
      next == [j \in Caches |-> [x \in Cells(CacheSize(o)) |->
                Shifted(caches[j], o.cache, b, [r \in Cells(b) |-> <<j, x \div o.cache, kv[r]>>])[x]]]
      Write(m, i) ==
        LET ptr == bound.out[i].ptr
        IN [m EXCEPT ![ptr].data = IF i > 1 THEN next[i - 1] ELSE [x \in DOMAIN @ |-> IF x < b THEN out[x] ELSE @[x]]]
  IN FoldLeft(Write, mem, [i \in DOMAIN bound.out |-> i])

-----------------------------------------------------------------------------
(* ModelChunk.  s is [ch, mem]; a BufferInfo is [data, nbytes, used].      *)
Allocate(mem, size) == Append(mem, [size |-> size, live |-> TRUE, data |-> [x \in Cells(size) |-> Junk]])
RemoveBuffers(mem, ptrs) == [p \in DOMAIN mem |-> IF p \in ptrs THEN [mem[p] EXCEPT !.live = FALSE] ELSE mem[p]]

GetModelIoInfo(infos, sizes) ==
  [i \in DOMAIN sizes |->
     IF i \in DOMAIN infos /\ infos[i].data # 0 THEN [infos[i] EXCEPT !.used = sizes[i]]
     ELSE [data |-> 0, nbytes |-> sizes[i], used |-> sizes[i]]]
UpdateModelIoInfo(infos, sizes) == [i \in DOMAIN sizes |-> [infos[i] EXCEPT !.used = sizes[i]]]

AllocateIoBuffers(s) ==
  LET In(t, i) ==
        IF t.ch.ins[i].data # 0 THEN t
        ELSE [ch |-> [t.ch EXCEPT !.ins[i].data = Len(t.mem) + 1], mem |-> Allocate(t.mem, t.ch.ins[i].nbytes)]
      Out(t, i) ==
        LET linked == GetLinkedInputIndex(i)
        IN CASE t.ch.outs[i].data # 0 -> t
             [] t.ch.outs[i].data = 0 /\ linked # 0 -> [t EXCEPT !.ch.outs[i] = t.ch.ins[linked]]
             [] OTHER -> [ch |-> [t.ch EXCEPT !.outs[i].data = Len(t.mem) + 1], mem |-> Allocate(t.mem, t.ch.outs[i].nbytes)]
      t1 == FoldLeft(In, s, [i \in DOMAIN s.ch.ins |-> i])
  IN FoldLeft(Out, t1, [i \in DOMAIN s.ch.outs |-> i])

ReleaseIoBuffers(ch, mem) ==
  RemoveBuffers(mem, {info.data : info \in ToSet(ch.ins) \cup ToSet(ch.outs)})

(* SetBackendInputs, SetBackendOutputs: the arguments of the method.       *)
SetBackend(ch) == [ch EXCEPT !.args = [in |-> ch.ins, out |-> ch.outs]]

(* MultiModelLoader, where models do not coexist: the current one is       *)
(* released before the next one is loaded.                                 *)
LoadModels(ch) == [ch EXCEPT !.instance = NewDelegate]
SelectModel(ch, b) == IF ch.model = b THEN ch ELSE [ch EXCEPT !.model = b, !.instance = NewDelegate]
ReleaseModels(ch) == [ch EXCEPT !.instance = NoDelegate]

-----------------------------------------------------------------------------
(* LlamaModelChunk *)
NewChunk(b) ==
  [index |-> 0, pad |-> 0, mode |-> "RIGHT", batch |-> b, model |-> b, instance |-> NoDelegate, ins |-> <<>>, outs |-> <<>>,
   args |-> <<>>, left |-> 0, right |-> 0, updatable |-> FALSE, masksize |-> 0]

CacheBuffers(ch) == {ch.ins[kCacheInputIndexes[j]].data : j \in Caches}
InitCache(ch, mem) ==
  [p \in DOMAIN mem |-> IF p \in CacheBuffers(ch) THEN [mem[p] EXCEPT !.data = [x \in DOMAIN @ |-> Zero]] ELSE mem[p]]

InitMaskBuilder(o, s) ==
  LET info == s.ch.ins[kMaskInputIndex]
      b == s.ch.batch
  IN [ch |-> [s.ch EXCEPT !.masksize = info.used, !.updatable = TRUE],
      mem |-> [s.mem EXCEPT ![info.data].data = buildMask(@, b, o.cache, info.used \div b, s.ch.index)]]

Initialize(o, ch, mem) ==
  LET b == ch.batch
      sized == [LoadModels(ch) EXCEPT !.ins = GetModelIoInfo(ch.ins, InputSizes(o, b)), !.outs = GetModelIoInfo(ch.outs, OutputSizes(o, b))]
      s == InitMaskBuilder(o, AllocateIoBuffers([ch |-> sized, mem |-> mem]))
  IN [ch |-> SetBackend(s.ch), mem |-> InitCache(s.ch, s.mem)]

(* ModelChunk::HotSwapModel, then that of LlamaModelChunk                  *)
SwappedTo(o, ch, b) ==
  IF ch.model = b THEN ch
  ELSE SetBackend([SelectModel(ch, b) EXCEPT !.batch = b,
         !.ins = UpdateModelIoInfo(@, InputSizes(o, b)), !.outs = UpdateModelIoInfo(@, OutputSizes(o, b))])
HotSwapModel(o, ch, b) ==
  LET to == SwappedTo(o, ch, b)
  IN [to EXCEPT !.updatable = FALSE, !.masksize = to.ins[kMaskInputIndex].used]

ResetChunk(ch) == [ch EXCEPT !.pad = 0, !.index = 0]

SetLeftPadding(ch, pad) == [ch EXCEPT !.pad = pad, !.mode = "LEFT", !.left = pad]
SetRightPadding(ch, pad) == [ch EXCEPT !.pad = pad, !.mode = "RIGHT", !.right = pad]
GetLeftPadding(ch) == IF ch.mode = "LEFT" THEN ch.pad ELSE 0
GetRightPadding(ch) == IF ch.mode = "RIGHT" THEN ch.pad ELSE 0

UpdatePosEmbAndMask(o, s) ==
  LET ch == s.ch
      b == ch.batch
      w == ch.masksize \div b
      mask == ch.ins[kMaskInputIndex].data
      rot == ch.ins[kRotEmbInputIndex].data
      masked == adjustMaskForPadding(ch, updateMask(ch, s.mem[mask].data, b, o.cache, w, ch.index, b), b, o.cache, w)
  IN [ch |-> Updated(ch),
      mem |-> [s.mem EXCEPT ![mask].data = masked,
        ![rot].data = setEmbed(@, generate(o.max), ch.index, b, GetLeftPadding(ch), GetRightPadding(ch))]]

PaddingPostprocess(o, ch, mem) ==
  LET After(data) ==
        CASE ch.pad = 0 -> data
          [] ch.pad > 0 /\ ch.mode = "RIGHT" -> RollbackCache(data, o.cache, ch.pad, ch.index + ch.batch)
          [] OTHER -> LeftPaddingCachePostprocess(data, o.cache, ch.batch, ch.pad)
  IN [p \in DOMAIN mem |-> IF p \in CacheBuffers(ch) THEN [mem[p] EXCEPT !.data = After(@)] ELSE mem[p]]

AdvanceTokenIndex(ch) == [ch EXCEPT !.index = @ + ch.batch - ch.pad, !.pad = 0]

RunChunk(o, ch, mem) ==
  LET s == UpdatePosEmbAndMask(o, [ch |-> ch, mem |-> mem])
      d == BeforeCompute(s.ch.instance, o.import, s.ch.args)
      done == Compute(o, s.mem, ch.batch, d.bound)
  IN [ch |-> AdvanceTokenIndex([s.ch EXCEPT !.instance = d]), mem |-> PaddingPostprocess(o, s.ch, done)]

-----------------------------------------------------------------------------
(* LlamaRuntime *)
Idle == [pc |-> "idle", batch |-> 0, index |-> 0, todo |-> 0, made |-> 0, fed |-> 0, swaps |-> 0, last |-> 0, offset |-> 0,
         stale |-> FALSE, gaps |-> FALSE]

LlamaInit ==
  /\ lopt \in LlamaOptions
  /\ lrt = [Idle EXCEPT !.pc = "new"]
  /\ lchunk = <<>>
  /\ lmem = <<>>
  /\ lhist = <<>>

(* Each chunk takes the output of the one before as its input.             *)
InitializeRuntime ==
  LET o == lopt
      Add(s, c) ==
        LET new == NewChunk(InitBatchSize(o))
            shared == IF c = 1 THEN new ELSE [new EXCEPT !.ins = <<Last(s.chunks).outs[1]>>]
            made == Initialize(o, shared, s.mem)
        IN [chunks |-> Append(s.chunks, made.ch), mem |-> made.mem]
      all == FoldLeft(Add, [chunks |-> <<>>, mem |-> lmem], [c \in 1..o.chunks |-> c])
  IN /\ lrt.pc = "new"
     /\ lchunk' = all.chunks /\ lmem' = all.mem
     /\ lrt' = [lrt EXCEPT !.pc = "idle", !.batch = InitBatchSize(o)]
     /\ UNCHANGED <<lopt, lhist>>

(* Run of n tokens; after: what the caller does next.  Beyond the maximum  *)
(* length, where the code logs and reads outside of its table, nothing is  *)
(* modelled.                                                               *)
Padded(n, pad, left) ==
  LET tokens == [k \in 1..n |-> lrt.fed + k]
      pads == [k \in 1..pad |-> 0]
  IN IF left THEN pads \o tokens ELSE tokens \o pads
SetPadding(ch, left, pad) == IF left THEN SetLeftPadding(ch, pad) ELSE SetRightPadding(ch, pad)

LogitsOffset(pad, left) == IF lrt.batch > 1 THEN lrt.batch - 1 - (IF left THEN 0 ELSE pad) ELSE 0

(* What the tokens of this call have behind them: the tokens in the cache  *)
(* and those before them in the batch.                                     *)
Seen(n) == [k \in 1..n |-> [token |-> lrt.fed + k, past |-> Least(lopt.cache, Len(lhist)) + k - 1]]

Run(n, after) ==
  LET pad == lrt.batch - n
      left == lchunk[1].index = 0
      embedded == [lmem EXCEPT ![lchunk[1].ins[1].data].data = lookupEmbedding(@, Padded(n, pad, left))]
      Step(s, c) ==
        LET ran == RunChunk(lopt, SetPadding(s.chunks[c], left, pad), s.mem)
        IN [chunks |-> [s.chunks EXCEPT ![c] = ran.ch], mem |-> ran.mem]
      all == FoldLeft(Step, [chunks |-> lchunk, mem |-> embedded], [c \in DOMAIN lchunk |-> c])
  IN /\ n <= lrt.batch
     /\ lrt.fed + n <= MaxTokens /\ Len(lhist) + n <= lopt.max
     /\ lchunk' = all.chunks /\ lmem' = all.mem
     /\ lhist' = lhist \o Seen(n)
     /\ lrt' = [after EXCEPT !.index = @ + n, !.fed = @ + n, !.last = n, !.offset = LogitsOffset(pad, left),
                             !.stale = @ /\ lchunk[1].updatable /\ pad = 0,
                             !.gaps = @ \/ lrt.stale \/ (~left /\ pad > 0 /\ lrt.index + lrt.batch > lopt.cache)]
     /\ UNCHANGED lopt

(* Hot swapping runs in a thread per chunk; the threads share no state.    *)
SwapModel(b, after) ==
  /\ HasModel(lopt, b)
  /\ lchunk' = [c \in DOMAIN lchunk |-> HotSwapModel(lopt, lchunk[c], b)]
  /\ lrt' = [after EXCEPT !.batch = b, !.swaps = @ + 1, !.stale = FALSE, !.last = 0]
  /\ UNCHANGED <<lopt, lmem, lhist>>

Reset ==
  LET Clear(m, c) == InitCache(lchunk[c], m)
  IN /\ lrt.pc = "idle" /\ lopt.caller = "any" /\ lrt.swaps < MaxSwaps
     /\ lchunk' = [c \in DOMAIN lchunk |-> ResetChunk(lchunk[c])]
     /\ lmem' = FoldLeft(Clear, lmem, [c \in DOMAIN lchunk |-> c])
     /\ lrt' = [lrt EXCEPT !.index = 0, !.swaps = @ + 1, !.stale = lchunk[1].updatable, !.gaps = FALSE, !.last = 0]
     /\ lhist' = <<>>
     /\ UNCHANGED lopt

Release ==
  LET Free(m, c) == ReleaseIoBuffers(lchunk[c], m)
  IN /\ lrt.pc \in {"idle", "done"}
     /\ lmem' = FoldLeft(Free, lmem, [c \in DOMAIN lchunk |-> c])
     /\ lchunk' = <<>>
     /\ lrt' = [lrt EXCEPT !.pc = "released", !.last = 0]
     /\ UNCHANGED <<lopt, lhist>>

(* A model that does not load or run ends the program.                     *)
Abort ==
  /\ lrt.pc \notin {"released", "abort"}
  /\ lrt' = [lrt EXCEPT !.pc = "abort", !.last = 0]
  /\ UNCHANGED <<lopt, lchunk, lmem, lhist>>

-----------------------------------------------------------------------------
(* The program: inference of one prompt.  The first call takes what is     *)
(* left over when the prompt is divided into batches.                      *)
Inference(n) ==
  /\ lrt.pc = "idle" /\ lopt.caller = "inference" /\ n <= lopt.max
  /\ lrt' = [lrt EXCEPT !.pc = "digest", !.todo = n]
  /\ UNCHANGED <<lopt, lchunk, lmem, lhist>>

getNextTokens(todo, b) == IF todo % b # 0 THEN todo % b ELSE b
digest_prompt ==
  LET n == getNextTokens(lrt.todo, lrt.batch)
      left == lrt.todo - n
  IN lrt.pc = "digest" /\ Run(n, [lrt EXCEPT !.todo = left, !.pc = IF left = 0 THEN "swap" ELSE "digest"])

(* It ends at max_response or the maximum length, and with a token that    *)
(* ends the sequence or cannot be decoded.                                 *)
gen_response ==
  \/ lrt.pc = "swap" /\ \E pc \in {"gen", "done"} : SwapModel(1, [lrt EXCEPT !.pc = pc])
  \/ /\ lrt.pc = "gen" /\ lrt.made < MaxResponse /\ lrt.index < lopt.max
     /\ \E pc \in {"gen", "done"} : Run(1, [lrt EXCEPT !.made = @ + 1, !.pc = pc])
  \/ /\ lrt.pc = "gen" /\ (lrt.made >= MaxResponse \/ lrt.index >= lopt.max)
     /\ lrt' = [lrt EXCEPT !.pc = "done"]
     /\ UNCHANGED <<lopt, lchunk, lmem, lhist>>

AnyCaller ==
  /\ lrt.pc = "idle" /\ lopt.caller = "any"
  /\ \/ \E n \in 1..lrt.batch : Run(n, lrt)
     \/ lrt.swaps < MaxSwaps /\ \E b \in {1, lopt.batch} : SwapModel(b, lrt)

LlamaNext ==
  \/ InitializeRuntime
  \/ \E n \in 1..MaxTokens : Inference(n)
  \/ digest_prompt \/ gen_response
  \/ AnyCaller \/ Reset
  \/ Release \/ Abort

-----------------------------------------------------------------------------
(* What the chunks should compute for the tokens of the conversation:      *)
(* Ideal[c][i] is the output of chunk c for token i.                       *)
Ideal ==
  LET F[c \in 0..lopt.chunks] ==
        IF c = 0 THEN [i \in DOMAIN lhist |-> lhist[i].token]
        ELSE [i \in DOMAIN lhist |->
               <<F[c - 1][i], {<<j, h, <<F[c - 1][k], k - 1>>>> : j \in Caches, h \in Cells(lopt.rows), k \in (i - lhist[i].past)..i}>>]
  IN F

Outputs(c) == lmem[lchunk[c].outs[1].data].data
RowOfLast == lrt.batch - 1 - (IF lchunk[1].mode = "RIGHT" THEN lrt.batch - lrt.last ELSE 0)

(* AttendsOwnPast: every token is run at its own position of the           *)
(* conversation and attends to itself, to the tokens before it in its      *)
(* batch and to the last ones before the batch, as many as the cache       *)
(* holds: in every chunk, after padding on either side, swaps and resets;  *)
(* and Run returns the row of the last token.  While a mask has outlived a *)
(* reset, or once a batch padded on the right ran past the end of the      *)
(* cache, a token may attend to cleared cells as well.                     *)
AttendsOwnPast ==
  lrt.last > 0 =>
    /\ \A c \in DOMAIN lchunk : lchunk[c].index = lrt.index /\ lrt.index = Len(lhist)
    /\ lrt.offset = IF lrt.batch > 1 THEN RowOfLast ELSE 0
    /\ \A c \in DOMAIN lchunk, k \in 0..(lrt.last - 1) :
         LET i == Len(lhist) - k
             out == Outputs(c)[RowOfLast - k]
         IN IF lrt.gaps
            THEN \A e \in out[2] \ {Zero} : e[3][2] \in 0..(i - 1) /\ (c = 1 => e[3][1] = lhist[e[3][2] + 1].token)
            ELSE out = Ideal[c][i]

(* BuffersInPlace: the execution of a loaded model uses the buffers of its *)
(* chunk, a chunk reads what the one before writes, no buffer is smaller   *)
(* than the model's argument, and Release leaves none.                     *)
BuffersInPlace ==
  /\ \A c \in DOMAIN lchunk :
       LET ch == lchunk[c]
       IN /\ c > 1 => ch.ins[1].data = lchunk[c - 1].outs[1].data
          /\ \A info \in ToSet(ch.ins) \cup ToSet(ch.outs) :
               lmem[info.data].live /\ info.used <= info.nbytes /\ info.nbytes = lmem[info.data].size
          /\ lrt.last > 0 =>
               /\ \A i \in DOMAIN ch.ins : ch.instance.bound.in[i] = [ptr |-> ch.ins[i].data, bytes |-> ch.ins[i].used]
               /\ \A i \in DOMAIN ch.outs : ch.instance.bound.out[i] = [ptr |-> ch.outs[i].data, bytes |-> ch.outs[i].used]
  /\ lrt.pc = "released" => \A p \in DOMAIN lmem : ~lmem[p].live
=============================================================================
