--------------------------- MODULE VulkanDelegate ---------------------------
(***************************************************************************)
(* The Vulkan delegate at run time, from backends/vulkan/runtime/          *)
(* VulkanBackend.cpp, VulkanDelegateHeader.cpp, ComputeGraph.cpp,          *)
(* api/Context.cpp, vk_api/{Command, Descriptor, Fence}.cpp and the        *)
(* encode functions of graph/ops/*Node.cpp.                                *)
(*                                                                         *)
(* init builds the graph, runs a command buffer that packs the constants,  *)
(* and records the commands of the graph once.  Every execute copies its   *)
(* inputs to staging buffers, lets the nodes resize their outputs, submits *)
(* the recorded commands again, waits for the fence and copies the outputs *)
(* back.  The GPU takes the commands of a submission in any order their    *)
(* barriers allow.                                                         *)
(*                                                                         *)
(* What the shaders compute is a term: the shader and what it read.        *)
(***************************************************************************)
EXTENDS VulkanOps, FiniteSets

CONSTANTS
  Programs,  \* serialized graphs: header, values, inputs, chain, outputs,
             \* and the arguments they may be called with
  MaxCalls   \* bound on the calls of execute

VARIABLES
  program,
  phase,     \* "new", "prepacking", "ready", "executing", "destroyed",
             \* "failed": init returned an error, "thrown": an exception left
             \* the delegate
  graph,
  done,      \* the commands of the submission that have been executed
  memory,    \* content of every allocation and staging buffer
  images,    \* the layout every image really has
  discards,  \* whether the driver may give up the content of an image
  call,      \* number of calls of execute so far
  args,      \* the arguments of the last call
  results,   \* what the last call copied back
  meant      \* contents when the commands run one after the other, every
             \* tensor with memory of its own

VulkanVars == <<program, phase, graph, done, memory, images, discards, call, args, results, meant>>

Undefined == [op |-> "undefined", n |-> 0, of |-> <<>>]
Term(op, n, of) == [op |-> op, n |-> n, of |-> of]

-----------------------------------------------------------------------------
(* VulkanDelegateHeader::parse and is_valid                                *)
kExpectedSize == 30

is_valid(h) ==
  /\ h.header_size >= kExpectedSize
  /\ h.flatbuffer_offset >= h.header_size
  /\ h.flatbuffer_size # 0
  /\ h.bytes_offset >= h.flatbuffer_offset + h.flatbuffer_size

parse(h) == h.magic = "VH00" /\ is_valid(h)

(* GraphBuilder::build_graph.  Values are numbered as in the program.      *)
add_value_to_graph(g, v) ==
  IF v.kind # "tensor" THEN AddValue(g, v)
  ELSE add_tensor(g, v.sizes, v.type,
                  IF v.storage = "default" THEN suggested_storage_type ELSE v.storage,
                  IF v.packed = -1 THEN suggested_memory_layout(v.sizes) ELSE v.packed,
                  v.object)

AddValues(g, p) == Fold(g, Len(p.values), LAMBDA h, i : add_value_to_graph(h, p.values[i]))
AddInputs(g, p) ==
  Fold(g, Len(p.inputs), LAMBDA h, i :
    IF val_is(h, p.inputs[i], "tensor") THEN set_input_tensor(h, p.inputs[i]) ELSE set_val_as_input(h, p.inputs[i]))
AddChain(g, p) ==
  Fold(g, Len(p.chain), LAMBDA h, i :
    VK_CHECK_COND(h, has_op(p.chain[i].op), get_op_fn(h, p.chain[i].op, p.chain[i].args)))
AddOutputs(g, p) ==
  Fold(g, Len(p.outputs), LAMBDA h, i :
    IF val_is(h, p.outputs[i], "tensor") THEN set_output_tensor(h, p.outputs[i]) ELSE h)

build_graph(p) == AddOutputs(AddChain(AddInputs(AddValues(EmptyGraph, p), p), p), p)

-----------------------------------------------------------------------------
(* Descriptors.  A shader declares an image it only reads as a sampler and *)
(* one it writes as a storage image.                                       *)
DescriptorType(g, a) ==
  CASE val_is(g, a.ref, "staging") -> "buffer"
    [] val_is(g, a.ref, "tensor") -> IF is_buffer(Val(g, a.ref)) THEN "buffer"
                                     ELSE IF a.access = {"READ"} THEN "sampler" ELSE "image"

NoDescriptors == [sets |-> 0, uniform |-> 0, buffer |-> 0, sampler |-> 0, image |-> 0]

update_descriptor_counts(g, c, binds, ubos) ==
  LET some(type) == Cardinality({i \in DOMAIN binds : DescriptorType(g, binds[i]) = type})
  IN [sets |-> c.sets + 1, uniform |-> c.uniform + ubos, buffer |-> c.buffer + some("buffer"),
      sampler |-> c.sampler + some("sampler"), image |-> c.image + some("image")]

execute_descriptor_counts(g) ==
  LET upto[i \in 0..Len(g.nodes)] ==
        IF i = 0 THEN NoDescriptors
        ELSE LET node == g.nodes[i]
             IN IF node.op # "dispatch" \/ node.shader = "" THEN upto[i - 1]
                ELSE update_descriptor_counts(g, upto[i - 1], node.args, node.ubos)
  IN upto[Len(g.nodes)]

(* The shader that packs, with its staging buffer, and the no_op.          *)
prepack_descriptor_counts(g) ==
  LET upto[i \in 0..Len(g.prepacks)] ==
        IF i = 0 THEN NoDescriptors
        ELSE LET node == g.prepacks[i]
                 c == update_descriptor_counts(g, upto[i - 1], WRITE(<<node.packed>>), node.ubos)
             IN update_descriptor_counts(g, [c EXCEPT !.buffer = @ + 1], READ(<<node.packed>>), 0)
  IN upto[Len(g.prepacks)]

(* The pool is made for a quarter more than either phase needs, and for    *)
(* one descriptor of every type per set at least.                          *)
prepare(g) ==
  LET e == execute_descriptor_counts(g)
      p == prepack_descriptor_counts(g)
      merge(f) == ((5 * Max({e[f], p[f]})) + 3) \div 4
  IN [f \in DOMAIN e |-> Max({merge(f), merge("sets")})]

(* DescriptorPool::init reserves as many storage images as buffers.        *)
DescriptorPool(config) == [config EXCEPT !.image = config.buffer]

Allocates(config, counts) == \A f \in DOMAIN counts : counts[f] <= DescriptorPool(config)[f]

-----------------------------------------------------------------------------
(* Encoding.  A command has what it reads and writes (the memory and the   *)
(* tensor that owns the resource) and the barriers put before it; their    *)
(* stages are joined into one pair of masks, to which the top of the pipe  *)
(* adds nothing.                                                           *)
Resource(g, ref) ==
  IF ~val_is(g, ref, "tensor") THEN [owner |-> ref, mem |-> ref]
  ELSE [owner |-> Owner(Val(g, ref), ref), mem |-> Val(g, ref).mem]

(* bind_tensor_to_descriptor_set: the memory must have been bound.         *)
BindAll(g, binds, stage) ==
  LET upto[i \in 0..Len(binds)] ==
        IF i = 0 THEN [g |-> g, barriers |-> <<>>]
        ELSE LET before == upto[i - 1]
                 ref == binds[i].ref
                 t == Val(before.g, ref)
             IN IF t.kind # "tensor" THEN before
                ELSE [g |-> VK_CHECK_COND(before.g, t.bound,
                              [before.g EXCEPT !.values[ref] = Accessed(t, stage, binds[i].access)]),
                      barriers |-> before.barriers \o BarrierOf(t, ref, stage, binds[i].access)]
  IN upto[Len(binds)]

Resources(g, binds, access) ==
  LET some == SelectSeq(binds, LAMBDA b : access \in b.access)
  IN [i \in DOMAIN some |-> Resource(g, some[i].ref)]

AddCommand(g, barriers, shader, stage, binds, keeps) ==
  VK_CHECK_COND(g, TRUE,
    [g EXCEPT !.cmds = Append(@,
       [shader |-> shader, stage |-> stage, keeps |-> keeps,
        reads |-> Resources(g, binds, "READ"), writes |-> Resources(g, binds, "WRITE"),
        barriers |-> barriers,
        src |-> {barriers[k].src : k \in DOMAIN barriers} \ {"NONE"},
        dst |-> {barriers[k].dst : k \in DOMAIN barriers}])])

EncodeBound(bound, shader, stage, binds, keeps) ==
  AddCommand(bound.g, bound.barriers, shader, stage, binds, keeps)

encode(g, shader, stage, binds, keeps) ==
  VK_CHECK_COND(g, TRUE, EncodeBound(BindAll(g, binds, stage), shader, stage, binds, keeps))

(* DispatchNode::encode, BlitNode::encode; other nodes record nothing.     *)
encode_node(g, node) ==
  CASE node.shader = "" -> g
    [] node.op = "dispatch" /\ node.shader # "" -> encode(g, node.shader, "COMPUTE", node.args, node.keeps)
    [] node.op = "blit" -> VK_CHECK_COND(g, \A i \in 1..2 : ~is_buffer(Val(g, node.args[i].ref)),
                             encode(g, "blit", "TRANSFER", node.args, FALSE))

(* PrepackNode::encode: the no_op brings the image into the layout the     *)
(* shaders read.                                                           *)
encode_prepack_node(g, node) ==
  encode(encode(g, node.shader, "COMPUTE", WRITE(<<node.packed>>) \o READ(<<node.tref>>), FALSE),
         "no_op", "COMPUTE", READ(<<node.packed>>), FALSE)

encode_prepack(g, config) ==
  VK_CHECK_COND(g, Allocates(config, prepack_descriptor_counts(g)),
    Fold(g, Len(g.prepacks), LAMBDA h, i : encode_prepack_node(h, h.prepacks[i])))

(* Context::flush and the command buffer that is reused.                   *)
flush(g) == [g EXCEPT !.cmds = <<>>, !.cmd = "INVALID"]
set_cmd(g) == IF g.cmd # "INVALID" THEN g ELSE [g EXCEPT !.cmd = "RECORDING"]

(* SharedObject::bind_users                                                *)
bind_users(g) ==
  [g EXCEPT !.values = [r \in DOMAIN @ |->
     IF \E s \in DOMAIN g.sobjs : \E i \in DOMAIN g.sobjs[s] : g.sobjs[s][i] = r
     THEN [@[r] EXCEPT !.bound = TRUE] ELSE @[r]]]

encode_execute(g, config) ==
  LET h == bind_users(set_cmd(flush(g)))
  IN VK_CHECK_COND(h, Allocates(config, execute_descriptor_counts(h)),
       Fold(h, Len(h.nodes), LAMBDA k, i : encode_node(k, k.nodes[i])))

(* Context::submit_cmd_to_gpu: a command buffer can be ended while it is   *)
(* recorded or after a submission; the final use gives it up.              *)
submit_cmd_to_gpu(g, final_use) ==
  VK_CHECK_COND(g, g.cmd \in {"RECORDING", "SUBMITTED"},
    [g EXCEPT !.cmd = IF final_use THEN "INVALID" ELSE "SUBMITTED"])

-----------------------------------------------------------------------------
(* The GPU.  Command i waits for the end of command j when a chain of      *)
(* barriers between them has the stage of j before it and the stage of i   *)
(* after it.                                                               *)
Waits(cmds, j, i) ==
  LET after[k \in j..i] ==
        IF k = j THEN {}
        ELSE after[k - 1] \cup
             (IF cmds[j].stage \in cmds[k].src \/ after[k - 1] \cap cmds[k].src # {} THEN cmds[k].dst ELSE {})
  IN cmds[i].stage \in after[i]

(* A write is visible to a later command only across a barrier on the      *)
(* resource.                                                               *)
Visible(cmds, j, i, r) == \E k \in (j + 1)..i : \E b \in DOMAIN cmds[k].barriers : cmds[k].barriers[b].resource = r.owner

WritesTo(c, mem) == \E w \in DOMAIN c.writes : c.writes[w].mem = mem

Seen(cmds, i, r, content) ==
  IF \E j \in done : j < i /\ WritesTo(cmds[j], r.mem) /\ ~Visible(cmds, j, i, r)
  THEN Undefined ELSE content[r.mem].term

(* What a shader that leaves a part of its output alone finds there.  Only *)
(* constants keep their content from one call to the next.                 *)
Persists(g, owner) == \E i \in DOMAIN g.prepacks : g.prepacks[i].packed = owner

Kept(g, c, owner, now) ==
  IF c.owner = owner /\ (c.call = now \/ Persists(g, owner)) THEN c.term ELSE Undefined

(* The layout of an image after the first n barriers of a command, and the *)
(* barriers that give up its content: the layout they leave is undefined,  *)
(* or not the one the image has.                                           *)
LayoutAfter(c, n, r) ==
  LET on == {k \in 1..n : c.barriers[k].resource = r}
  IN IF on = {} THEN images[r] ELSE c.barriers[Max(on)].new

Discards(c) ==
  {k \in DOMAIN c.barriers : LET b == c.barriers[k]
                             IN /\ discards
                                /\ b.new # "UNDEFINED"
                                /\ b.old = "UNDEFINED" \/ b.old # LayoutAfter(c, k - 1, b.resource)}

(* The content command c leaves, from what it reads and what was there.    *)
WrittenBy(g, i, now, seen, old(_)) ==
  LET c == g.cmds[i]
  IN [w \in DOMAIN c.writes |->
        [owner |-> c.writes[w].owner, call |-> now,
         term |-> Term(c.shader, i, IF c.keeps THEN Append(seen, old(c.writes[w])) ELSE seen)]]

(* The commands one after the other, every tensor by itself.               *)
InOrder(g, now, content) ==
  LET after[i \in 0..Len(g.cmds)] ==
        IF i = 0 THEN content
        ELSE LET m == after[i - 1]
                 c == g.cmds[i]
                 new == WrittenBy(g, i, now, [r \in DOMAIN c.reads |-> m[c.reads[r].owner].term],
                                LAMBDA w : Kept(g, m[w.owner], w.owner, now))
             IN [o \in DOMAIN m |-> IF \E w \in DOMAIN c.writes : c.writes[w].owner = o
                                    THEN new[CHOOSE w \in DOMAIN c.writes : c.writes[w].owner = o] ELSE m[o]]
  IN after[Len(g.cmds)]

-----------------------------------------------------------------------------
NoContent == [owner |-> 0, call |-> 0, term |-> Undefined]

(* A constant is in its staging buffer when the commands that pack it are  *)
(* submitted.                                                              *)
Constants(g) ==
  [m \in (-Len(g.sobjs))..Len(g.values) |->
     IF m > 0 /\ Val(g, m).kind \in {"tref", "none"}
     THEN [owner |-> m, call |-> 0, term |-> Term("constant", m, <<>>)] ELSE NoContent]

VulkanInit ==
  /\ program \in Programs
  /\ phase = "new"
  /\ graph = EmptyGraph
  /\ done = {}
  /\ memory = <<>>
  /\ images = <<>>
  /\ discards \in BOOLEAN
  /\ call = 0
  /\ args = <<>>
  /\ results = <<>>
  /\ meant = <<>>

(* VulkanBackend::init up to the wait for the fence.  A graph whose header *)
(* is refused is left as the constructor made it.                          *)
compileModel ==
  /\ phase = "new"
  /\ \/ /\ ~parse(program.header)
        /\ phase' = "failed"
        /\ UNCHANGED <<graph, memory, images, meant>>
     \/ /\ parse(program.header)
        /\ \E built \in {build_graph(program)} :
           \E encoded \in {encode_prepack(built, prepare(built))} :
           \E g \in {submit_cmd_to_gpu(encoded, TRUE)} :
              /\ graph' = g
              /\ phase' = IF g.status = "ok" THEN "prepacking" ELSE "thrown"
              /\ memory' = Constants(g)
              /\ images' = [r \in DOMAIN g.values |-> "UNDEFINED"]
              /\ meant' = InOrder(g, 0, Constants(g))
  /\ UNCHANGED <<program, discards, done, call, args, results>>

(* A command of the submission is executed.                                *)
Run(i) ==
  /\ phase \in {"prepacking", "executing"}
  /\ i \notin done
  /\ \A j \in 1..(i - 1) : j \in done \/ ~Waits(graph.cmds, j, i)
  /\ \E lost \in SUBSET Discards(graph.cmds[i]) :
       LET c == graph.cmds[i]
           gone == {c.barriers[k].resource : k \in lost}
           start == [m \in DOMAIN memory |-> IF memory[m].owner \in gone THEN NoContent ELSE memory[m]]
           new == WrittenBy(graph, i, call, [r \in DOMAIN c.reads |-> Seen(graph.cmds, i, c.reads[r], start)],
                          LAMBDA w : Kept(graph, start[w.mem], w.owner, call))
       IN memory' = [m \in DOMAIN start |->
                       IF WritesTo(c, m) THEN new[CHOOSE w \in DOMAIN c.writes : c.writes[w].mem = m]
                       ELSE start[m]]
  /\ images' = [r \in DOMAIN images |-> LayoutAfter(graph.cmds[i], Len(graph.cmds[i].barriers), r)]
  /\ done' = done \cup {i}
  /\ UNCHANGED <<program, discards, phase, graph, call, args, results, meant>>

Finished == done = DOMAIN graph.cmds

(* The rest of init: the fence is signalled, everything is flushed and the *)
(* graph is encoded.                                                       *)
prepack ==
  /\ phase = "prepacking"
  /\ Finished
  /\ \E g \in {encode_execute(flush(graph), prepare(graph))} :
        /\ graph' = g
        /\ phase' = IF g.status = "ok" THEN "ready" ELSE "thrown"
  /\ done' = {}
  /\ UNCHANGED <<program, discards, memory, images, call, args, results, meant>>

-----------------------------------------------------------------------------
(* VulkanBackend::execute up to the wait for the fence.  An argument is    *)
(* the sizes of a tensor, or the value of a scalar tensor.                 *)
maybe_resize_input(g, ref, sizes) ==
  VK_CHECK_COND(g, Len(sizes) = dim(Val(g, ref)),
    IF sizes = sizes_of(g, ref) THEN g ELSE ResizeTo(g, ref, sizes))

maybe_update_scalar_tensor(g, ref, value) == [g EXCEPT !.values[ref].val = value]

FitsStaging(g, staging, n) == VK_CHECK_COND(g, n <= Val(g, staging).numel, g)

take_input(g, i, a) ==
  LET in == g.inputs[i]
  IN CASE val_is(g, in.value, "tensor") ->
            FitsStaging(maybe_resize_input(g, in.value, a), in.staging, Product(a))
       [] val_is(g, in.value, "symint") -> maybe_update_scalar_tensor(g, in.value, a[1])
       [] OTHER -> Throw(g)

propagate_resize(g) == Fold(g, Len(g.nodes), LAMBDA h, i : trigger_resize(h, h.nodes[i]))

ArgContent(i) == [owner |-> graph.inputs[i].staging, call |-> call + 1, term |-> Term("input", call + 1, <<Term("argument", i, <<>>)>>)]

copy_into_staging(content) ==
  [m \in DOMAIN content |->
     IF \E i \in DOMAIN graph.inputs : graph.inputs[i].staging = m /\ m # kDummyValueRef
     THEN ArgContent(CHOOSE i \in DOMAIN graph.inputs : graph.inputs[i].staging = m) ELSE content[m]]

execute ==
  /\ phase = "ready"
  /\ call < MaxCalls
  /\ \E a \in program.calls :
       \E taken \in {Fold(graph, Len(graph.inputs), LAMBDA g, i : take_input(g, i, a[i]))} :
       \E g \in {submit_cmd_to_gpu(IF taken.values = graph.values THEN taken ELSE propagate_resize(taken), FALSE)} :
          /\ graph' = g
          /\ phase' = IF g.status = "ok" THEN "executing" ELSE "thrown"
          /\ args' = a
  /\ memory' = copy_into_staging(memory)
  /\ meant' = InOrder(graph, call + 1, copy_into_staging(meant))
  /\ call' = call + 1
  /\ UNCHANGED <<program, discards, done, images, results>>

(* The rest of execute: the fence is signalled and the outputs are copied. *)
(* The caller's tensors hold the sizes the program declares.               *)
maybe_resize_output(g, o) ==
  LET n == Product(sizes_of(g, g.outputs[o].value))
  IN n <= Product(program.values[g.outputs[o].value].sizes) /\ n <= Val(g, g.outputs[o].staging).numel

copy_from_staging(o) ==
  [sizes |-> sizes_of(graph, graph.outputs[o].value), term |-> memory[graph.outputs[o].staging].term]

finish_execute ==
  /\ phase = "executing"
  /\ Finished
  /\ \/ /\ \A o \in DOMAIN graph.outputs : maybe_resize_output(graph, o)
        /\ phase' = "ready"
        /\ results' = [o \in DOMAIN graph.outputs |-> copy_from_staging(o)]
     \/ /\ \E o \in DOMAIN graph.outputs : ~maybe_resize_output(graph, o)
        /\ phase' = "thrown"
        /\ UNCHANGED results
  /\ done' = {}
  /\ UNCHANGED <<program, discards, graph, memory, images, call, args, meant>>

destroy ==
  /\ phase = "ready"
  /\ phase' = "destroyed"
  /\ graph' = EmptyGraph
  /\ memory' = <<>>
  /\ images' = <<>>
  /\ UNCHANGED <<program, discards, done, call, args, results, meant>>

VulkanNext ==
  \/ compileModel
  \/ \E i \in DOMAIN graph.cmds : Run(i)
  \/ prepack
  \/ execute
  \/ finish_execute
  \/ destroy

VulkanSpec == VulkanInit /\ [][VulkanNext]_VulkanVars

-----------------------------------------------------------------------------
TypeOK ==
  /\ program \in Programs
  /\ phase \in {"new", "prepacking", "ready", "executing", "destroyed", "failed", "thrown"}
  /\ done \subseteq DOMAIN graph.cmds
  /\ call \in 0..MaxCalls
  /\ graph.cmd \in {"RECORDING", "SUBMITTED", "INVALID"}
  /\ DOMAIN images \subseteq Nat

(* Two things the barriers do not cover.  A dispatch that binds a tensor   *)
(* to write it and again to read it leaves it as last read, and no barrier *)
(* makes what follows wait for the write.  A view of an image has a record *)
(* of the layout of its own, undefined until the view is first used.       *)
BoundOnce(g) ==
  \A i \in DOMAIN g.nodes : \A a, b \in DOMAIN g.nodes[i].args :
    g.nodes[i].args[a].ref = g.nodes[i].args[b].ref => a = b

ViewsImages(g) == \E r \in DOMAIN g.values : val_is(g, r, "tensor") /\ Val(g, r).base # 0 /\ ~is_buffer(Val(g, r))

ResultsMeant ==
  phase = "ready" /\ call > 0 =>
    \A o \in DOMAIN graph.outputs : results[o].term = meant[graph.outputs[o].staging].term

(* What execute copies back is what the recorded commands compute, one     *)
(* after the other, from the inputs of this call and the constants: no     *)
(* barrier is missing between commands that meet in one tensor or in one   *)
(* shared allocation, and nothing of an earlier call is left over.         *)
OutputsOfThisCall ==
  BoundOnce(graph) /\ ~(discards /\ ViewsImages(graph)) => ResultsMeant

(* While the GPU works, every element of every tensor has a texel and a    *)
(* component, or an offset, of its own inside the tensor's storage, and a  *)
(* transposed view finds the elements of its original where they are.      *)
OwnPlace(t) ==
  LET e == Elements(t)
      place == [x \in e |-> Location(t, x)]
  IN /\ \A x \in e : WithinStorage(t, place[x])
     /\ Cardinality({place[x] : x \in e}) = Cardinality(e)

SamePlaces(g, node) ==
  LET t == Val(g, node.rargs[1])
      u == Val(g, node.rargs[2])
      k(i) == dim(u) - Val(g, node.rargs[i]).val
  IN \A x \in Elements(u) : Location(u, x) = Location(t, Swap(x, k(3), k(4)))

ElementsPlaced ==
  phase = "executing" /\ done = {} =>
    /\ \A r \in DOMAIN graph.values : val_is(graph, r, "tensor") => OwnPlace(Val(graph, r))
    /\ \A i \in DOMAIN graph.nodes : graph.nodes[i].resize = "transpose_view" => SamePlaces(graph, graph.nodes[i])

(* The shapes the operators are defined to have: windows are counted, and  *)
(* an unknown size of a view is the one that keeps the number of elements. *)
Windows(n, kernel, step, padding, dilation) ==
  Cardinality({i \in 0..(n + (2 * padding)) : (i * step) + (dilation * (kernel - 1)) < n + (2 * padding)})

HW(s, kernel, step, padding, dilation) ==
  [i \in 1..2 |-> Windows(s[Len(s) - 2 + i], kernel[i], step[i], padding[i], dilation[i])]

(* A transposed convolution has the least sizes that a convolution takes   *)
(* back to its input's, and the output padding.                            *)
Spread(s, kernel, step, padding, dilation, extra) ==
  [i \in 1..2 |->
     LET n == s[Len(s) - 2 + i]
     IN extra[i] + Min({m \in 0..(n * step[i] + kernel[i] * dilation[i]) :
                          Windows(m, kernel[i], step[i], padding[i], dilation[i]) = n})]

Broadcast(a, b) ==
  [i \in 1..Max({Len(a), Len(b)}) |->
     LET k == Max({Len(a), Len(b)}) - i + 1 IN IF val_at(k, a) = 1 THEN val_at(k, b) ELSE val_at(k, a)]

Viewed(s, view) ==
  CHOOSE v \in {[i \in DOMAIN view |-> IF view[i] = -1 THEN n ELSE view[i]] : n \in 0..Product(s)} :
    Product(v) = Product(s)

FollowsInput ==
  {"unary", "softmax", "flip", "binary", "mm", "addmm", "linear", "view", "reduce", "constant_pad_nd",
   "max_pool2d", "avg_pool2d", "conv", "arange", "full", "native_layer_norm", "repeat_interleave",
   "upsample_nearest2d", "grid_priors", "weight_int8pack_mm", "linear_weight_int4", "sdpa_with_kv_cache"}

(* s(i) and v(i): the sizes and the value of argument i.                   *)
ShapeOf(op, s(_), v(_)) ==
  LET lead == SubSeq(s(1), 1, Len(s(1)) - 1)
      front == SubSeq(s(1), 1, Len(s(1)) - 2)
      at(d) == (d % Len(s(1))) + 1
  IN CASE op \in {"unary", "softmax", "flip", "sdpa_with_kv_cache"} -> s(1)
       [] op = "binary" -> Broadcast(s(1), s(2))
       [] op = "mm" -> Append(lead, s(2)[Len(s(2))])
       [] op = "addmm" -> <<s(2)[1], s(3)[2]>>
       [] op = "linear" \/ op = "weight_int8pack_mm" \/ op = "linear_weight_int4" -> Append(lead, s(2)[1])
       [] op = "view" -> Viewed(s(1), v(2))
       [] op = "reduce" -> [s(1) EXCEPT ![at(v(2)[1])] = 1]
       [] op = "constant_pad_nd" ->
            [i \in DOMAIN s(1) |-> LET k == Len(s(1)) - i
                                   IN s(1)[i] + Sum(SubSeq(v(2), (2 * k) + 1, Min({(2 * k) + 2, Len(v(2))})))]
       [] op = "max_pool2d" -> front \o HW(s(1), v(2), v(3), v(4), v(5))
       [] op = "avg_pool2d" -> front \o HW(s(1), v(2), v(3), v(4), <<1, 1>>)
       [] op = "conv" -> IF Len(s(1)) = 4 /\ v(7) THEN <<s(1)[1], s(2)[2]>> \o Spread(s(1), SubSeq(s(2), 3, 4), v(4), v(5), v(6), v(8))
                         ELSE IF Len(s(1)) = 4 THEN <<s(1)[1], s(2)[1]>> \o HW(s(1), SubSeq(s(2), 3, 4), v(4), v(5), v(6))
                         ELSE <<s(1)[1], s(2)[1], Windows(s(1)[3], s(2)[3], v(4)[1], v(5)[1], v(6)[1])>>
       [] op = "arange" -> <<Cardinality({i \in 0..v(2) : v(1) + (i * v(3)) < v(2)})>>
       [] op = "full" -> s(1)
       [] op = "native_layer_norm" -> s(1)
       [] op = "repeat_interleave" -> [s(1) EXCEPT ![at(v(3))] = @ * v(2)]
       [] op = "upsample_nearest2d" -> front \o <<s(1)[3] * v(3)[1], s(1)[4] * v(3)[2]>>
       [] op = "grid_priors" -> <<s(1)[Len(s(1)) - 1] * s(1)[Len(s(1))], 2>>

(* The first output of every operator of the chain, in turn.               *)
Shapes ==
  LET input(r) == CHOOSE i \in DOMAIN program.inputs : program.inputs[i] = r
      given(r) == \E i \in DOMAIN program.inputs : program.inputs[i] = r
      value(r) == IF r = 0 THEN <<>> ELSE IF given(r) THEN args[input(r)][1] ELSE program.values[r].val
      first(r) == IF program.values[r].kind = "list" THEN program.values[r].val[1] ELSE r
      after[n \in 0..Len(program.chain)] ==
        IF n = 0
        THEN [r \in DOMAIN program.values |->
                IF program.values[r].kind \notin {"tensor", "tref"} THEN <<>>
                ELSE IF given(r) THEN args[input(r)] ELSE program.values[r].sizes]
        ELSE LET c == program.chain[n]
             IN [after[n - 1] EXCEPT ![first(c.args[Len(c.args)])] =
                   ShapeOf(c.op, LAMBDA i : after[n - 1][c.args[i]], LAMBDA i : value(c.args[i]))]
  IN after[Len(program.chain)]

(* The sizes execute gives its outputs are those the operators have for    *)
(* the sizes of this call's inputs, whatever the sizes of the calls before *)
(* it: every resize function along the way ran, in an order in which its   *)
(* inputs were up to date.  Operators without one are left out.            *)
SizesFollow ==
  phase = "ready" /\ call > 0 /\ (\A i \in DOMAIN program.chain : program.chain[i].op \in FollowsInput) =>
    \A o \in DOMAIN results : results[o].sizes = Shapes[program.outputs[o]]
=============================================================================
