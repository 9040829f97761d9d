--------------------------- MODULE VulkanRuntime ---------------------------
(***************************************************************************)
(* The objects under the graphs of the Vulkan delegate (vk_api, Context):   *)
(* every graph has a Context with a command pool, a descriptor pool, a      *)
(* query pool and the list of resources to clear; all graphs share the      *)
(* adapter, its caches and its queue.  A graph is used by one thread at a   *)
(* time, the GPU takes the submissions of the queue one after the other.    *)
(*                                                                         *)
(* What a command buffer holds is the sequence of vkCmd calls recorded in   *)
(* it.  A handle is an index; VK_NULL_HANDLE is 0.                          *)
(***************************************************************************)
EXTENDS Integers, Sequences, FiniteSets, SequencesExt

CONSTANTS
  Graphs,         \* the delegate instances
  Models,         \* what they may compute: [packs, nodes, tensors, querypool]
  MaxQueryCount,  \* QueryPoolConfig::max_query_count
  MaxExecutions   \* bound: calls of execute per graph

VARIABLES
  model,       \* the model of each graph
  stage,       \* where the thread of each graph is
  context,     \* ComputeGraph::context_
  fence,       \* the VulkanFence of the call under way
  resource,    \* the buffers and images: "none", "live", "listed", "freed"
  allocation,  \* SharedObject::allocation of each shared object
  adapter,     \* the caches and the usage of the queues
  vkqueue,     \* the submissions the GPU has not finished
  executions   \* number of calls of execute

RuntimeVars == <<model, stage, context, fence, resource, allocation, adapter, vkqueue, executions>>

-----------------------------------------------------------------------------
(* Command buffers.  k is the Context; a failed check throws.              *)
Null == 0
NoBound == [pipeline |-> Null, set |-> Null]
NoCommand == [handle |-> Null, reusable |-> FALSE, state |-> "NEW", bound |-> NoBound]

Checked(k, cond, next) == IF k.thrown \/ ~cond THEN [k EXCEPT !.thrown = TRUE] ELSE next

Record(k, command) == [k EXCEPT !.buffers[k.cmd.handle] = Append(@, command)]
InState(k, state) == [k EXCEPT !.cmd.state = state]

begin(k) == Checked(k, k.cmd.state = "NEW", InState(k, "RECORDING"))

end(k) == Checked(k, k.cmd.state \in {"RECORDING", "SUBMITTED"}, InState(k, "READY"))

bind_pipeline(k, pipeline) ==
  Checked(k, k.cmd.state = "RECORDING",
    InState(IF pipeline = k.cmd.bound.pipeline THEN k
            ELSE [Record(k, <<"pipeline", pipeline>>) EXCEPT !.cmd.bound.pipeline = pipeline],
            "PIPELINE_BOUND"))

bind_descriptors(k, set) ==
  Checked(k, k.cmd.state = "PIPELINE_BOUND",
    InState([(IF set = k.cmd.bound.set THEN k ELSE Record(k, <<"set", set>>)) EXCEPT !.cmd.bound.set = set],
            "DESCRIPTORS_BOUND"))

insert_barrier(k) ==
  Checked(k, k.cmd.state \in {"DESCRIPTORS_BOUND", "RECORDING"}, InState(k, "BARRIERS_INSERTED"))

dispatch(k) ==
  Checked(k, k.cmd.state = "BARRIERS_INSERTED", InState(Record(k, <<"dispatch">>), "RECORDING"))

blit(k, args) ==
  Checked(k, k.cmd.state = "BARRIERS_INSERTED", InState(Record(k, <<"blit", args>>), "RECORDING"))

cmd_write_timestamp(k, idx) == Checked(k, k.cmd.state = "RECORDING", Record(k, <<"timestamp", idx>>))

cmd_reset(k) == Checked(k, k.cmd.state = "RECORDING", Record(k, <<"reset">>))

invalidate(k) == [k EXCEPT !.cmd.handle = Null, !.cmd.bound = NoBound]

get_submit_handle(k, final_use) ==
  Checked(k, k.cmd.state = "READY",
    InState(IF ~k.cmd.reusable \/ final_use THEN invalidate(k) ELSE k, "SUBMITTED"))

(* CommandPool: the graph's pool grows by one buffer at a time.            *)
allocate_new_batch(k, count) ==
  IF k.in_use < Len(k.buffers) THEN k ELSE [k EXCEPT !.buffers = @ \o [i \in 1..count |-> <<>>]]

get_new_cmd(k, reusable) ==
  LET p == allocate_new_batch(k, 1)
  IN [p EXCEPT !.in_use = @ + 1,
               !.cmd = [handle |-> p.in_use + 1, reusable |-> reusable, state |-> "NEW", bound |-> NoBound]]

pool_flush(k) == [k EXCEPT !.in_use = 0, !.buffers = [i \in DOMAIN @ |-> <<>>]]

set_context_cmd(k, reusable) == IF k.cmd.handle # Null THEN k ELSE begin(get_new_cmd(k, reusable))

-----------------------------------------------------------------------------
(* Descriptor sets.  A pile hands out each of its sets once and asks the   *)
(* pool for as many again when none is left; sets holds what is bound.     *)
NewSets(k, n) == [i \in 1..n |-> Len(k.sets) + i]

allocate_sets(k, layout) ==
  LET pile == k.piles[layout]
      n == Len(pile.descriptors)
  IN IF pile.in_use < n /\ pile.descriptors[pile.in_use + 1] # Null THEN k
     ELSE [k EXCEPT !.sets = @ \o [i \in 1..n |-> {}],
                    !.piles[layout] = [descriptors |-> NewSets(k, n), in_use |-> 0]]

DescriptorSetPile(k, layout, size) ==
  allocate_sets([k EXCEPT !.piles = [l \in DOMAIN @ \cup {layout} |->
                    IF l = layout THEN [descriptors |-> [i \in 1..size |-> Null], in_use |-> 0] ELSE @[l]]],
                layout)

pile_get_descriptor_set(k, layout) ==
  LET p == allocate_sets(k, layout)
      u == p.piles[layout].in_use + 1
  IN [k |-> [p EXCEPT !.piles[layout] = [descriptors |-> [@.descriptors EXCEPT ![u] = Null], in_use |-> u]],
      set |-> p.piles[layout].descriptors[u]]

pool_get_descriptor_set(k, layout) ==
  IF k.thrown \/ k.pile_size = 0 THEN [k |-> [k EXCEPT !.thrown = TRUE], set |-> Null]
  ELSE pile_get_descriptor_set(IF layout \in DOMAIN k.piles THEN k ELSE DescriptorSetPile(k, layout, k.pile_size),
                          layout)

(* The bindings are written when the handle is asked for.                  *)
get_bind_handle(k, set, bindings) == IF k.thrown THEN k ELSE [k EXCEPT !.sets[set] = bindings]

descriptors_flush(k) == IF k.pile_size = 0 THEN k ELSE [k EXCEPT !.sets = <<>>, !.piles = <<>>]

-----------------------------------------------------------------------------
(* QueryPool: two timestamps around every dispatch.                        *)
write_timestamp(k) ==
  Checked(k, k.queries.num < MaxQueryCount,
    [cmd_write_timestamp(k, k.queries.num) EXCEPT !.queries.num = @ + 1])

reset_querypool(k) == [cmd_reset(k) EXCEPT !.queries = [@ EXCEPT !.num = 0, !.durations = <<>>]]

shader_profile_begin(k) ==
  IF ~k.queries.on THEN k
  ELSE [write_timestamp(k) EXCEPT !.queries.durations = Append(@, [start |-> k.queries.num, end |-> -1])]

shader_profile_end(k) ==
  IF ~k.queries.on THEN k
  ELSE [write_timestamp(k) EXCEPT !.queries.durations[Len(k.queries.durations)].end = k.queries.num]

cmd_reset_querypool(k) == IF k.queries.on THEN reset_querypool(set_context_cmd(k, FALSE)) ELSE k

-----------------------------------------------------------------------------
(* The caches of the adapter: the handle is the place of the key, the      *)
(* object is built from the key when it is not there.                      *)
Cached(cache, key) == IF Contains(cache, key) THEN cache ELSE Append(cache, key)
HandleOf(cache, key) == CHOOSE h \in DOMAIN cache : cache[h] = key

ShaderLayoutCache(a, signature) == [a EXCEPT !.layouts = Cached(@, signature)]
PipelineLayoutCache(a, layout) == [a EXCEPT !.pipeline_layouts = Cached(@, layout)]
ShaderCache(a, shader) == [a EXCEPT !.modules = Cached(@, shader)]
ComputePipelineCache(a, key) == [a EXCEPT !.pipelines = Cached(@, key)]

(* The specialization constants of a dispatch: its workgroup, then its own. *)
Specialization(wg, spec_vars) == wg \o spec_vars

(* ComputePipeline::Descriptor, compared field by field.                   *)
DescriptorWithoutConstants(a, shader, constants) ==
  <<HandleOf(a.pipeline_layouts, HandleOf(a.layouts, shader.signature)), HandleOf(a.modules, shader.name), <<1, 1, 1>>>>
Descriptor(a, shader, constants) ==
  <<HandleOf(a.pipeline_layouts, HandleOf(a.layouts, shader.signature)), HandleOf(a.modules, shader.name), constants>>

(* A constant is read where its map entry says, in an array of SpecVar:    *)
(* four bytes of type, then four of value.                                 *)
generate_map_entries(vars) == [i \in DOMAIN vars |-> (i - 1) * 8 + 4]
ComputePipeline(a, key) ==
  [name |-> a.modules[key[2]],
   constants |-> [i \in DOMAIN key[3] |-> key[3][generate_map_entries(key[3])[i] \div 8 + 1]]]

(* What Context::get_descriptor_set retrieves for a shader.                *)
RetrieveAll(a, shader, constants) ==
  LET l == ShaderLayoutCache(a, shader.signature)
      p == PipelineLayoutCache(l, HandleOf(l.layouts, shader.signature))
      m == ShaderCache(p, shader.name)
  IN ComputePipelineCache(m, Descriptor(m, shader, constants))

get_descriptor_set(k, a, shader, constants) ==
  pool_get_descriptor_set(bind_pipeline(k, HandleOf(a.pipelines, Descriptor(a, shader, constants))),
                          HandleOf(a.layouts, shader.signature))

register_shader_dispatch(k, set, bindings) ==
  dispatch(insert_barrier(bind_descriptors(get_bind_handle(k, set, bindings), set)))

register_blit(k, args) == blit(insert_barrier(k), args)

(* One queue, and how many contexts have asked for it.                     *)
request_queue(a) == [a EXCEPT !.usage = @ + 1]
return_queue(a) == [a EXCEPT !.usage = @ - 1]

-----------------------------------------------------------------------------
(* The nodes.  A step takes and gives [k, a]: context and adapter.         *)
Staging(i) == <<"staging", i>>
Params(i) == <<"params", i>>
Tensor(t) == <<"tensor", t>>
Tensors(args) == [i \in DOMAIN args |-> Tensor(args[i])]

Encode(s, shader, constants, bindings) ==
  LET a == RetrieveAll(s.a, shader, constants)
      got == get_descriptor_set(s.k, a, shader, constants)
  IN IF s.k.thrown THEN s
     ELSE [k |-> register_shader_dispatch(got.k, got.set, bindings), a |-> a]

get_noop_shader(packed) == [name |-> "no_op", signature |-> <<"sampler">>]

encode_pack(s, m, i) ==
  LET pack == m.packs[i]
      packed == Encode(s, pack.shader, Specialization(pack.wg, pack.spec), <<Tensor(pack.packed), Staging(i)>>)
  IN Encode(packed, get_noop_shader(pack.packed), <<1, 1, 1>>, <<Tensor(pack.packed)>>)

encode_dispatch(s, node, i) ==
  LET done == Encode([s EXCEPT !.k = shader_profile_begin(@)], node.shader,
                     Specialization(node.wg, node.spec), Append(Tensors(node.args), Params(i)))
  IN [done EXCEPT !.k = shader_profile_end(@)]

encode_blit(s, node) ==
  [s EXCEPT !.k = shader_profile_end(register_blit(shader_profile_begin(@), Tensors(node.args)))]

EncodeNode(s, node, i) ==
  CASE node.kind = "dispatch" -> encode_dispatch(s, node, i)
    [] node.kind = "blit" -> encode_blit(s, node)
    [] node.kind = "none" -> s

EncodePacks(s, m) ==
  LET upto[i \in 0..Len(m.packs)] == IF i = 0 THEN s ELSE encode_pack(upto[i - 1], m, i)
  IN upto[Len(m.packs)]
EncodeNodes(s, m) ==
  LET upto[i \in 0..Len(m.nodes)] == IF i = 0 THEN s ELSE EncodeNode(upto[i - 1], m.nodes[i], i)
  IN upto[Len(m.nodes)]

-----------------------------------------------------------------------------
(* The graph.                                                              *)
Closed ==
  [alive |-> FALSE, cmd |-> NoCommand, buffers |-> <<>>, in_use |-> 0, piles |-> <<>>, sets |-> <<>>, pile_size |-> 0,
   queries |-> [on |-> FALSE, num |-> 0, durations |-> <<>>], thrown |-> FALSE]

NewContext == [Closed EXCEPT !.alive = TRUE, !.buffers = <<(<<>>)>>]

Values(m) == {Tensor(t) : t \in DOMAIN m.tensors}
Ubos(m) == {Params(i) : i \in DOMAIN m.nodes}
Stagings(m) == {Staging(i) : i \in DOMAIN m.packs}
SharedObjects(m) == {m.tensors[t] : t \in DOMAIN m.tensors} \ {0}

Become(g, which, status) == [resource EXCEPT ![g] = [r \in DOMAIN @ |-> IF r \in which THEN status ELSE @[r]]]
Listed(g) == {r \in DOMAIN resource[g] : resource[g][r] = "listed"}

Running == \A g \in Graphs : ~context[g].thrown
At(g, from, to) == Running /\ stage[g] = from /\ stage' = [stage EXCEPT ![g] = to]

ComputeGraph(g) ==
  /\ At(g, "none", "built")
  /\ context' = [context EXCEPT ![g] = set_context_cmd(NewContext, TRUE)]
  /\ resource' = Become(g, Values(model[g]) \cup Ubos(model[g]), "live")
  /\ adapter' = request_queue(adapter)
  /\ UNCHANGED <<model, fence, allocation, vkqueue, executions>>

prepare_graph(g) ==
  /\ At(g, "built", "prepared")
  /\ context' = [context EXCEPT ![g].pile_size = 1, ![g].queries.on = model[g].querypool]
  /\ UNCHANGED <<model, fence, resource, allocation, adapter, vkqueue, executions>>

(* The staging buffers of the nodes go to the list when encode returns.    *)
EncodePrepack(g) ==
  LET s == EncodePacks([k |-> context[g], a |-> adapter], model[g])
  IN /\ At(g, "prepared", "encoded")
     /\ context' = [context EXCEPT ![g] = s.k]
     /\ adapter' = s.a
     /\ resource' = Become(g, Stagings(model[g]), "listed")
     /\ UNCHANGED <<model, fence, allocation, vkqueue, executions>>

(* submit_cmd_to_gpu, with the fence armed before.                         *)
Submit(g, final_use, job) ==
  /\ fence' = [fence EXCEPT ![g] = [waiting |-> TRUE, signaled |-> FALSE]]
  /\ IF context[g].cmd.handle = Null THEN UNCHANGED <<context, vkqueue>>
     ELSE /\ context' = [context EXCEPT ![g] = get_submit_handle(end(@), final_use)]
          /\ vkqueue' = Append(vkqueue, [graph |-> g, buffer |-> context[g].cmd.handle, job |-> job])

RunPrepack(g) ==
  /\ At(g, "encoded", "prepacking")
  /\ Submit(g, TRUE, "prepack")
  /\ UNCHANGED <<model, resource, allocation, adapter, executions>>

ExecuteOnce(g) ==
  /\ executions[g] < MaxExecutions
  /\ At(g, "ready", "executing")
  /\ Submit(g, TRUE, "execute")
  /\ executions' = [executions EXCEPT ![g] = @ + 1]
  /\ UNCHANGED <<model, resource, allocation, adapter>>
execute_graph(g) ==
  /\ executions[g] < MaxExecutions
  /\ At(g, "ready", "executing")
  /\ Submit(g, FALSE, "execute")
  /\ executions' = [executions EXCEPT ![g] = @ + 1]
  /\ UNCHANGED <<model, resource, allocation, adapter>>

fence_wait(g) ==
  /\ fence[g].waiting /\ fence[g].signaled
  /\ fence' = [fence EXCEPT ![g] = [waiting |-> FALSE, signaled |-> FALSE]]
  /\ At(g, "prepacking", "prepacked") \/ At(g, "executing", "ready")
  /\ UNCHANGED <<model, context, resource, allocation, adapter, vkqueue, executions>>

(* Context::flush, once the queue is idle.                                 *)
Idle == vkqueue = <<>>
Flushed(k) == LET p == descriptors_flush(pool_flush(k)) IN IF p.cmd.handle # Null THEN invalidate(p) ELSE p

flush_prepack(g) ==
  /\ Idle
  /\ At(g, "prepacked", "packed")
  /\ context' = [context EXCEPT ![g] = Flushed(@)]
  /\ resource' = Become(g, Listed(g), "freed")
  /\ UNCHANGED <<model, fence, allocation, adapter, vkqueue, executions>>

EncodeExecute(g) ==
  LET k == cmd_reset_querypool(set_context_cmd(Flushed(context[g]), TRUE))
      s == EncodeNodes([k |-> k, a |-> adapter], model[g])
  IN /\ Idle
     /\ At(g, "packed", "ready")
     /\ context' = [context EXCEPT ![g] = s.k]
     /\ adapter' = s.a
     /\ allocation' = [allocation EXCEPT ![g] = [o \in DOMAIN @ |-> "live"]]
     /\ resource' = Become(g, Listed(g), "freed")
     /\ UNCHANGED <<model, fence, vkqueue, executions>>

(* ~ComputeGraph: the values are listed, the queue is waited for; then the *)
(* members go, the parameters first and the Context last.                  *)
clear_values(g) ==
  /\ At(g, "ready", "clearing")
  /\ resource' = Become(g, Values(model[g]), "listed")
  /\ UNCHANGED <<model, context, fence, allocation, adapter, vkqueue, executions>>

DestroyGraph(g) ==
  /\ Idle
  /\ At(g, "clearing", "closing")
  /\ context' = [context EXCEPT ![g] = Flushed(@)]
  /\ resource' = [resource EXCEPT ![g] = [r \in DOMAIN @ |-> IF r \in Listed(g) THEN "freed"
                                                             ELSE IF r \in Ubos(model[g]) THEN "listed" ELSE @[r]]]
  /\ allocation' = [allocation EXCEPT ![g] = [o \in DOMAIN @ |-> "freed"]]
  /\ UNCHANGED <<model, fence, adapter, vkqueue, executions>>

DestroyContext(g) ==
  /\ Idle
  /\ At(g, "closing", "gone")
  /\ context' = [context EXCEPT ![g] = Closed]
  /\ resource' = Become(g, Listed(g), "freed")
  /\ adapter' = return_queue(adapter)
  /\ UNCHANGED <<model, fence, allocation, vkqueue, executions>>

(* The GPU finishes the oldest submission and signals its fence.           *)
GpuCompletes ==
  /\ Running
  /\ vkqueue # <<>>
  /\ vkqueue' = Tail(vkqueue)
  /\ fence' = [fence EXCEPT ![Head(vkqueue).graph].signaled = TRUE]
  /\ UNCHANGED <<model, stage, context, resource, allocation, adapter, executions>>

RuntimeInit ==
  /\ model \in [Graphs -> Models]
  /\ stage = [g \in Graphs |-> "none"]
  /\ context = [g \in Graphs |-> Closed]
  /\ fence = [g \in Graphs |-> [waiting |-> FALSE, signaled |-> FALSE]]
  /\ resource = [g \in Graphs |-> [r \in Values(model[g]) \cup Ubos(model[g]) \cup Stagings(model[g]) |-> "none"]]
  /\ allocation = [g \in Graphs |-> [o \in SharedObjects(model[g]) |-> "none"]]
  /\ adapter = [usage |-> 0, layouts |-> <<>>, pipeline_layouts |-> <<>>, modules |-> <<>>, pipelines |-> <<>>]
  /\ vkqueue = <<>>
  /\ executions = [g \in Graphs |-> 0]

RuntimeNext ==
  \/ GpuCompletes
  \/ \E g \in Graphs :
       \/ ComputeGraph(g) \/ prepare_graph(g) \/ EncodePrepack(g) \/ RunPrepack(g) \/ fence_wait(g)
       \/ flush_prepack(g) \/ EncodeExecute(g) \/ execute_graph(g)
       \/ clear_values(g) \/ DestroyGraph(g) \/ DestroyContext(g)

RuntimeSpec == RuntimeInit /\ [][RuntimeNext]_RuntimeVars

-----------------------------------------------------------------------------
(* What the GPU is meant to do, from the model of the graph.               *)
Job(name, constants, bindings) == [name |-> name, constants |-> constants, bindings |-> bindings]

MeantPacks(m) ==
  FlattenSeq([i \in DOMAIN m.packs |->
    <<Job(m.packs[i].shader.name, m.packs[i].wg \o m.packs[i].spec, <<Tensor(m.packs[i].packed), Staging(i)>>),
      Job("no_op", <<1, 1, 1>>, <<Tensor(m.packs[i].packed)>>)>>])

MeantNodes(m) ==
  FlattenSeq([i \in DOMAIN m.nodes |->
    LET node == m.nodes[i]
    IN CASE node.kind = "dispatch" ->
              <<Job(node.shader.name, node.wg \o node.spec, Append(Tensors(node.args), Params(i)))>>
         [] node.kind = "blit" -> <<Job("blit", <<>>, Tensors(node.args))>>
         [] node.kind = "none" -> <<>>])

(* What it does: a dispatch takes the pipeline and the set bound last.     *)
LastOf(log, n, kind) ==
  LET at == {i \in 1..n : log[i][1] = kind} IN IF at = {} THEN Null ELSE CHOOSE i \in at : \A j \in at : j <= i

JobAt(k, a, log, n) ==
  LET p == LastOf(log, n, "pipeline")
      s == LastOf(log, n, "set")
  IN IF log[n][1] = "blit" THEN Job("blit", <<>>, log[n][2])
     ELSE IF p = Null \/ s = Null THEN Job("unbound", <<>>, <<>>)
     ELSE IF log[s][2] \notin DOMAIN k.sets THEN Job("reset", <<>>, <<>>)
     ELSE LET made == ComputePipeline(a, a.pipelines[log[p][2]])
          IN Job(made.name, made.constants, k.sets[log[s][2]])

Places(log) == SelectSeq([n \in DOMAIN log |-> n], LAMBDA n : log[n][1] \in {"dispatch", "blit"})
JobsOf(k, a, log) == [j \in DOMAIN Places(log) |-> JobAt(k, a, log, Places(log)[j])]

(* The j-th entry of the query pool measures the j-th job.                 *)
Timed(k, log) ==
  k.queries.on =>
    /\ log[1] = <<"reset">>
    /\ Len(k.queries.durations) = Len(Places(log))
    /\ \A j \in DOMAIN Places(log) :
         LET n == Places(log)[j]
             d == k.queries.durations[j]
             starts == {i \in 1..(n - 1) : log[i] = <<"timestamp", d.start>>}
             ends == {i \in (n + 1)..Len(log) : log[i] = <<"timestamp", d.end>>}
         IN /\ starts # {} /\ ends # {}
            /\ \A l \in DOMAIN Places(log) : l # j =>
                 \A b \in starts, e \in ends : ~(b < Places(log)[l] /\ Places(log)[l] < e)

Usable(g, r) ==
  /\ resource[g][r] \in {"live", "listed"}
  /\ r[1] = "tensor" => LET o == model[g].tensors[r[2]] IN o # 0 => allocation[g][o] = "live"

(* Until the GPU has finished a submission, its command buffer holds the   *)
(* jobs the model asks for, each with its own shader, constants and        *)
(* resources, none of them reset, rebound or freed; an execution is timed  *)
(* job by job (Context::flush, get_descriptor_set, register_*, QueryPool). *)
RunsAsEncoded ==
  \A i \in DOMAIN vkqueue :
    LET g == vkqueue[i].graph
        log == context[g].buffers[vkqueue[i].buffer]
        jobs == JobsOf(context[g], adapter, log)
    IN /\ jobs = IF vkqueue[i].job = "prepack" THEN MeantPacks(model[g]) ELSE MeantNodes(model[g])
       /\ vkqueue[i].job = "execute" => Timed(context[g], log)
       /\ \A j \in DOMAIN jobs : \A b \in DOMAIN jobs[j].bindings : Usable(g, jobs[j].bindings[b])

(* A thread that waits for a fence waits for a submission the GPU has or   *)
(* has finished, and a graph throws only for want of queries (fence.wait,  *)
(* submit_cmd_to_gpu, the state checks of CommandBuffer, write_timestamp). *)
FencesSignal ==
  \A g \in Graphs :
    /\ fence[g].waiting => fence[g].signaled \/ \E i \in DOMAIN vkqueue : vkqueue[i].graph = g
    /\ context[g].thrown => model[g].querypool /\ 2 * Len(MeantNodes(model[g])) > MaxQueryCount

(* A resource is destroyed before the shared memory it is bound to, and a  *)
(* destroyed graph leaves none behind, nor the queue in use (~ComputeGraph, *)
(* register_buffer_cleanup, ~SharedObject, return_queue).                  *)
Reclaims ==
  /\ \A g \in Graphs :
       /\ \A t \in DOMAIN model[g].tensors :
            model[g].tensors[t] # 0 /\ allocation[g][model[g].tensors[t]] = "freed" =>
              resource[g][Tensor(t)] = "freed"
       /\ stage[g] = "gone" => \A r \in DOMAIN resource[g] : resource[g][r] = "freed"
  /\ adapter.usage = Cardinality({g \in Graphs : context[g].alive})
============================================================================
