------------------------------ MODULE VulkanOps -------------------------------
(***************************************************************************)
(* The Vulkan delegate: its tensors and its graph                          *)
(* (backends/vulkan/runtime/api/containers, graph/ComputeGraph,            *)
(* graph/containers/SharedObject, graph/ops/{DispatchNode, PrepackNode,    *)
(* BlitNode, ExecuteNode}, graph/ops/impl/Staging), and its operators      *)
(* (graph/ops/impl).                                                       *)
(***************************************************************************)
EXTENDS Tensors

(* The vTensor of the Vulkan delegate, from backends/vulkan/runtime/api/   *)
(* containers/Tensor.{h,cpp} and graph/ops/glsl/indexing_utils.h.          *)
(*                                                                         *)
(* A tensor is a record.  Its metadata are the sizes, the dimension order  *)
(* (buffers), the axis map (textures: which axis of the image each of the  *)
(* dimensions W, H, C lies on and, fourth, which of them the batch is      *)
(* concatenated to), the packed dimension, and the fields computed from    *)
(* them: strides, padded and limits.  Its storage is a buffer of `length`  *)
(* elements from `offset`, or an image with `extents`.  mem is the memory  *)
(* it is bound to (bound: it has been), layout the layout its image was    *)
(* left in, last its last access, base the tensor it is a view of (0 for   *)
(* none) and copied whether it has views.  Dimensions are numbered from 0. *)

align_up_4(n) == ((n + 3) \div 4) * 4
div_up(a, b) == (a + b - 1) \div b

(* utils::val_at(-k, sizes): the k-th size from the end, 1 beyond them.    *)
val_at(k, sizes) == IF k <= Len(sizes) THEN sizes[Len(sizes) - k + 1] ELSE 1

(* Sizes in the order W, H, C, N.                                          *)
make_whcn(sizes) == [k \in 1..4 |-> val_at(k, sizes)]

calculate_dim_order(ndim, packed) ==
  LET final == ndim - 1 - packed
  IN IF ndim = 0 THEN <<0>>
     ELSE IF final < 0 THEN contiguous_order(ndim)
     ELSE [d \in 1..ndim |-> IF d = ndim THEN final ELSE IF d - 1 < final THEN d - 1 ELSE d]

calculate_strides(sizes, order) ==
  IF sizes = <<>> THEN <<1>> ELSE dim_order_to_stride(sizes, order)

default_axis_map == <<0, 1, 2, 2>>

unsqueeze_strides(strides_, n) ==
  [k \in 1..4 |-> IF k <= 4 - Len(strides_) THEN n ELSE strides_[k - (4 - Len(strides_))]]

calculate_padded_sizes(sizes, packed) ==
  [k \in 1..4 |-> IF 5 - k = packed + 1 THEN align_up_4(val_at(5 - k, sizes)) ELSE val_at(5 - k, sizes)]

DimOn(axis, a) == CHOOSE w \in 0..2 : axis[w + 1] = a

(* The packed dimension fills texels of 4.                                 *)
Texels(w, n, packed) == IF w = packed THEN n \div 4 ELSE n

(* Axis a of the image holds the dimension w the map puts there, times the *)
(* batch where it is concatenated.                                         *)
ExtentOf(padded, axis, w, packed) ==
  Texels(w, padded[4 - w] * (IF w = axis[4] THEN padded[1] ELSE 1), packed)
calculate_image_extents(padded, axis, packed) ==
  [a \in 1..3 |-> ExtentOf(padded, axis, DimOn(axis, a - 1), packed)]

set_logical_limits(extents, axis) == [w \in 1..3 |-> extents[axis[w] + 1]]

WithMetadata(t, padded) ==
  [t EXCEPT !.strides = calculate_strides(t.sizes, t.order),
            !.padded = padded,
            !.limits = set_logical_limits(
                         calculate_image_extents(padded, t.axis, t.packed), t.axis)]
update_metadata(t) == WithMetadata(t, calculate_padded_sizes(t.sizes, t.packed))

(* The constructor of a new tensor.  Tensors of more than four dimensions  *)
(* are refused by calculate_image_extents: see Fits4.                      *)
NoAccess == [stage |-> "NONE", access |-> {}]

WithStorage(t, extents) ==
  [t EXCEPT !.extents = extents,
            !.limits = IF t.storage = "buffer" THEN <<0, 0, 0>>
                       ELSE set_logical_limits(extents, t.axis),
            !.length = Product(t.padded),
            !.strides = calculate_strides(t.sizes, t.order)]

WithExtents(t) == WithStorage(t, calculate_image_extents(t.padded, t.axis, t.packed))

vTensor(sizes, type, storage, packed, mem, bound) ==
  WithExtents(
    [kind |-> "tensor", type |-> type, sizes |-> sizes,
     order |-> calculate_dim_order(Len(sizes), packed),
     packed |-> packed, axis |-> default_axis_map, storage |-> storage,
     extents |-> <<>>, length |-> 0, offset |-> 0, strides |-> <<>>,
     padded |-> calculate_padded_sizes(sizes, packed), limits |-> <<>>,
     mem |-> mem, bound |-> bound, layout |-> "UNDEFINED", last |-> NoAccess,
     base |-> 0, copied |-> FALSE])

Fits4(sizes) == Len(sizes) <= 4

padded_numel(t) == Product(t.padded)
is_buffer(t) == t.storage = "buffer"

(* The element counts a staging buffer is made for: full int8 support of   *)
(* the device is assumed.                                                  *)
staging_buffer_numel(t) == IF is_buffer(t) THEN numel(t) ELSE padded_numel(t)

-----------------------------------------------------------------------------
(* Views.  The copy keeps the metadata and the layout the image of the     *)
(* original is in at that moment.  Views of one image or buffer have the   *)
(* tensor that owns it as their base.                                      *)
Owner(t, ref) == IF t.base = 0 THEN ref ELSE t.base

ViewOf(t, ref) == [t EXCEPT !.base = Owner(t, ref), !.copied = FALSE]

is_view_of(t, u, uref) == t.base # 0 /\ t.base = Owner(u, uref)

(* The check that the new sizes fit the storage.  For an image it reads    *)
(* the padded sizes of the shape the tensor still has; for a buffer it     *)
(* adds an offset in bytes to a number of elements.                        *)
check_sizes(t, sizes) ==
  IF is_buffer(t) THEN Product(sizes) + t.offset <= t.length
  ELSE LET virtual == calculate_image_extents(t.padded, t.axis, t.packed)
       IN \A a \in 1..3 : virtual[a] <= t.extents[a]

virtual_resize_ok(t, sizes) == Len(sizes) = Len(t.order) /\ check_sizes(t, sizes)

virtual_resize(t, sizes) == update_metadata([t EXCEPT !.sizes = sizes])

(* Derived metadata are not recomputed: a virtual_resize or transpose that *)
(* follows does it.                                                        *)
virtual_clone(t, u) ==
  [t EXCEPT !.sizes = u.sizes, !.order = u.order, !.axis = u.axis, !.packed = u.packed]

Swap(s, i, j) == [k \in DOMAIN s |-> IF k = i THEN s[j] ELSE IF k = j THEN s[i] ELSE s[k]]
Renamed(x, a, b) == IF x = a THEN b ELSE IF x = b THEN a ELSE x

transpose_dim_order_inplace(order, d0, d1) == [i \in DOMAIN order |-> Renamed(order[i], d0, d1)]

virtual_transpose_ok(t, d0, d1) ==
  is_buffer(t) \/ (dim(t) - 1 - d0 < 3 /\ dim(t) - 1 - d1 < 3)

virtual_transpose(t, d0, d1) ==
  LET w0 == dim(t) - 1 - d0
      w1 == dim(t) - 1 - d1
  IN update_metadata(
       [t EXCEPT !.sizes = Swap(@, d0 + 1, d1 + 1),
                 !.packed = Renamed(@, w0, w1),
                 !.order = IF is_buffer(t) THEN transpose_dim_order_inplace(@, d0, d1) ELSE @,
                 !.axis = IF is_buffer(t) THEN @
                          ELSE [Swap(@, w0 + 1, w1 + 1) EXCEPT ![4] = Renamed(@, w0, w1)]])

-----------------------------------------------------------------------------
(* Where the shaders find an element (indexing_utils.h): tidx is its index *)
(* in the order W, H, C, N.                                                *)
tidx_to_bufi(t, tidx) ==
  LET st == unsqueeze_strides(t.strides, numel(t))
  IN Sum([k \in 1..4 |-> tidx[k] * st[5 - k]])

AlignedSize(t, w) == IF w = t.packed THEN align_up_4(val_at(w + 1, t.sizes)) ELSE val_at(w + 1, t.sizes)
BatchOffset(t, n) == IF val_at(4, t.sizes) > 1 THEN n * AlignedSize(t, t.axis[4]) ELSE 0
PosAlong(t, tidx, w) ==
  Texels(w, tidx[w + 1] + (IF w = t.axis[4] THEN BatchOffset(t, tidx[4]) ELSE 0), t.packed)

tidx_to_posi(t, tidx) ==
  <<PosAlong(t, tidx, DimOn(t.axis, 0)), PosAlong(t, tidx, DimOn(t.axis, 1)),
    PosAlong(t, tidx, DimOn(t.axis, 2)), tidx[t.packed + 1] % 4>>

Location(t, tidx) == IF is_buffer(t) THEN <<t.offset + tidx_to_bufi(t, tidx)>> ELSE tidx_to_posi(t, tidx)

Elements(t) ==
  LET s == make_whcn(t.sizes)
  IN {<<w, h, c, n>> : w \in 0..(s[1] - 1), h \in 0..(s[2] - 1), c \in 0..(s[3] - 1), n \in 0..(s[4] - 1)}

WithinStorage(t, loc) ==
  IF is_buffer(t) THEN loc[1] < t.length ELSE \A a \in 1..3 : loc[a] < t.extents[a]

-----------------------------------------------------------------------------
(* Synchronization (vTensorStorage::transition).  A barrier is recorded    *)
(* when the tensor was last written or its image changes layout; a tensor  *)
(* that is or has a view is taken to have been written by a shader.        *)
vk_layout(stage, access) ==
  CASE stage = "COMPUTE" -> IF access = {"READ"} THEN "SHADER_READ_ONLY" ELSE "GENERAL"
    [] stage = "TRANSFER" -> IF access = {"READ"} THEN "TRANSFER_SRC" ELSE "TRANSFER_DST"

(* What the tensor itself last did, whatever its views do.                 *)
PreviousAccessOwn(t) == t.last

PreviousAccess(t) ==
  IF t.base # 0 \/ t.copied THEN [stage |-> "COMPUTE", access |-> {"WRITE"}] ELSE t.last

Transitions(t, stage, access) ==
  \/ "WRITE" \in PreviousAccess(t).access
  \/ ~is_buffer(t) /\ t.layout # vk_layout(stage, access)

(* The source stage of a resource nobody has accessed is the top of the    *)
(* pipe: the barrier then waits for nothing.                               *)
BarrierOf(t, ref, stage, access) ==
  IF ~Transitions(t, stage, access) THEN <<>>
  ELSE <<[resource |-> Owner(t, ref), src |-> PreviousAccess(t).stage, dst |-> stage,
         old |-> t.layout, new |-> IF is_buffer(t) THEN t.layout ELSE vk_layout(stage, access)]>>

Accessed(t, stage, access) ==
  [t EXCEPT !.layout = IF is_buffer(t) THEN @ ELSE vk_layout(stage, access),
            !.last = [stage |-> stage, access |-> access]]

-----------------------------------------------------------------------------
(* The graph the Vulkan delegate builds, from backends/vulkan/runtime/     *)
(* graph/ComputeGraph.{h,cpp}, graph/containers/SharedObject.cpp,          *)
(* graph/ops/{DispatchNode, PrepackNode, BlitNode, ExecuteNode} and        *)
(* graph/ops/impl/Staging.cpp.                                             *)
(*                                                                         *)
(* A graph is a record: values (a ValueRef is a position in it, from 1;    *)
(* 0 is kDummyValueRef), the shared objects as the sequence of their       *)
(* users, the stack tmp of shared objects temporaries may take, the        *)
(* prepack and execute nodes, and inputs and outputs as pairs of a value   *)
(* and its staging buffer; cmds and cmd are the commands its context has   *)
(* recorded and the state of the command buffer.  Its functions take a graph and return one; an  *)
(* exception leaves status "throw", and nothing is done after it.          *)

kDummyValueRef == 0

EmptyGraph == [status |-> "ok", values |-> <<>>, sobjs |-> <<>>, tmp |-> <<>>,
               prepacks |-> <<>>, nodes |-> <<>>, inputs |-> <<>>, outputs |-> <<>>,
               cmds |-> <<>>, cmd |-> "RECORDING"]

Throw(g) == [g EXCEPT !.status = "throw"]
VK_CHECK_COND(g, ok, rest) == IF g.status = "ok" /\ ok THEN rest ELSE Throw(g)

(* Steps 1..n, one after the other, until one throws.                      *)
The(S) == CHOOSE x \in S : TRUE
Fold(g, n, step(_, _)) ==
  LET upto[i \in 0..n] == IF i = 0 THEN g
                          ELSE The({IF h.status = "ok" THEN step(h, i) ELSE h : h \in {upto[i - 1]}})
  IN upto[n]

Val(g, ref) == g.values[ref]
NextRef(g) == Len(g.values) + 1
val_is(g, ref, kind) == ref # kDummyValueRef /\ g.values[ref].kind = kind
get_tensor(g, ref) == g.values[ref]
sizes_of(g, ref) == g.values[ref].sizes

(* extract_scalar of an optional argument.                                 *)
extract_or(g, ref, default) == IF val_is(g, ref, "none") THEN default ELSE g.values[ref].val

AddValue(g, v) == VK_CHECK_COND(g, TRUE, [g EXCEPT !.values = Append(@, v)])

kWidthPacked == 0
kHeightPacked == 1
kChannelsPacked == 2

(* GraphConfig: unless a compile option says otherwise, every tensor is a  *)
(* 3D texture packed along the width; the choice suggested_memory_layout   *)
(* would make from the sizes is never reached.                             *)
memory_layout_override == kWidthPacked
suggested_memory_layout(sizes) == memory_layout_override
suggested_storage_type == "texture3d"

-----------------------------------------------------------------------------
(* Memory is named by the tensor that allocates it, or by minus the index  *)
(* of the shared object it comes from, which is bound later.               *)
add_user(g, s, ref) == [g EXCEPT !.sobjs[s] = Append(@, ref)]

(* get_shared_object makes the objects up to the index it is asked for.    *)
get_shared_object(g, s) ==
  [g EXCEPT !.sobjs = [i \in 1..Max({s, Len(@)}) |-> IF i <= Len(@) THEN @[i] ELSE <<>>]]

(* s = 0: the tensor allocates its own memory.                             *)
add_tensor(g, sizes, type, storage, packed, s) ==
  VK_CHECK_COND(g, Fits4(sizes),
    AddValue(IF s = 0 THEN g ELSE add_user(get_shared_object(g, s), s, NextRef(g)),
             vTensor(sizes, type, storage, packed, IF s = 0 THEN NextRef(g) ELSE -s, s = 0)))

add_tensor_like(g, ref, storage, packed) ==
  add_tensor(g, sizes_of(g, ref), Val(g, ref).type, storage, packed, 0)

(* A view becomes a user of the shared objects its original uses.          *)
AddView(g, ref, view) ==
  VK_CHECK_COND(g, TRUE,
    [g EXCEPT !.values = Append([@ EXCEPT ![ref].copied = TRUE], view),
              !.sobjs = [s \in DOMAIN @ |-> IF \E i \in DOMAIN @[s] : @[s][i] = ref
                                            THEN Append(@[s], NextRef(g)) ELSE @[s]]])

add_tensor_view(g, ref) == AddView(g, ref, ViewOf(Val(g, ref), ref))

add_staging(g, type, n) == AddValue(g, [kind |-> "staging", type |-> type, numel |-> n])

(* TmpTensor: the shared object on top of the stack, or a new one, until   *)
(* the end of the scope returns it.                                        *)
TmpObject(g) == IF g.tmp = <<>> THEN Len(g.sobjs) + 1 ELSE Head(g.tmp)

TmpTensor(g, sizes, type, storage, packed) ==
  VK_CHECK_COND(g, TRUE,
    add_tensor([g EXCEPT !.tmp = IF @ = <<>> THEN @ ELSE Tail(@)],
               sizes, type, storage, packed, TmpObject(g)))

ReturnTmp(g, ref) == VK_CHECK_COND(g, TRUE, [g EXCEPT !.tmp = <<-Val(g, ref).mem>> \o @])

ResizeTo(g, ref, sizes) ==
  VK_CHECK_COND(g, virtual_resize_ok(Val(g, ref), sizes),
    [g EXCEPT !.values[ref] = virtual_resize(@, sizes)])

-----------------------------------------------------------------------------
(* Nodes.  A node has the name of its shader ("" for one that only         *)
(* resizes), the refs it binds with their access, in binding order, the    *)
(* number of uniform buffers, the global work size it was built with, and  *)
(* the name and arguments of its resize function ("" for none).  keeps     *)
(* says that the shader leaves a part of what it writes as it was.         *)
Bind(refs, access) == [i \in DOMAIN refs |-> [ref |-> refs[i], access |-> {access}]]
WRITE(refs) == Bind(refs, "WRITE")
READ(refs) == Bind(refs, "READ")

create_global_wg_size(g, ref) ==
  IF is_buffer(Val(g, ref)) THEN <<numel(Val(g, ref)), 1, 1>> ELSE Val(g, ref).limits

Node(shader, args, ubos, global, keeps, resize, rargs) ==
  [op |-> "dispatch", shader |-> shader, args |-> args, ubos |-> ubos, global |-> global,
   keeps |-> keeps, resize |-> resize, rargs |-> rargs]

AddNode(g, node) == VK_CHECK_COND(g, TRUE, [g EXCEPT !.nodes = Append(@, node)])

(* The usual node: outputs written, inputs read, work over the first       *)
(* output, its outputs and inputs and more refs passed to the resize.      *)
Dispatch(g, shader, outs, ins, ubos, resize, rargs) ==
  AddNode(g, Node(shader, WRITE(outs) \o READ(ins), ubos, create_global_wg_size(g, outs[1]),
                  FALSE, resize, rargs))

DispatchOver(g, shader, outs, ins, ubos, global, resize, rargs) ==
  AddNode(g, Node(shader, WRITE(outs) \o READ(ins), ubos, global, FALSE, resize, rargs))

ResizeOnly(g, outs, ins, resize, rargs) ==
  AddNode(g, Node("", WRITE(outs) \o READ(ins), 0, <<0, 0, 0>>, FALSE, resize, rargs))

Blit(g, src, dst, resize, rargs) ==
  AddNode(g, [Node("blit", READ(<<src>>) \o WRITE(<<dst>>), 0, <<0, 0, 0>>, FALSE, resize, rargs)
                EXCEPT !.op = "blit"])

MetadataUbos(g, ref) == IF is_buffer(Val(g, ref)) THEN 3 ELSE 2

(* A prepack node holds the constant (or "none": zeros) and the tensor.    *)
AddPrepack(g, shader, tref, packed, ubos) ==
  VK_CHECK_COND(g, TRUE,
    [g EXCEPT !.prepacks = Append(@, [shader |-> shader, tref |-> tref, packed |-> packed, ubos |-> ubos])])

add_prepack_standard_node(g, tref, ref) == AddPrepack(g, "nchw_to_tensor", tref, ref, MetadataUbos(g, ref))

(* The prepack functions add a tensor for a constant and return it as the  *)
(* last value; an argument that is a tensor already may pass through, and  *)
(* is then what PrepackRef says.                                           *)
PassesThrough(g, ref, passthrough) == passthrough /\ val_is(g, ref, "tensor")
PrepackRef(g, ref, passthrough) == IF PassesThrough(g, ref, passthrough) THEN ref ELSE NextRef(g)

prepack_standard(g, ref, storage, packed, passthrough) ==
  IF PassesThrough(g, ref, passthrough) THEN g
  ELSE VK_CHECK_COND(g, val_is(g, ref, "tref"),
         add_prepack_standard_node(add_tensor_like(g, ref, storage, packed), ref, NextRef(g)))

prepack_standard_like(g, ref, like, passthrough) ==
  VK_CHECK_COND(g, val_is(g, like, "tensor"),
    prepack_standard(g, ref, Val(g, like).storage, Val(g, like).packed, passthrough))

prepack_direct_copy_buffer(g, ref) ==
  VK_CHECK_COND(g, val_is(g, ref, "tref"),
    AddPrepack(add_tensor_like(g, ref, "buffer", kWidthPacked), "buffer_to_buffer", ref, NextRef(g), 1))

-----------------------------------------------------------------------------
(* Inputs and outputs go through staging buffers.                          *)
add_staging_to_tensor_node(g, staging, ref) ==
  Dispatch(g, "nchw_to_tensor", <<ref>>, <<staging>>, MetadataUbos(g, ref), "", <<>>)

add_tensor_to_staging_node(g, ref, staging) ==
  DispatchOver(g, "tensor_to_nchw", <<staging>>, <<ref>>, MetadataUbos(g, ref),
               create_global_wg_size(g, ref), "", <<>>)

AddInput(g, ref, staging) == [g EXCEPT !.inputs = Append(@, [value |-> ref, staging |-> staging])]

set_input_tensor(g, ref) ==
  AddInput(add_staging_to_tensor_node(add_staging(g, Val(g, ref).type, staging_buffer_numel(Val(g, ref))),
                                      NextRef(g), ref),
           ref, NextRef(g))

set_val_as_input(g, ref) == AddInput(g, ref, kDummyValueRef)

(* An empty tensor has no image to bind, and gets no node.                 *)
AddOutput(g, ref, staging, n) ==
  [(IF n > 0 THEN add_tensor_to_staging_node(g, ref, staging) ELSE g)
     EXCEPT !.outputs = Append(@, [value |-> ref, staging |-> staging])]

set_output_tensor(g, ref) ==
  AddOutput(add_staging(g, Val(g, ref).type, staging_buffer_numel(Val(g, ref))),
            ref, NextRef(g), staging_buffer_numel(Val(g, ref)))

-----------------------------------------------------------------------------
(* The operators of the Vulkan delegate (backends/vulkan/runtime/graph/    *)
(* ops/impl): what each checks, the constants it has packed, the nodes it  *)
(* adds to the graph with the tensors they bind, and how its node resizes  *)
(* its outputs when an input changes shape.  What the shaders compute, the *)
(* names and types they are specialised for and the local work group sizes *)
(* are left out.                                                           *)

packed_dim_is(g, ref, packed) == Val(g, ref).packed = packed
AllPacked(g, refs, packed) == \A i \in DOMAIN refs : packed_dim_is(g, refs[i], packed)
size_at(g, k, ref) == val_at(k, sizes_of(g, ref))
has_standard_axis_map(g, ref) == SubSeq(Val(g, ref).axis, 1, 3) = <<0, 1, 2>>

(* normalize_to_dim_index: dimensions counted from the end, 1 for W.       *)
DimIndex(t, d) == IF d < 0 THEN -d ELSE dim(t) - d
normalize(d, ndim) == ((d % ndim) + ndim) % ndim

(* What a resize function sees: outputs written, inputs read, extra args.  *)
Outs(node) == SelectSeq(node.args, LAMBDA a : a.access = {"WRITE"})
Ins(node) == SelectSeq(node.args, LAMBDA a : a.access = {"READ"})
OutRef(node, i) == Outs(node)[i].ref
InSizes(g, node, i) == sizes_of(g, Ins(node)[i].ref)

-----------------------------------------------------------------------------
(* Arange.cpp: int arithmetic, C++ division.                               *)
Truncated(a, b) == IF (a < 0) # (b < 0) THEN -((IF a < 0 THEN -a ELSE a) \div (IF b < 0 THEN -b ELSE b))
                   ELSE (IF a < 0 THEN -a ELSE a) \div (IF b < 0 THEN -b ELSE b)

resize_arange_node(g, node) ==
  LET step == extract_or(g, node.rargs[3], 1)
      n == g.values[node.rargs[2]].val - extract_or(g, node.rargs[1], 0)
  IN ResizeTo(g, OutRef(node, 1), <<Truncated(n + step - 1, step)>>)

add_arange_node(g, start, end, step, res) ==
  VK_CHECK_COND(g, ~val_is(g, end, "none"),
    Dispatch(g, "arange", <<res>>, <<>>, 3, "arange", <<start, end, step>>))

(* BatchNorm.cpp                                                           *)
check_and_prepack_arg(g, ref, storage, channels) ==
  VK_CHECK_COND(g, val_is(g, ref, "tref") /\ sizes_of(g, ref)[1] = channels,
    prepack_standard(g, ref, storage, kWidthPacked, FALSE))

PrepackArgs(g, refs, storage, channels) ==
  LET upto[i \in 0..Len(refs)] ==
        IF i = 0 THEN g ELSE check_and_prepack_arg(upto[i - 1], refs[i], storage, channels)
  IN upto[Len(refs)]

CheckedDispatch(g, ok, shader, outs, ins, ubos) ==
  VK_CHECK_COND(g, ok, Dispatch(g, shader, outs, ins, ubos, "", <<>>))

add_native_batch_norm_node(g, in, weight, bias, mean, var, outs) ==
  LET res == Val(g, outs).val[1]
      c == size_at(g, 3, in)
      n == NextRef(g)
  IN VK_CHECK_COND(g, Len(sizes_of(g, in)) = 4,
       CheckedDispatch(PrepackArgs(g, <<weight, bias, mean, var>>, Val(g, res).storage, c),
                       size_at(g, 3, res) = c, "batchnorm", <<res>>, <<in, n, n + 1, n + 2, n + 3>>, 3))

(* BinaryOp.cpp                                                            *)
calculate_broadcasted_output_size(a, b) == get_larger_target_size(a, b)

check_binary_op_args(g, a, b, res) ==
  /\ Val(g, a).packed = Val(g, b).packed
  /\ Val(g, a).packed = Val(g, res).packed
  /\ sizes_of(g, res) = calculate_broadcasted_output_size(sizes_of(g, a), sizes_of(g, b))

resize_binary_op_node(g, node) ==
  ResizeTo(g, OutRef(node, 1),
           calculate_broadcasted_output_size(InSizes(g, node, 1), InSizes(g, node, 2)))

BinaryOf(g, a, b, res) ==
  VK_CHECK_COND(g, check_binary_op_args(g, a, b, res),
    Dispatch(g, "binary", <<res>>, <<a, b>>, 8, "binary_op", <<>>))

BinaryWithFirst(g, a, in2, res) ==
  BinaryOf(prepack_standard_like(g, in2, res, TRUE), a, PrepackRef(g, in2, TRUE), res)

(* Both operands are packed first where they are constants.                *)
add_binary_op_node(g, in1, in2, res) ==
  BinaryWithFirst(prepack_standard_like(g, in1, res, TRUE), PrepackRef(g, in1, TRUE), in2, res)

(* Clone.cpp                                                               *)
add_clone_node(g, in, res) == Dispatch(g, "clone", <<res>>, <<in>>, 1, "", <<>>)

(* Copy.cpp: a region is copied; the rest of the output is left alone.     *)
add_copy_offset_node(g, in, res) ==
  AddNode(g, Node("copy_offset", WRITE(<<res>>) \o READ(<<in>>), 3,
                  create_global_wg_size(g, res), TRUE, "", <<>>))

(* One node per batch.  A texel is read, merged and written back, so that  *)
(* the output is bound for writing and for reading.                        *)
add_copy_channel_offset_node(g, in, range, src, dst, res) ==
  LET ok == /\ AllPacked(g, <<in, res>>, kChannelsPacked)
            /\ dim(Val(g, in)) >= 3
            /\ dim(Val(g, res)) >= 3
            /\ size_at(g, 3, in) >= src + range
            /\ size_at(g, 3, res) >= dst + range
            /\ range >= 0 /\ src >= 0 /\ dst >= 0
      global == <<size_at(g, 1, in), size_at(g, 2, in), ((dst + range - 1) \div 4) - (dst \div 4) + 1>>
      node == Node("copy_channel_offset", WRITE(<<res>>) \o READ(<<res, in>>), 5, global, TRUE, "", <<>>)
      upto[n \in 0..size_at(g, 4, in)] == IF n = 0 THEN g ELSE AddNode(upto[n - 1], node)
  IN VK_CHECK_COND(g, ok, upto[size_at(g, 4, in)])

(* Cat.cpp                                                                 *)
add_cat_default_node(g, list, d, res) ==
  LET ins == Val(g, list).val
      k == DimIndex(Val(g, res), d)
      before(n) == Sum([i \in 1..n |-> size_at(g, 3, ins[i])])
      upto[n \in 0..Len(ins)] ==
        IF n = 0 THEN g
        ELSE IF k = 3
        THEN add_copy_channel_offset_node(upto[n - 1], ins[n], size_at(g, 3, ins[n]), 0, before(n - 1), res)
        ELSE add_copy_offset_node(upto[n - 1], ins[n], res)
  IN VK_CHECK_COND(g, AllPacked(g, ins, kChannelsPacked) /\ k \in 1..4, upto[Len(ins)])

-----------------------------------------------------------------------------
(* KernelUtils.cpp: sizes of convolutions and pools; lists are <<H, W>>.   *)
calc_out_size(n, kernel, step, padding, dilation, ceil) ==
  LET c == IF ceil THEN step - 1 ELSE 0
      n0 == Truncated(n + (2 * padding) - (dilation * (kernel - 1)) - 1 + c, step) + 1
  IN IF ceil /\ (n0 - 1) * step >= n + padding THEN n0 - 1 ELSE n0

calc_transpose_out_size(n, kernel, step, padding, dilation, extra) ==
  ((n - 1) * step) - (2 * padding) + (dilation * (kernel - 1)) + extra + 1

(* Both sizes must be at least 1.                                          *)
calc_out_sizes_hw(sizes, kernel, step, padding, dilation, ceil) ==
  [i \in 1..2 |-> calc_out_size(val_at(3 - i, sizes), kernel[i], step[i], padding[i], dilation[i], ceil)]

calc_transpose_out_sizes_hw(sizes, kernel, step, padding, dilation, extra) ==
  [i \in 1..2 |-> calc_transpose_out_size(val_at(3 - i, sizes), kernel[i], step[i], padding[i], dilation[i], extra[i])]

(* make_ivec2_from_list refuses any other list; lists stay in H, W order.  *)
ArePairs(g, refs) == \A i \in DOMAIN refs : Len(Val(g, refs[i]).val) = 2
IntList2(g, ref) == Val(g, ref).val

ResizeHW(g, ref, lead, hw) ==
  VK_CHECK_COND(g, \A i \in 1..2 : hw[i] >= 1, ResizeTo(g, ref, lead \o hw))

(* Convolution.cpp.  rargs: weight, stride, padding, dilation, transposed, *)
(* output_padding.                                                         *)
resize_conv2d_node(g, node) ==
  LET in == InSizes(g, node, 1)
      w == sizes_of(g, node.rargs[1])
      transposed == Val(g, node.rargs[5]).val
      lead == <<in[1], IF transposed THEN w[2] ELSE w[1]>>
      args(k) == IntList2(g, node.rargs[k])
      kernel == SubSeq(w, 3, 4)
  IN VK_CHECK_COND(g, transposed => ArePairs(g, <<node.rargs[6]>>), ResizeHW(g, OutRef(node, 1), lead,
       IF transposed
       THEN calc_transpose_out_sizes_hw(in, kernel, args(2), args(3), args(4), args(6))
       ELSE calc_out_sizes_hw(in, kernel, args(2), args(3), args(4), FALSE)))

resize_conv1d_node(g, node) ==
  LET in == InSizes(g, node, 1)
      w == sizes_of(g, node.rargs[1])
      arg(k) == Val(g, node.rargs[k]).val[1]
      n == calc_out_size(in[3], w[3], arg(2), arg(3), arg(4), FALSE)
  IN VK_CHECK_COND(g, n >= 1, ResizeTo(g, OutRef(node, 1), <<in[1], w[1], n>>))

prepack_biases(g, ref, weight, transposed, storage, packed) ==
  AddPrepack(add_tensor(g, <<sizes_of(g, weight)[IF transposed THEN 2 ELSE 1]>>, Val(g, weight).type,
                        storage, packed, 0),
             "nchw_to_tensor", ref, NextRef(g), 2)

get_conv2d_method(w, groups, transposed) ==
  CASE ~transposed /\ w[1] = groups /\ w[2] = 1 -> "Depthwise"
    [] ~(~transposed /\ w[1] = groups /\ w[2] = 1) /\ groups > 1 -> "throw"
    [] OTHER -> IF transposed THEN "Transposed"
                ELSE IF w[3] = 1 /\ w[4] = 1 THEN "Pointwise" ELSE "SlidingWindow"

get_final_sizes(w, method) ==
  LET n == align_up_4(val_at(4, w))
      c == align_up_4(val_at(3, w))
  IN CASE method = "Depthwise" -> <<4, n \div 4, val_at(2, w) * val_at(1, w)>>
       [] method \in {"Pointwise", "SlidingWindow"} ->
            <<4, (n * val_at(2, w)) \div 4, c * val_at(1, w)>>
       [] method = "Transposed" -> <<4, (c * val_at(2, w)) \div 4, n * val_at(1, w)>>

prepack_weights(g, ref, method) ==
  AddPrepack(add_tensor(g, get_final_sizes(sizes_of(g, ref), method), Val(g, ref).type, "texture2d",
                        kChannelsPacked, 0),
             "conv2d_prepack_weights", ref, NextRef(g), 2)

check_conv_args(g, in, res) == AllPacked(g, <<in, res>>, kChannelsPacked)

check_conv2d_params(kernel, padding, dilation, transposed) ==
  /\ transposed => dilation[1] <= 1 /\ dilation[2] <= 1
  /\ \A i \in 1..2 : ~(padding[i] > 0 /\ kernel[i] > 1 /\ dilation[i] > 1)

create_conv2d_global_wg_size(g, method, res) ==
  LET l == Val(g, res).limits
  IN IF method = "Pointwise" THEN <<div_up(l[1], 2), div_up(l[2], 2), l[3]>>
     ELSE create_global_wg_size(g, res)

(* p: stride, padding, dilation, transposed, output_padding; n: the packed *)
(* weight, followed by the packed bias.                                    *)
Conv2dOf(g, in, weight, n, p, method, res) ==
  VK_CHECK_COND(g, /\ sizes_of(g, in)[1] <= 1
                   /\ check_conv_args(g, in, res)
                   /\ ArePairs(g, SubSeq(p, 1, 3))
                   /\ check_conv2d_params(SubSeq(sizes_of(g, weight), 3, 4), IntList2(g, p[2]), IntList2(g, p[3]),
                                          Val(g, p[4]).val),
    DispatchOver(g, "conv2d", <<res>>, <<in, n, n + 1>>, 5,
                 create_conv2d_global_wg_size(g, method, res), "conv2d", <<weight>> \o p))

Conv2dBy(g, in, weight, bias, p, method, res) ==
  VK_CHECK_COND(g, method # "throw",
    Conv2dOf(prepack_biases(prepack_weights(g, weight, method), bias, weight, Val(g, p[4]).val,
                            "texture2d", kWidthPacked),
             in, weight, NextRef(g), p, method, res))

add_conv2d_node(g, in, weight, bias, p, groups, res) ==
  Conv2dBy(g, in, weight, bias, p,
           get_conv2d_method(sizes_of(g, weight), Val(g, groups).val, Val(g, p[4]).val), res)

Conv1dOf(g, in, weight, n, p, res) ==
  VK_CHECK_COND(g, check_conv_args(g, in, res),
    DispatchOver(g, "conv1d", <<res>>, <<in, n, n + 1>>, 8, <<1, sizes_of(g, weight)[1], 1>>,
                 "conv1d", <<weight>> \o SubSeq(p, 1, 3)))

add_conv1d_node(g, in, weight, bias, p, res) ==
  Conv1dOf(prepack_biases(prepack_standard(g, weight, Val(g, res).storage, kWidthPacked, FALSE),
                          bias, weight, FALSE, "texture3d", kChannelsPacked),
           in, weight, NextRef(g), p, res)

conv(g, args) ==
  LET res == args[Len(args)]
      p == SubSeq(args, 4, 8)
  IN IF Len(sizes_of(g, args[1])) = 4 THEN add_conv2d_node(g, args[1], args[2], args[3], p, args[9], res)
     ELSE add_conv1d_node(g, args[1], args[2], args[3], p, res)

-----------------------------------------------------------------------------
(* Embedding.cpp, Flip.cpp, Full.cpp, GridPriors.cpp, IndexSelect.cpp      *)
EmbeddingOf(g, packed, in, res) ==
  CheckedDispatch(g, AllPacked(g, <<packed, in, res>>, kChannelsPacked), "embedding", <<res>>, <<in, packed>>, 4)

embedding(g, weight, in, res) == EmbeddingOf(prepack_standard_like(g, weight, res, FALSE), NextRef(g), in, res)

(* resize_flip_node, resize_softmax_node and resize_unary_op_node          *)
resize_like_input(g, node) == ResizeTo(g, OutRef(node, 1), InSizes(g, node, 1))

add_flip_node(g, in, dims, res) ==
  VK_CHECK_COND(g, AllPacked(g, <<in, res>>, kChannelsPacked),
    Dispatch(g, "flip", <<res>>, <<in>>, 3, "like_input", <<>>))

resize_full_node(g, node) ==
  LET ref == node.rargs[1]
  IN ResizeTo(g, OutRef(node, 1), IF val_is(g, ref, "tensor") THEN sizes_of(g, ref) ELSE Val(g, ref).val)

add_full_node(g, size_or_in, res) == Dispatch(g, "full", <<res>>, <<>>, 2, "full", <<size_or_in>>)

resize_grid_priors_node(g, node) ==
  LET in == sizes_of(g, node.rargs[1])
  IN ResizeTo(g, OutRef(node, 1), <<val_at(2, in) * val_at(1, in), 2>>)

add_grid_priors_node(g, in, res) == Dispatch(g, "grid_priors", <<res>>, <<>>, 3, "grid_priors", <<in>>)

index_select(g, in, d, idx, res) ==
  VK_CHECK_COND(g, /\ AllPacked(g, <<in, idx, res>>, kChannelsPacked)
                   /\ DimIndex(Val(g, in), normalize(d, dim(Val(g, in)))) \in 1..4,
    Dispatch(g, "index_select", <<res>>, <<in, idx>>, 2, "", <<>>))

(* View.cpp                                                                *)
compute_out_sizes(orig, view) ==
  LET known == Product(SelectSeq(view, LAMBDA n : n > 0))
  IN [i \in DOMAIN view |-> IF view[i] = -1 THEN Product(orig) \div known ELSE view[i]]

resize_view_node(g, node) ==
  LET in == InSizes(g, node, 1)
      ref == node.rargs[1]
  IN ResizeTo(g, OutRef(node, 1),
       IF ref = kDummyValueRef \/ val_is(g, ref, "none") THEN in
       ELSE compute_out_sizes(in, Val(g, ref).val))

add_view_node(g, in, sizes, res) == Dispatch(g, "view", <<res>>, <<in>>, 2, "view", <<sizes>>)

(* A tensor like ref with another packing, filled by a view node: it is    *)
(* the first of the two values added, the second is a None.                *)
Repack(g, ref, packed) ==
  add_view_node(AddValue(add_tensor_like(g, ref, Val(g, ref).storage, packed), [kind |-> "none"]),
                ref, NextRef(g) + 1, NextRef(g))

-----------------------------------------------------------------------------
(* Linear.cpp, MatMul.cpp                                                  *)
check_matmul_args(g, mat1, mat2, res) ==
  LET a == sizes_of(g, mat1)
      b == sizes_of(g, mat2)
  IN /\ Len(a) \in {2, 3}
     /\ Len(a) = Len(b)
     /\ Val(g, mat1).packed = Val(g, res).packed
     /\ val_at(1, a) = val_at(2, b)

check_addmm_args(g, self, mat1, mat2, res) ==
  /\ check_matmul_args(g, mat1, mat2, res)
  /\ size_at(g, 1, self) \in {1, size_at(g, 1, mat2)}
  /\ size_at(g, 2, self) \in {1, size_at(g, 2, mat1)}

(* Rows of the first matrix by columns of the second.                      *)
ProductSizes(a, n) ==
  IF Len(a) = 2 THEN <<val_at(2, a), n>> ELSE <<a[1], val_at(2, a), n>>

Columns(g, node, transposed) == val_at(IF transposed THEN 2 ELSE 1, InSizes(g, node, 2))

resize_addmm_node(g, node) ==
  ResizeTo(g, OutRef(node, 1),
           ProductSizes(InSizes(g, node, 1), Columns(g, node, Val(g, node.rargs[1]).val)))

(* The sizes of the first matrix with its last two replaced, counted by    *)
(* the dimensions of the output.                                           *)
resize_matmul_node(g, node) ==
  LET a == InSizes(g, node, 1)
      n == dim(Val(g, OutRef(node, 1)))
      cols == Columns(g, node, Val(g, node.rargs[1]).val)
  IN VK_CHECK_COND(g, n <= Len(a),
       ResizeTo(g, OutRef(node, 1), [a EXCEPT ![n] = cols, ![n - 1] = val_at(2, a)]))

(* Both products have the naive form, that reads its operands as they are, *)
(* and the optimized one, that repacks them; self is 0 for a matmul.       *)
DivLimits(g, ref, by) == [a \in 1..3 |-> div_up(Val(g, ref).limits[a], by[a])]

SelfRef(g, self) == IF self = 0 THEN 0 ELSE PrepackRef(g, self, TRUE)
SelfPacked(g, self, res, packed) ==
  IF self = 0 THEN g ELSE prepack_standard(g, self, Val(g, res).storage, packed, TRUE)

MmNode(g, shader, ubos, s, a, b, global, res, transposed) ==
  DispatchOver(g, shader, <<res>>, IF s = 0 THEN <<a, b>> ELSE <<a, b, s>>,
               IF s = 0 THEN ubos ELSE ubos + 3, global, IF s = 0 THEN "matmul" ELSE "addmm", <<transposed>>)

NaiveProduct(g, s, mat1, mat2, res, transposed) ==
  MmNode(prepack_standard(g, mat2, Val(g, res).storage, kHeightPacked, TRUE), "mm_naive", 7,
           s, mat1, PrepackRef(g, mat2, TRUE),
           IF is_buffer(Val(g, res)) /\ s = 0
           THEN <<size_at(g, 1, res), size_at(g, 2, res), size_at(g, 3, res) * size_at(g, 4, res)>>
           ELSE Val(g, res).limits, res, transposed)

add_mm_naive_node(g, self, mat1, mat2, res, transposed) ==
  NaiveProduct(SelfPacked(g, self, res, kWidthPacked), SelfRef(g, self), mat1, mat2, res, transposed)

RepackUnless(g, as_is, ref, packed) == IF as_is THEN g ELSE Repack(g, ref, packed)

(* mat1 is repacked, and the packed mat2 unless it has the layout.         *)
ProductOfRepacked(g, s, mat1, b, as_is, layout, res, transposed) ==
  MmNode(RepackUnless(Repack(g, mat1, kWidthPacked), as_is, b, layout), "mm_optimized", 6,
           s, NextRef(g), IF as_is THEN b ELSE NextRef(g) + 2,
           DivLimits(g, res, IF val_at(2, sizes_of(g, mat1)) < 8 THEN <<4, 2, 1>> ELSE <<4, 4, 1>>),
           res, transposed)

WithLayout(g, s, mat1, b, layout, res, transposed) ==
  VK_CHECK_COND(g, TRUE, ProductOfRepacked(g, s, mat1, b, packed_dim_is(g, b, layout), layout, res, transposed))

OptimizedProduct(g, s, mat1, mat2, res, transposed) ==
  WithLayout(prepack_standard(g, mat2, Val(g, res).storage, kHeightPacked, TRUE), s, mat1,
             PrepackRef(g, mat2, TRUE), IF Val(g, transposed).val THEN kWidthPacked ELSE kHeightPacked,
             res, transposed)

add_mm_optimized_node(g, self, mat1, mat2, res, transposed) ==
  OptimizedProduct(SelfPacked(g, self, res, kChannelsPacked), SelfRef(g, self), mat1, mat2, res, transposed)

(* self is 0 for a matmul, which has the naive form in buffers.            *)
add_addmm_node(g, self, mat1, mat2, res, transposed) ==
  VK_CHECK_COND(g, TRUE,
    IF packed_dim_is(g, mat1, kWidthPacked) \/ (self = 0 /\ is_buffer(Val(g, res)))
    THEN add_mm_naive_node(g, self, mat1, mat2, res, transposed)
    ELSE IF packed_dim_is(g, mat1, kChannelsPacked)
    THEN add_mm_optimized_node(g, self, mat1, mat2, res, transposed)
    ELSE Throw(g))

add_matmul_node(g, mat1, mat2, res, transposed) == add_addmm_node(g, 0, mat1, mat2, res, transposed)

Bool(b) == [kind |-> "bool", val |-> b]

addmm(g, self, mat1, mat2, res) ==
  VK_CHECK_COND(g, check_addmm_args(g, self, mat1, mat2, res),
    add_addmm_node(AddValue(g, Bool(FALSE)), self, mat1, mat2, res, NextRef(g)))

matmul(g, mat1, mat2, res) ==
  VK_CHECK_COND(g, check_matmul_args(g, mat1, mat2, res),
    add_matmul_node(AddValue(g, Bool(FALSE)), mat1, mat2, res, NextRef(g)))

linear(g, in, weight, bias, res) ==
  add_addmm_node(AddValue(prepack_standard(g, weight, Val(g, res).storage, kWidthPacked, FALSE), Bool(TRUE)),
                 IF val_is(g, bias, "none") THEN 0 ELSE bias, in, NextRef(g), res, NextRef(g) + 1)

-----------------------------------------------------------------------------
(* NativeLayerNorm.cpp, Pad.cpp, Permute.cpp                               *)
calc_out_mean_sizes(sizes, n) == [i \in DOMAIN sizes |-> IF i > Len(sizes) - n THEN 1 ELSE sizes[i]]

resize_native_layer_norm_node(g, node) ==
  LET in == InSizes(g, node, 1)
      mean == calc_out_mean_sizes(in, Len(Val(g, node.rargs[1]).val))
  IN ResizeTo(ResizeTo(ResizeTo(g, OutRef(node, 1), in), OutRef(node, 2), mean), OutRef(node, 3), mean)

LayerNormOf(g, in, n, shape, outs) ==
  VK_CHECK_COND(g, AllPacked(g, <<in, outs[1]>>, kChannelsPacked),
    DispatchOver(g, "native_layer_norm", SubSeq(outs, 1, 3), <<in, n, n + 1>>, 3,
                 Val(g, outs[2]).limits, "native_layer_norm", <<shape>>))

add_native_layer_norm_node(g, in, shape, weight, bias, list) ==
  VK_CHECK_COND(g, Len(Val(g, shape).val) <= 1 /\ ~val_is(g, weight, "none") /\ ~val_is(g, bias, "none"),
    LayerNormOf(prepack_standard_like(prepack_standard_like(g, weight, in, FALSE), bias, in, FALSE),
                in, NextRef(g), shape, Val(g, list).val))

resize_constant_pad_node(g, node) ==
  LET in == InSizes(g, node, 1)
      pad == Val(g, node.rargs[1]).val
      more(k) == IF 2 * k <= Len(pad) THEN pad[(2 * k) - 1] + pad[2 * k] ELSE 0
  IN VK_CHECK_COND(g, Len(pad) <= 2 * Len(in),
       ResizeTo(g, OutRef(node, 1), [i \in DOMAIN in |-> in[i] + more(Len(in) - i + 1)]))

add_constant_pad_nd_node(g, in, pad, res) ==
  VK_CHECK_COND(g, Len(Val(g, pad).val) \in {2, 4, 6},
    Dispatch(g, "pad", <<res>>, <<in>>, 4, "constant_pad", <<pad>>))

add_permute_node(g, in, dims, res) ==
  LET n == Max({dim(Val(g, in)), dim(Val(g, res))})
  IN VK_CHECK_COND(g, /\ AllPacked(g, <<in, res>>, kChannelsPacked)
                      /\ \A i, j \in 1..n : dims[i] = dims[j] => i = j,
       Dispatch(g, "permute", <<res>>, <<in>>, 3, "", <<>>))

(* Pool.cpp.  rargs: kernel size, stride, padding, dilation (0 for the     *)
(* average), ceil mode.                                                    *)
ResizePooled(g, node, lead, hw) ==
  IF node.rargs[4] = kDummyValueRef THEN ResizeHW(g, OutRef(node, 1), lead, hw)
  ELSE ResizeHW(ResizeHW(g, OutRef(node, 1), lead, hw), OutRef(node, 2), lead, hw)

resize_pool2d_node(g, node) ==
  LET in == InSizes(g, node, 1)
      args == node.rargs
      dilation == IF args[4] = kDummyValueRef THEN <<1, 1>> ELSE IntList2(g, args[4])
      hw == calc_out_sizes_hw(in, IntList2(g, args[1]), IntList2(g, args[2]), IntList2(g, args[3]), dilation,
                              val_is(g, args[5], "bool") /\ Val(g, args[5]).val)
  IN ResizePooled(g, node, SubSeq(in, 1, Len(in) - 2), hw)

add_pool2d_node(g, in, outs, lists, ceil, ubos) ==
  VK_CHECK_COND(g, /\ AllPacked(g, <<in, outs[1]>>, kChannelsPacked)
                   /\ ArePairs(g, SelectSeq(lists, LAMBDA r : r # kDummyValueRef)),
    DispatchOver(g, "pool2d", outs, <<in>>, ubos, Val(g, outs[1]).limits, "pool2d", lists \o <<ceil>>))

add_max_pool2d_node(g, in, lists, ceil, list) ==
  add_pool2d_node(g, in, SubSeq(Val(g, list).val, 1, 2), lists, ceil, 3)

add_avg_pool2d_node(g, in, lists, ceil, res) ==
  add_pool2d_node(g, in, <<res>>, lists \o <<kDummyValueRef>>, ceil, 4)

-----------------------------------------------------------------------------
(* QuantizedLinear.cpp.  Both resize functions are the same.               *)
check_q_8w_linear_args(g, mat1, weight, scales, res) ==
  /\ Len(sizes_of(g, mat1)) \in {2, 3}
  /\ Len(sizes_of(g, weight)) = 2
  /\ Len(sizes_of(g, scales)) = 1
  /\ Val(g, mat1).packed = Val(g, res).packed
  /\ size_at(g, 1, mat1) = size_at(g, 1, weight)
  /\ size_at(g, 1, scales) = size_at(g, 2, weight)

resize_q_linear_node(g, node) ==
  ResizeTo(g, OutRef(node, 1), ProductSizes(InSizes(g, node, 1), Columns(g, node, TRUE)))

Q8wLinear(g, a, weight, scales, o, storage) ==
  Dispatch(prepack_standard(prepack_standard(g, weight, storage, kWidthPacked, FALSE), scales, storage,
                            kWidthPacked, FALSE),
           "q_8w_linear", <<o>>, <<a, NextRef(g), NextRef(g) + 1>>, IF storage = "buffer" THEN 7 ELSE 2,
           "q_linear", <<>>)

ViewUnless(h, g, o, res) ==
  IF is_buffer(Val(g, res)) \/ packed_dim_is(g, res, kWidthPacked) THEN h
  ELSE add_view_node(AddValue(h, [kind |-> "none"]), o, NextRef(h), res)

(* Textures that are not packed along the width go through copies that     *)
(* are.                                                                    *)
add_q_8w_linear_node(g, mat1, weight, scales, res) ==
  VK_CHECK_COND(g, check_q_8w_linear_args(g, mat1, weight, scales, res),
    IF is_buffer(Val(g, res)) \/ packed_dim_is(g, mat1, kWidthPacked)
    THEN ViewUnless(Q8wLinear(g, mat1, weight, scales, res, Val(g, res).storage), g, res, res)
    ELSE ViewUnless(Q8wLinear(add_tensor_like(Repack(g, mat1, kWidthPacked), res, Val(g, res).storage, kWidthPacked),
                              NextRef(g), weight, scales, NextRef(g) + 2, Val(g, res).storage),
                    g, NextRef(g) + 2, res))

(* The device is assumed to have 16-bit shader types and 8-bit buffers.    *)
check_q_4w_linear_args(g, mat1, weight, group, scales, res) ==
  /\ val_is(g, mat1, "tensor") /\ val_is(g, weight, "tref") /\ val_is(g, scales, "tref")
  /\ dim(Val(g, mat1)) <= 3 /\ Len(sizes_of(g, weight)) = 2 /\ Len(sizes_of(g, scales)) = 3
  /\ size_at(g, 3, mat1) = 1
  /\ size_at(g, 1, weight) * 2 = size_at(g, 1, mat1)
  /\ size_at(g, 1, mat1) % Val(g, group).val = 0
  /\ AllPacked(g, <<mat1, res>>, kWidthPacked)
  /\ has_standard_axis_map(g, mat1) /\ has_standard_axis_map(g, res)

add_q_4w_linear_node(g, mat1, weight, group, scales, res) ==
  VK_CHECK_COND(g, check_q_4w_linear_args(g, mat1, weight, group, scales, res),
    DispatchOver(prepack_standard(prepack_direct_copy_buffer(g, weight), scales, Val(g, res).storage,
                                  kWidthPacked, FALSE),
                 "q_4w_linear", <<res>>, <<mat1, NextRef(g), NextRef(g) + 1>>, 4, Val(g, res).limits,
                 "q_linear", <<>>))

-----------------------------------------------------------------------------
(* Reduce.cpp, Softmax.cpp: both work on textures, along a dimension the   *)
(* batch is not concatenated to.  A reduced batch dimension would index    *)
(* the work size past its end; nothing is changed by it here.              *)
AlongTexture(g, in, d, res) ==
  LET w == dim(Val(g, in)) - 1 - normalize(d, dim(Val(g, in)))
  IN /\ ~is_buffer(Val(g, in)) /\ ~is_buffer(Val(g, res))
     /\ dim(Val(g, in)) = 4 /\ sizes_of(g, in)[1] > 1
          => Val(g, in).axis[4] # w /\ Val(g, res).axis[4] # w

WorkAlong(g, in, d, res) ==
  LET w == dim(Val(g, in)) - 1 - normalize(d, dim(Val(g, in)))
  IN [a \in 1..3 |-> IF a = w + 1 THEN 1 ELSE Val(g, res).limits[a]]

(* rargs[1] is the dimension itself.                                       *)
resize_reduce_node(g, node) ==
  LET in == InSizes(g, node, 1)
  IN ResizeTo(g, OutRef(node, 1), [in EXCEPT ![normalize(node.rargs[1], Len(in)) + 1] = 1])

add_reduce_node(g, in, dims, res) ==
  VK_CHECK_COND(g, Len(dims) = 1 /\ AlongTexture(g, in, dims[1], res),
    DispatchOver(g, "reduce", <<res>>, <<in>>, 2, WorkAlong(g, in, dims[1], res), "reduce", dims))

add_softmax_node(g, in, d, res) ==
  VK_CHECK_COND(g, AlongTexture(g, in, d, res),
    DispatchOver(g, "softmax", <<res>>, <<in>>, 2, WorkAlong(g, in, d, res), "like_input", <<>>))

(* Repeat.cpp: the input is copied into the output, which is then copied   *)
(* within itself along the width, the height and the batch.                *)
check_repeat_args(g, in, repeats, res) ==
  /\ AllPacked(g, <<in, res>>, kChannelsPacked)
  /\ Val(g, in).storage = Val(g, res).storage
  /\ Val(g, in).storage = "texture2d" => dim(Val(g, in)) <= 2
  /\ dim(Val(g, in)) <= Len(repeats)
  /\ \A k \in 1..4 : size_at(g, k, in) * val_at(k, repeats) = size_at(g, k, res)

add_repeat_node(g, in, repeats, res) ==
  LET l == Val(g, in).limits
      again == Max({0, val_at(1, repeats) - 1}) + Max({0, val_at(2, repeats) - 1}) + Max({0, val_at(4, repeats) - 1})
      first == IF val_at(3, repeats) = 1 THEN add_copy_offset_node(g, in, res)
               ELSE AddNode(g, Node("repeat_channel", WRITE(<<res>>) \o READ(<<in>>), 1,
                      <<l[1], l[2], size_at(g, 4, in) * div_up(val_at(3, repeats) * size_at(g, 3, in), 4)>>,
                      TRUE, "", <<>>))
      upto[n \in 0..again] == IF n = 0 THEN first ELSE add_copy_offset_node(upto[n - 1], res, res)
  IN VK_CHECK_COND(g, check_repeat_args(g, in, repeats, res), upto[again])

(* RepeatInterleave.cpp, RotaryEmbedding.cpp: the resize function of the   *)
(* latter computes nothing.                                                *)
resize_repeat_interleave_node(g, node) ==
  LET in == InSizes(g, node, 1)
      d == normalize(Val(g, node.rargs[2]).val, Len(in)) + 1
  IN ResizeTo(g, OutRef(node, 1), [in EXCEPT ![d] = @ * Val(g, node.rargs[1]).val])

add_repeat_interleave_node(g, in, repeats, d, res) ==
  LET w == dim(Val(g, in)) - 1 - normalize(Val(g, d).val, dim(Val(g, in)))
  IN VK_CHECK_COND(g, w # Val(g, res).packed /\ w # Val(g, in).packed,
       DispatchOver(g, "repeat_interleave", <<res>>, <<in>>, 3, Val(g, in).limits,
                    "repeat_interleave", <<repeats, d>>))

add_rotary_embedding_node(g, xq, xk, cos, sin, outs) ==
  LET l == Val(g, outs[1]).limits
  IN VK_CHECK_COND(g, /\ size_at(g, 1, xq) = size_at(g, 1, xk)
                      /\ size_at(g, 3, xq) = size_at(g, 3, xk)
                      /\ size_at(g, 1, xq) = size_at(g, 1, cos) * 2
                      /\ sizes_of(g, cos) = sizes_of(g, sin)
                      /\ AllPacked(g, <<xq, xk, cos, sin>>, kWidthPacked)
                      /\ \A r \in {xq, xk, cos, sin} : has_standard_axis_map(g, r),
       DispatchOver(g, "rotary_embedding", outs, <<xq, xk, cos, sin>>, 2, <<l[1] \div 2, l[2], l[3]>>, "", <<>>))

-----------------------------------------------------------------------------
(* Select.cpp, Slice.cpp, Split.cpp, Squeeze.cpp, Unsqueeze.cpp            *)
add_select_int_node(g, in, d, index, res) ==
  LET n == dim(Val(g, in))
  IN VK_CHECK_COND(g, /\ AllPacked(g, <<in, res>>, kChannelsPacked)
                      /\ n \in {3, 4}
                      /\ d \in 0..(n - 1)
                      /\ index \in (-(sizes_of(g, in)[d + 1])..(sizes_of(g, in)[d + 1] - 1)),
       Dispatch(g, "select", <<res>>, <<in>>, 3, "", <<>>))

INT64_MAX == 2147483647

normalize_idx(index, n, default) ==
  IF index = INT64_MAX THEN default ELSE IF index = default THEN index ELSE normalize(index, n)

SliceRange(g, n, start, end) ==
  <<normalize_idx(extract_or(g, start, 0), n, 0), normalize_idx(extract_or(g, end, n), n, n)>>

add_slice_tensor_copy_node(g, in, dref, start, end, step, res) ==
  LET n == dim(Val(g, in))
      d == normalize(Val(g, dref).val, n)
      k == DimIndex(Val(g, in), d)
      range == SliceRange(g, sizes_of(g, in)[d + 1], start, end)
  IN VK_CHECK_COND(g, /\ AllPacked(g, <<in, res>>, kChannelsPacked)
                      /\ -n <= Val(g, dref).val /\ Val(g, dref).val < n
                      /\ k \in {1, 2} => sizes_of(g, res)[d + 1]
                                          = 1 + Truncated(range[2] - range[1] - 1, Val(g, step).val),
       Dispatch(g, "slice", <<res>>, <<in>>, IF k = 3 THEN 3 ELSE 2, "", <<>>))

get_slice_sizes(g, in, d, start, end) ==
  LET n == sizes_of(g, in)[d + 1]
      range == SliceRange(g, n, start, end)
  IN [sizes_of(g, in) EXCEPT ![d + 1] = range[2] - range[1]]

(* The end a slice view has by default is 0 in this check.                 *)
check_slice_view_args(g, in, d, start, end, step, res) ==
  LET n == sizes_of(g, in)[d + 1]
      order == Val(g, in).order
      pos == CHOOSE i \in DOMAIN order : order[i] = d
  IN /\ is_view_of(Val(g, res), Val(g, in), in)
     /\ normalize_idx(extract_or(g, start, 0), n, 0) = 0
     /\ extract_or(g, step, 1) = 1
     /\ normalize_idx(extract_or(g, end, 0), n, n) < n
     /\ \A i \in 1..(pos - 1) : sizes_of(g, in)[order[i] + 1] = 1

resize_slice_view_node(g, node) ==
  ResizeTo(g, node.rargs[1],
           get_slice_sizes(g, node.rargs[2], Val(g, node.rargs[3]).val, node.rargs[4], node.rargs[5]))

add_slice_view_node(g, in, dref, start, end, step, res) ==
  LET d == Val(g, dref).val
  IN VK_CHECK_COND(g, d \in 0..(dim(Val(g, in)) - 1) /\ check_slice_view_args(g, in, d, start, end, step, res),
       ResizeOnly(ResizeTo(g, res, get_slice_sizes(g, in, d, start, end)),
                  <<>>, <<>>, "slice_view", <<res, in, dref, start, end, step>>))

slice_tensor(g, in, d, start, end, step, res) ==
  IF is_view_of(Val(g, res), Val(g, in), in) THEN add_slice_view_node(g, in, d, start, end, step, res)
  ELSE add_slice_tensor_copy_node(g, in, d, start, end, step, res)

add_split_with_sizes_default_node(g, in, parts, d, list) ==
  LET outs == Val(g, list).val
      k == DimIndex(Val(g, in), d)
      before(n) == Sum([i \in 1..n |-> size_at(g, 3, outs[i])])
      upto[n \in 0..Len(outs)] ==
        IF n = 0 THEN g
        ELSE IF k = 3
        THEN add_copy_channel_offset_node(upto[n - 1], in, size_at(g, 3, outs[n]), before(n - 1), 0, outs[n])
        ELSE add_copy_offset_node(upto[n - 1], in, outs[n])
  IN VK_CHECK_COND(g, /\ packed_dim_is(g, in, kChannelsPacked)
                      /\ Len(outs) = Len(parts)
                      /\ \A i \in DOMAIN outs : /\ packed_dim_is(g, outs[i], kChannelsPacked)
                                                /\ size_at(g, k, outs[i]) = parts[i]
                      /\ k \in 1..4,
       upto[Len(outs)])

(* The last piece is dropped when the size is not a multiple.              *)
add_split_tensor_node(g, in, n, d, list) ==
  add_split_with_sizes_default_node(g, in,
    [i \in 1..(size_at(g, DimIndex(Val(g, in), d), in) \div n) |-> n], d, list)

(* Each squeezed dimension is rotated to the front.                        *)
add_squeeze_copy_dims_node(g, in, dims, res) ==
  LET picked == SelectSeq(dims, LAMBDA d : d # 0 /\ sizes_of(g, in)[d + 1] = 1)
      upto[n \in 0..Len(picked)] ==
        IF n = 0 THEN contiguous_order(dim(Val(g, in)))
        ELSE <<picked[n]>> \o SelectSeq(upto[n - 1], LAMBDA d : d # picked[n])
  IN IF picked = <<>> THEN add_clone_node(g, in, res)
     ELSE add_permute_node(g, in, upto[Len(picked)], res)

add_unsqueeze_node(g, in, d, res) ==
  VK_CHECK_COND(g, dim(Val(g, in)) < 4,
    add_permute_node(g, in, [i \in 1..dim(Val(g, res)) |-> IF i <= d THEN i ELSE IF i = d + 1 THEN 0 ELSE i - 1], res))

(* ToCopy.cpp, UnaryOp.cpp, Upsample.cpp                                   *)
add_to_copy_node(g, in, res) ==
  VK_CHECK_COND(g, {Val(g, in).type, Val(g, res).type} \subseteq {"Float", "Half"}, Blit(g, in, res, "", <<>>))

add_unary_op_node(g, in, res) == Dispatch(g, "unary", <<res>>, <<in>>, 3, "like_input", <<>>)

(* Scale factors are whole numbers here.                                   *)
resize_upsample_nearest2d_node(g, node) ==
  LET in == InSizes(g, node, 1)
      given == ~val_is(g, node.rargs[1], "none")
      v == Val(g, node.rargs[IF given THEN 1 ELSE 2]).val
      along(i) == IF given THEN v[i] ELSE in[i + 2] * v[i]
  IN VK_CHECK_COND(g, Len(in) = 4, ResizeTo(g, OutRef(node, 1), <<in[1], in[2], along(1), along(2)>>))

add_upsample_nearest2d_node(g, in, out_sizes, scales, res) ==
  VK_CHECK_COND(g, val_is(g, out_sizes, "none") # val_is(g, scales, "none"),
    Dispatch(g, "upsample_nearest2d", <<res>>, <<in>>, 3, "upsample_nearest2d", <<out_sizes, scales>>))

(* Transpose.cpp: the output is a view; only its metadata change.          *)
resize_transpose_view_node(g, node) ==
  LET at(k) == Val(g, node.rargs[k]).val + 1
  IN ResizeTo(g, node.rargs[1], Swap(sizes_of(g, node.rargs[2]), at(3), at(4)))

add_transpose_view_node(g, in, dim0, dim1, res) ==
  LET d0 == Val(g, dim0).val
      d1 == Val(g, dim1).val
      clone == virtual_clone(Val(g, res), Val(g, in))
  IN VK_CHECK_COND(g, /\ is_view_of(Val(g, res), Val(g, in), in)
                      /\ {d0, d1} \subseteq 0..(dim(Val(g, in)) - 1)
                      /\ virtual_transpose_ok(clone, d0, d1),
       ResizeOnly([g EXCEPT !.values[res] = virtual_transpose(clone, d0, d1)],
                  <<>>, <<>>, "transpose_view", <<res, in, dim0, dim1>>))

-----------------------------------------------------------------------------
(* SDPA.cpp.  The caches are constants that the graph writes to; slices of *)
(* them are views whose sizes follow the position of the input.            *)
add_kv_cache_update_node(g, pos, projected, cache) ==
  VK_CHECK_COND(g, val_is(g, pos, "int") \/ val_is(g, pos, "symint"),
    AddNode(g, Node("kv_cache_update", WRITE(<<cache>>) \o READ(<<projected>>),
                    IF is_buffer(Val(g, cache)) THEN 3 ELSE 2,
                    create_global_wg_size(g, projected), TRUE, "", <<>>)))

add_attn_weight_scale_and_mask_node(g, pos, attn) ==
  AddNode(g, Node("scale_and_mask", <<[ref |-> attn, access |-> {"READ", "WRITE"}]>>, 3,
                  Val(g, attn).limits, FALSE, "", <<>>))

get_cache_slice_sizes(g, cache, pos, q) ==
  [sizes_of(g, cache) EXCEPT ![2] = Val(g, pos).val + sizes_of(g, q)[2]]

resize_cache_slice_view_node(g, node) ==
  ResizeTo(g, node.rargs[4], get_cache_slice_sizes(g, node.rargs[1], node.rargs[2], node.rargs[3]))

add_cache_slice_view_node(g, cache, pos, q, sliced, n) ==
  VK_CHECK_COND(g, val_is(g, pos, "symint"),
    ResizeOnly(ResizeTo(g, sliced, [get_cache_slice_sizes(g, cache, pos, q) EXCEPT ![2] = n]),
               <<>>, <<>>, "cache_slice_view", <<cache, pos, q, sliced>>))

resize_sdpa_out(g, node) == ResizeTo(g, node.rargs[2], sizes_of(g, node.rargs[1]))

Scalar(n) == [kind |-> "int", val |-> n]

TmpTensorLike(g, sizes, type) == TmpTensor(g, sizes, type, suggested_storage_type, suggested_memory_layout(sizes))

check_sdpa_args(g, q, k, v, mask, dropout, causal, scale) ==
  /\ \A r \in {q, k, v} : size_at(g, 4, r) = 1 /\ packed_dim_is(g, r, kWidthPacked)
  /\ sizes_of(g, k) = sizes_of(g, v)
  /\ size_at(g, 1, q) = size_at(g, 1, k)
  /\ extract_or(g, dropout, 0) = 0 /\ extract_or(g, causal, TRUE)
  /\ val_is(g, scale, "none") /\ val_is(g, mask, "none")

(* The steps in the order the values they add are numbered; n + i names    *)
(* the values that later steps need.                                       *)
StoreCaches(g, n, pos, q, k, v, kdata, vdata) ==
  add_kv_cache_update_node(
    add_kv_cache_update_node(
      prepack_standard_like(prepack_standard_like(g, kdata, q, FALSE), vdata, q, FALSE), pos, k, n),
    pos, v, n + 1)

SliceCaches(g, n, pos, q, len) ==
  add_cache_slice_view_node(
    add_cache_slice_view_node(add_tensor_view(add_tensor_view(g, n), n + 1), n, pos, q, n + 2, len),
    n + 1, pos, q, n + 3, len)

AddScalars(g, a, b, c, d) == AddValue(AddValue(AddValue(AddValue(g, Scalar(a)), Scalar(b)), Scalar(c)), Scalar(d))

RepeatHeads(g, n, rep, ktype, vtype) ==
  add_repeat_interleave_node(
    add_repeat_interleave_node(TmpTensorLike(TmpTensorLike(g, rep, ktype), rep, vtype), n + 2, n + 7, n + 5, n + 8),
    n + 3, n + 7, n + 5, n + 9)

ViewAll(g, n, q) == add_tensor_view(add_tensor_view(add_tensor_view(g, q), n + 8), n + 9)

TransposeAll(g, n, q) ==
  add_transpose_view_node(
    add_tensor_view(
      add_transpose_view_node(
        add_transpose_view_node(
          add_transpose_view_node(g, q, n + 4, n + 5, n + 10),
          n + 8, n + 4, n + 5, n + 11),
        n + 9, n + 4, n + 5, n + 12),
      n + 11),
    n + 11, n + 5, n + 6, n + 13)

(* A temporary for the whole cache, of the sizes that are used.            *)
FullWeights(g, n, len) == [sizes_of(g, n + 10) EXCEPT ![3] = len, ![4] = len]
UsedWeights(g, n) == [sizes_of(g, n + 10) EXCEPT ![4] = sizes_of(g, n + 11)[3]]
WeightTensor(g, n, q, len, ref) ==
  ResizeTo(TmpTensorLike(g, FullWeights(g, n, len), Val(g, q).type), ref, UsedWeights(g, n))

AttnWeights(g, n, pos, q, len) ==
  add_attn_weight_scale_and_mask_node(
    add_matmul_node(AddValue(WeightTensor(g, n, q, len, n + 14), Bool(FALSE)), n + 10, n + 13, n + 14, n + 15),
    pos, n + 14)

(* s: the temporary of the softmax.                                        *)
Softmaxed(g, n, s, q, len, res) ==
  add_transpose_view_node(
    add_tensor_view(add_softmax_node(WeightTensor(g, n, q, len, s), n + 14, 3, s), res),
    res, n + 4, n + 5, s + 1)

ReturnAll(g, n, s) == ReturnTmp(ReturnTmp(ReturnTmp(ReturnTmp(g, s), n + 14), n + 9), n + 8)

AttnOutput(g, n, s, q, res) ==
  ReturnAll(ResizeOnly(add_matmul_node(g, s, n + 12, s + 1, n + 15), <<>>, <<>>, "sdpa_out", <<q, res>>), n, s)

(* args: q, k, v, the caches, the position, sequence length, mask,         *)
(* dropout, is_causal, scale and the output.                               *)
SdpaStep(g, i, n, args) ==
  LET q == args[1]
      pos == args[6]
      len == sizes_of(g, args[4])[2]
      rep == [sizes_of(g, q) EXCEPT ![2] = len]
  IN CASE i = 1 -> StoreCaches(g, n, pos, q, args[2], args[3], args[4], args[5])
       [] i = 2 -> SliceCaches(g, n, pos, q, len)
       [] i = 3 -> AddScalars(g, 1, 2, 3, sizes_of(g, q)[3] \div sizes_of(g, args[2])[3])
       [] i = 4 -> RepeatHeads(g, n, rep, Val(g, args[4]).type, Val(g, args[5]).type)
       [] i = 5 -> TransposeAll(ViewAll(g, n, q), n, q)
       [] i = 6 -> AttnWeights(g, n, pos, q, len)
       [] i = 7 -> Softmaxed(g, n, NextRef(g), q, len, args[12])
       [] i = 8 -> AttnOutput(g, n, NextRef(g) - 2, q, args[12])

sdpa_with_kv_cache_impl(g, args) ==
  VK_CHECK_COND(g, check_sdpa_args(g, args[1], args[2], args[3], args[8], args[9], args[10], args[11]),
    Fold(g, 8, LAMBDA h, i : SdpaStep(h, i, NextRef(g), args)))

-----------------------------------------------------------------------------
(* OperatorRegistry.cpp: the function registered under a name, applied to  *)
(* its arguments; the result is the last of them.  Operators that differ   *)
(* in the shader only go by one name.                                      *)
RegisteredOps ==
  {"arange", "batch_norm", "binary", "cat", "clone", "copy_offset", "copy_channel_offset", "conv",
   "embedding", "flip", "full", "zeros", "grid_priors", "index_select", "addmm", "linear", "mm",
   "native_layer_norm", "constant_pad_nd", "permute", "prepack", "max_pool2d", "avg_pool2d", "weight_int8pack_mm",
   "linear_weight_int4", "reduce", "repeat", "repeat_interleave", "apply_rotary_emb", "select",
   "slice_copy", "slice", "softmax", "split_with_sizes", "split", "squeeze", "unsqueeze", "to_copy",
   "transpose", "unary", "upsample_nearest2d", "view", "sdpa_with_kv_cache"}

has_op(op) == op \in RegisteredOps

get_op_fn(g, op, args) ==
  LET res == args[Len(args)]
      val(i) == Val(g, args[i]).val
      in == args[1]
  IN CASE op = "arange" -> add_arange_node(g, args[1], args[2], args[3], res)
       [] op = "batch_norm" -> add_native_batch_norm_node(g, in, args[2], args[3], args[4], args[5], res)
       [] op = "binary" -> add_binary_op_node(g, in, args[2], res)
       [] op = "cat" -> add_cat_default_node(g, in, val(2), res)
       [] op = "clone" -> add_clone_node(g, in, res)
       [] op = "copy_offset" -> add_copy_offset_node(g, in, res)
       [] op = "copy_channel_offset" -> add_copy_channel_offset_node(g, in, val(2), val(3), val(4), res)
       [] op = "conv" -> conv(g, args)
       [] op = "embedding" -> embedding(g, args[1], args[2], res)
       [] op = "flip" -> add_flip_node(g, in, val(2), res)
       [] op = "full" -> add_full_node(g, in, res)
       [] op = "zeros" -> add_full_node(AddValue(g, Scalar(0)), in, res)
       [] op = "grid_priors" -> add_grid_priors_node(g, in, res)
       [] op = "index_select" -> index_select(g, in, val(2), args[3], res)
       [] op = "addmm" -> addmm(g, args[1], args[2], args[3], res)
       [] op = "linear" -> linear(g, in, args[2], args[3], res)
       [] op = "mm" -> matmul(g, args[1], args[2], res)
       [] op = "native_layer_norm" -> add_native_layer_norm_node(g, in, args[2], args[3], args[4], res)
       [] op = "constant_pad_nd" -> add_constant_pad_nd_node(g, in, args[2], res)
       [] op = "permute" -> add_permute_node(g, in, val(2), res)
       [] op = "prepack" -> add_prepack_standard_node(g, in, res)
       [] op = "max_pool2d" -> add_max_pool2d_node(g, in, SubSeq(args, 2, 5), args[6], res)
       [] op = "avg_pool2d" -> add_avg_pool2d_node(g, in, SubSeq(args, 2, 4), args[5], res)
       [] op = "weight_int8pack_mm" -> add_q_8w_linear_node(g, in, args[2], args[3], res)
       [] op = "linear_weight_int4" -> add_q_4w_linear_node(g, in, args[2], args[3], args[4], res)
       [] op = "reduce" -> add_reduce_node(g, in, val(2), res)
       [] op = "repeat" -> add_repeat_node(g, in, val(2), res)
       [] op = "repeat_interleave" -> add_repeat_interleave_node(g, in, args[2], args[3], res)
       [] op = "apply_rotary_emb" ->
            add_rotary_embedding_node(g, args[1], args[2], args[3], args[4], SubSeq(Val(g, res).val, 1, 2))
       [] op = "select" -> add_select_int_node(g, in, val(2), val(3), res)
       [] op = "slice_copy" -> add_slice_tensor_copy_node(g, in, args[2], args[3], args[4], args[5], res)
       [] op = "slice" -> slice_tensor(g, in, args[2], args[3], args[4], args[5], res)
       [] op = "softmax" -> add_softmax_node(g, in, val(2), res)
       [] op = "split_with_sizes" -> add_split_with_sizes_default_node(g, in, val(2), val(3), res)
       [] op = "split" -> add_split_tensor_node(g, in, val(2), val(3), res)
       [] op = "squeeze" -> add_squeeze_copy_dims_node(g, in, val(2), res)
       [] op = "unsqueeze" -> add_unsqueeze_node(g, in, val(2), res)
       [] op = "to_copy" -> add_to_copy_node(g, in, res)
       [] op = "transpose" -> add_transpose_view_node(g, in, args[2], args[3], res)
       [] op = "unary" -> add_unary_op_node(g, in, res)
       [] op = "upsample_nearest2d" -> add_upsample_nearest2d_node(g, in, args[2], args[3], res)
       [] op = "view" -> add_view_node(g, in, args[2], res)
       [] op = "sdpa_with_kv_cache" -> sdpa_with_kv_cache_impl(g, args)

(* ExecuteNode::trigger_resize                                             *)
trigger_resize(g, node) ==
  LET f == node.resize
  IN CASE f = "" -> g
       [] f = "arange" -> resize_arange_node(g, node)
       [] f = "binary_op" -> resize_binary_op_node(g, node)
       [] f = "conv2d" -> resize_conv2d_node(g, node)
       [] f = "conv1d" -> resize_conv1d_node(g, node)
       [] f = "like_input" -> resize_like_input(g, node)
       [] f = "full" -> resize_full_node(g, node)
       [] f = "grid_priors" -> resize_grid_priors_node(g, node)
       [] f = "view" -> resize_view_node(g, node)
       [] f = "addmm" -> resize_addmm_node(g, node)
       [] f = "matmul" -> resize_matmul_node(g, node)
       [] f = "native_layer_norm" -> resize_native_layer_norm_node(g, node)
       [] f = "constant_pad" -> resize_constant_pad_node(g, node)
       [] f = "pool2d" -> resize_pool2d_node(g, node)
       [] f = "q_linear" -> resize_q_linear_node(g, node)
       [] f = "reduce" -> resize_reduce_node(g, node)
       [] f = "repeat_interleave" -> resize_repeat_interleave_node(g, node)
       [] f = "slice_view" -> resize_slice_view_node(g, node)
       [] f = "transpose_view" -> resize_transpose_view_node(g, node)
       [] f = "upsample_nearest2d" -> resize_upsample_nearest2d_node(g, node)
       [] f = "cache_slice_view" -> resize_cache_slice_view_node(g, node)
       [] f = "sdpa_out" -> resize_sdpa_out(g, node)
=============================================================================
