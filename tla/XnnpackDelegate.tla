--------------------------- MODULE XnnpackDelegate ----------------------------
(***************************************************************************)
(* The XNNPACK delegate: how it turns a serialized graph into a subgraph   *)
(* of the library, and how it runs the subgraph, from                      *)
(* backends/xnnpack/runtime.                                               *)
(***************************************************************************)
EXTENDS Integers, FiniteSets, SequencesExt, TLC

(* How the XNNPACK delegate turns a serialized graph into a subgraph of    *)
(* the library, from backends/xnnpack/runtime/XNNCompiler.cpp and          *)
(* XNNHeader.cpp.                                                          *)
(*                                                                         *)
(* Values of a serialized graph carry the number id_out the serializer     *)
(* gave them; the library numbers what it is told to define in its own     *)
(* way, and remapped_ids takes one to the other.  An operator of the       *)
(* library bears the name of the node that is defined with it.  Node       *)
(* operands are in the order of the fields of the schema; sizes, strides,  *)
(* paddings, axes and slopes of a node are its attrs.                      *)

XNN_INVALID_VALUE_ID == 9999
Infinity == 9999

-----------------------------------------------------------------------------
(* XNNHeader::Parse, by what a buffer holds where the header would be      *)
kMinSize == 30

ParseHeader(buffer) ==
  CASE buffer.size < kMinSize -> "InvalidArgument"
    [] buffer.size >= kMinSize /\ buffer.magic # "XH00" -> "NotFound"
    [] OTHER -> "Ok"

-----------------------------------------------------------------------------
(* The library's subgraph.  b is what compileModel has built so far: the   *)
(* values and nodes of the subgraph, remapped_ids as a function, the       *)
(* external ids pushed, and err.  The library refuses the call numbered    *)
(* b.refused (0: none); external values keep their number, the others get  *)
(* the numbers after the external ones.                                    *)
NewBuild(graph, refused) ==
  [graph |-> graph, values |-> <<>>, nodes |-> <<>>, inputs |-> <<>>, outputs |-> <<>>,
   remapped |-> [v \in {XNN_INVALID_VALUE_ID} |-> XNN_INVALID_VALUE_ID],
   calls |-> 0, refused |-> refused, err |-> "Ok", last |-> XNN_INVALID_VALUE_ID]

Fail(b, err) == [b EXCEPT !.err = err]

NextId(b) ==
  b.graph.num_externs + Cardinality({i \in DOMAIN b.values : b.values[i].id >= b.graph.num_externs})

DefineValue(b, external_id, flags, dtype, data, zero_point) ==
  LET id == IF external_id = XNN_INVALID_VALUE_ID THEN NextId(b) ELSE external_id
      value == [id |-> id, flags |-> flags, dtype |-> dtype, data |-> data, zero_point |-> zero_point]
  IN IF b.calls + 1 = b.refused THEN [b EXCEPT !.calls = @ + 1, !.last = XNN_INVALID_VALUE_ID]
     ELSE [b EXCEPT !.calls = @ + 1, !.values = Append(@, value), !.last = id]

Accepted(b) == b.calls # b.refused

DefineOperator(b, op, ins, outs, attrs, range, flags) ==
  LET node == [op |-> op, ins |-> ins, outs |-> outs, attrs |-> attrs, range |-> range, flags |-> flags]
  IN [b EXCEPT !.calls = @ + 1, !.nodes = IF b.calls + 1 = b.refused THEN @ ELSE Append(@, node)]

-----------------------------------------------------------------------------
getDataType(t) ==
  IF t \in {"fp32", "fp16", "qint8", "quint8", "qint32", "qcint8", "qcint32", "qcint4", "qdint8", "qbint4"}
  THEN t ELSE "invalid"

isQuantizedDataType(t) ==
  t \in {"qint8", "quint8", "qint32", "qcint8", "qcint32", "qcint4", "qdint8"}

(* Buffer 0 stands for a value without data.  Without a header constants   *)
(* are in the graph; with one, at an offset of the data after the graph.   *)
getConstantDataPtr(v, graph, header) ==
  CASE v.buffer = 0 -> <<>>
    [] v.buffer # 0 /\ header = "NotFound" -> <<graph.constant_buffer[v.buffer]>>
    [] v.buffer # 0 /\ header = "Ok" -> <<graph.data[graph.constant_data[v.buffer]]>>

(* An external input that is quantized as it comes in: the subgraph gets   *)
(* the external float value, an internal quantized one and a conversion,   *)
(* and nodes read the quantized one.  Only the status of the last of the   *)
(* three calls is looked at; the conversion of a value that was refused is *)
(* refused as well.                                                        *)
defineDynamicallyQuantized(b, v, data) ==
  LET quantized == DefineValue(b, XNN_INVALID_VALUE_ID, {}, "qdint8", <<>>, 0)
      float == DefineValue(quantized, v.external_id, v.flags, getDataType(v.dtype), data, 0)
      invalid == XNN_INVALID_VALUE_ID \in {quantized.last, float.last}
      convert == DefineOperator(float, "Convert", <<float.last>>, <<quantized.last>>, <<>>,
                                <<-Infinity, Infinity>>, {})
  IN IF invalid THEN [Fail(float, "Internal") EXCEPT !.calls = @ + 1]
     ELSE [convert EXCEPT !.last = quantized.last]

DefinePlain(b, v, data) ==
  CASE getDataType(v.dq_datatype) = "invalid" ->
         DefineValue(b, v.external_id, v.flags, getDataType(v.dtype), data, 0)
    [] getDataType(v.dq_datatype) = "qint8" ->
         IF v.external_id = XNN_INVALID_VALUE_ID \/ data # <<>> THEN Fail(b, "Internal")
         ELSE defineDynamicallyQuantized(b, v, data)

DefineQuantized(b, v, data) ==
  LET dtype == getDataType(v.dtype)
      Define(zero_point) == DefineValue(b, v.external_id, v.flags, dtype, data, zero_point)
  IN CASE v.quant = "PerTensorQuant" -> Define(v.zero_point)
       [] v.quant = "PerChannelQuant" -> Define(IF dtype = "qcint4" THEN 8 ELSE 0)
       [] v.quant = "PerChannelGroupQuant" ->
            IF dtype # "qbint4" \/ v.scales # (v.dims[1] * v.dims[2]) \div v.group_size
            THEN Fail(b, "Internal") ELSE Define(8)
       [] v.quant = "PerTokenDynamicQuant" ->
            IF data # <<>> \/ v.num_nonbatch_dims # 1 THEN Fail(b, "Internal") ELSE Define(0)
       [] OTHER -> Fail(b, "NotImplemented")

(* defineTensor up to the call that defines the value                      *)
DefineByKind(b, v, data) ==
  LET dq == getDataType(v.dq_datatype)
  IN CASE v.quant = "Unknown" -> Fail(b, "NotImplemented")
       [] v.quant # "Unknown" /\ dq # "invalid" /\ (dq # "qint8" \/ "input" \notin v.flags) ->
            Fail(b, "Internal")
       [] OTHER -> IF v.quant = "None" THEN DefinePlain(b, v, data) ELSE DefineQuantized(b, v, data)

(* What follows the call: emplace keeps an earlier entry for the number.   *)
Remapped(d, v) ==
  CASE d.err # "Ok" -> d
    [] d.err = "Ok" /\ ~Accepted(d) -> Fail(d, "Internal")
    [] OTHER -> [d EXCEPT !.remapped = d.remapped @@ (v.id_out :> d.last),
                          !.inputs = IF "input" \in v.flags THEN Append(@, v.external_id) ELSE @,
                          !.outputs = IF "output" \in v.flags THEN Append(@, v.external_id) ELSE @]

defineTensor(b, v, header) == Remapped(DefineByKind(b, v, getConstantDataPtr(v, b.graph, header)), v)

-----------------------------------------------------------------------------
(* The node functions.  A number that no value had makes remapped_ids.at   *)
(* throw out of a noexcept function, which ends the process.               *)
getOutputMinMax(n) == IF n.min_max = <<>> THEN <<-Infinity, Infinity>> ELSE n.min_max

DefineNode(b, n, op, ins, attrs, range, flags) ==
  LET Renamed(ids) == [i \in DOMAIN ids |-> b.remapped[ids[i]]]
      defined == DefineOperator(b, op, Renamed(ins), Renamed(n.outs), attrs, range, flags)
  IN CASE ~(ToSet(ins) \cup ToSet(n.outs) \subseteq DOMAIN b.remapped) -> Fail(b, "terminated")
       [] ToSet(ins) \cup ToSet(n.outs) \subseteq DOMAIN b.remapped ->
            IF Accepted(defined) THEN defined ELSE Fail(defined, "Internal")

NoRange == <<-Infinity, Infinity>>
Unary(b, n, op) == DefineNode(b, n, op, <<n.ins[1]>>, n.attrs, NoRange, n.flags)
Binary(b, n, op) == DefineNode(b, n, op, <<n.ins[1], n.ins[2]>>, n.attrs, NoRange, n.flags)
UnaryInRange(b, n, op) == DefineNode(b, n, op, <<n.ins[1]>>, n.attrs, getOutputMinMax(n), n.flags)
BinaryInRange(b, n, op) ==
  DefineNode(b, n, op, <<n.ins[1], n.ins[2]>>, n.attrs, getOutputMinMax(n), n.flags)
Weighted(b, n, op, attrs) ==
  DefineNode(b, n, op, <<n.ins[1], n.ins[2], n.ins[3]>>, attrs, getOutputMinMax(n), n.flags)

defineAddNode(b, n) == BinaryInRange(b, n, "Add")
defineMinimumNode(b, n) == Binary(b, n, "Minimum")
defineSubtractNode(b, n) == BinaryInRange(b, n, "Subtract")
defineMultiplyNode(b, n) == BinaryInRange(b, n, "Multiply")

(* Built with ENABLE_XNNPACK_KLEIDI, the conversion of the input of a      *)
(* matrix product with 4-bit blockwise weights is told it may pack.        *)
isQP8(graph, n) ==
  LET has_dtype(id, t) ==
        \E i \in DOMAIN graph.xvalues :
          /\ graph.xvalues[i].quant # "None"
          /\ graph.xvalues[i].id_out = id
          /\ graph.xvalues[i].dtype = t
  IN /\ has_dtype(n.outs[1], "qdint8")
     /\ \E i \in DOMAIN graph.xnodes :
          /\ graph.xnodes[i].kind = "FullyConnected"
          /\ graph.xnodes[i].ins[1] = n.outs[1]
          /\ has_dtype(graph.xnodes[i].ins[2], "qbint4")

defineConvertNode(b, n) ==
  Unary(b, [n EXCEPT !.flags = IF isQP8(b.graph, n) THEN @ \cup {"maybe_pack"} ELSE @], "Convert")

defineFullyConnectedNode(b, n) == Weighted(b, n, "FullyConnected", n.attrs)
defineClampNode(b, n) == UnaryInRange(b, n, "Clamp")
defineSoftmaxNode(b, n) == Unary(b, n, "Softmax")
defineSigmoidNode(b, n) == Unary(b, n, "Sigmoid")
defineFloorNode(b, n) == Unary(b, n, "Floor")
defineGlobalAvgPooling2dNode(b, n) == UnaryInRange(b, n, "GlobalAvgPooling2d")
defineAvgPooling2dNode(b, n) == UnaryInRange(b, n, "AvgPooling2d")
defineConv2dNode(b, n) == Weighted(b, n, "Conv2d", n.attrs)
defineMaxPooling2dNode(b, n) == UnaryInRange(b, n, "MaxPooling2d")
defineDivNode(b, n) == BinaryInRange(b, n, "Div")
defineStaticTransposeNode(b, n) == Unary(b, n, "StaticTranspose")
defineStaticResizeBilinear2DNode(b, n) == Unary(b, n, "StaticResizeBilinear2D")
defineStaticConstantPadNode(b, n) == Unary(b, n, "StaticConstantPad")

(* attrs end with groups, group_input_channels, group_output_channels; the *)
(* library wants the depth multiplier and the number of input channels.    *)
defineDepthwiseConv2dNode(b, n) ==
  LET rest == SubSeq(n.attrs, 1, Len(n.attrs) - 3)
      groups == n.attrs[Len(n.attrs) - 2]
  IN Weighted(b, n, "DepthwiseConv2d",
              rest \o <<n.attrs[Len(n.attrs)] \div n.attrs[Len(n.attrs) - 1], groups>>)

defineStaticReshapeNode(b, n) == Unary(b, n, "StaticReshape")
defineArgMaxPooling2dNode(b, n) == Unary(b, n, "ArgMaxPooling2d")
defineSquareRootNode(b, n) == Unary(b, n, "SquareRoot")
defineCeilingNode(b, n) == Unary(b, n, "Ceiling")
defineHardswishNode(b, n) == Unary(b, n, "Hardswish")
defineLeakyReLUNode(b, n) == Unary(b, n, "LeakyReLU")
defineMaximumNode(b, n) == Binary(b, n, "Maximum")
defineNegateNode(b, n) == Unary(b, n, "Negate")
defineSquareNode(b, n) == Unary(b, n, "Square")
defineELUNode(b, n) == Unary(b, n, "ELU")
defineAbsNode(b, n) == Unary(b, n, "Abs")
definePReLUNode(b, n) == Binary(b, n, "PReLU")
defineConcatenate2Node(b, n) == Binary(b, n, "Concatenate2")
defineConcatenate3Node(b, n) ==
  DefineNode(b, n, "Concatenate3", <<n.ins[1], n.ins[2], n.ins[3]>>, n.attrs, NoRange, n.flags)
defineConcatenate4Node(b, n) ==
  DefineNode(b, n, "Concatenate4", <<n.ins[1], n.ins[2], n.ins[3], n.ins[4]>>, n.attrs, NoRange, n.flags)
defineStaticSliceNode(b, n) == Unary(b, n, "StaticSlice")
defineScaledDotProductAttentionNode(b, n) ==
  DefineNode(b, n, "ScaledDotProductAttention", <<n.ins[1], n.ins[2], n.ins[3], n.ins[4], n.ins[5]>>,
             n.attrs, NoRange, n.flags)
defineBatchMatrixMultiplyNode(b, n) == Binary(b, n, "BatchMatrixMultiply")
defineNotImplementedNode(b, n) == Fail(b, "NotImplemented")

getDefineNodeFunc(b, n) ==
  CASE n.kind = "Add" -> defineAddNode(b, n)
    [] n.kind = "FullyConnected" -> defineFullyConnectedNode(b, n)
    [] n.kind = "Softmax" -> defineSoftmaxNode(b, n)
    [] n.kind = "Sigmoid" -> defineSigmoidNode(b, n)
    [] n.kind = "StaticTranspose" -> defineStaticTransposeNode(b, n)
    [] n.kind = "Clamp" -> defineClampNode(b, n)
    [] n.kind = "Conv2d" -> defineConv2dNode(b, n)
    [] n.kind = "Div" -> defineDivNode(b, n)
    [] n.kind = "StaticResizeBilinear2D" -> defineStaticResizeBilinear2DNode(b, n)
    [] n.kind = "StaticConstantPad" -> defineStaticConstantPadNode(b, n)
    [] n.kind = "AvgPooling2d" -> defineAvgPooling2dNode(b, n)
    [] n.kind = "Minimum" -> defineMinimumNode(b, n)
    [] n.kind = "DepthwiseConv2d" -> defineDepthwiseConv2dNode(b, n)
    [] n.kind = "MaxPooling2d" -> defineMaxPooling2dNode(b, n)
    [] n.kind = "Multiply" -> defineMultiplyNode(b, n)
    [] n.kind = "Subtract" -> defineSubtractNode(b, n)
    [] n.kind = "Floor" -> defineFloorNode(b, n)
    [] n.kind = "Convert" -> defineConvertNode(b, n)
    [] n.kind = "GlobalAvgPooling2d" -> defineGlobalAvgPooling2dNode(b, n)
    [] n.kind = "StaticReshape" -> defineStaticReshapeNode(b, n)
    [] n.kind = "ArgMaxPooling2d" -> defineArgMaxPooling2dNode(b, n)
    [] n.kind = "SquareRoot" -> defineSquareRootNode(b, n)
    [] n.kind = "Ceiling" -> defineCeilingNode(b, n)
    [] n.kind = "Hardswish" -> defineHardswishNode(b, n)
    [] n.kind = "LeakyReLU" -> defineLeakyReLUNode(b, n)
    [] n.kind = "Maximum" -> defineMaximumNode(b, n)
    [] n.kind = "Negate" -> defineNegateNode(b, n)
    [] n.kind = "Square" -> defineSquareNode(b, n)
    [] n.kind = "ELU" -> defineELUNode(b, n)
    [] n.kind = "Abs" -> defineAbsNode(b, n)
    [] n.kind = "PReLU" -> definePReLUNode(b, n)
    [] n.kind = "Concatenate2" -> defineConcatenate2Node(b, n)
    [] n.kind = "Concatenate3" -> defineConcatenate3Node(b, n)
    [] n.kind = "Concatenate4" -> defineConcatenate4Node(b, n)
    [] n.kind = "StaticSlice" -> defineStaticSliceNode(b, n)
    [] n.kind = "ScaledDotProductAttention" -> defineScaledDotProductAttentionNode(b, n)
    [] n.kind = "BatchMatrixMultiply" -> defineBatchMatrixMultiplyNode(b, n)
    [] OTHER -> defineNotImplementedNode(b, n)

-----------------------------------------------------------------------------
(* compileModel up to the creation of the runtime.  xnn_initialize and     *)
(* xnn_create_subgraph are the calls before the first value.               *)
Until(b, steps, Step(_, _)) ==
  FoldLeft(LAMBDA c, s : IF c.err = "Ok" THEN Step(c, s) ELSE c, b, steps)

\* xnn_create_runtime_v4, the last call of the library.
CreateRuntime(b, refused) ==
  IF b.err = "Ok" /\ b.calls + 1 = refused THEN Fail(b, "Internal") ELSE b

xnn_compileModel(buffer, refused) ==
  LET header == ParseHeader(buffer)
      new == [NewBuild(buffer.graph, refused) EXCEPT !.calls = 2]
      tensors == Until(new, buffer.graph.xvalues, LAMBDA b, v : defineTensor(b, v, header))
      nodes == Until(tensors, buffer.graph.xnodes, getDefineNodeFunc)
  IN CASE header = "InvalidArgument" -> Fail(NewBuild(buffer.graph, refused), "InvalidArgument")
       [] header # "InvalidArgument" /\ buffer.identifier \notin {"XN00", "XN01"} ->
            Fail(NewBuild(buffer.graph, refused), "DelegateInvalidCompatibility")
       [] header # "InvalidArgument" /\ buffer.identifier \in {"XN00", "XN01"} /\ refused \in {1, 2} ->
            Fail(new, "Internal")
       [] OTHER -> CreateRuntime(nodes, refused)

-----------------------------------------------------------------------------
(* The XNNPACK delegate at run time, from backends/xnnpack/runtime/        *)
(* XNNPACKBackend.cpp, XNNExecutor.cpp and profiling/XNNProfiler.cpp.      *)
(*                                                                         *)
(* Every client runs a method of its own, on a thread of its own, that has *)
(* one delegate.  All runtimes keep their intermediate values in one       *)
(* workspace (ENABLE_XNNPACK_SHARED_WORKSPACE), and execute and destroy    *)
(* hold workspace_mutex_.  The library runs the operators of a runtime one *)
(* after the other; a client may be overtaken between any two of them.     *)
(*                                                                         *)
(* What an operator computes is a term: the operator and what it read.     *)
(* The shape of a tensor is a number of elements.                          *)

CONSTANTS
  Clients,
  Buffers,   \* processed buffers: size, magic, identifier, graph
  CallsPerClient,  \* bound on the calls of execute by a client
  Lengths,   \* the lengths an input may have
  Faults     \* what may be wrong with a call: a library call that fails, or
             \* an argument execute refuses; "none" included

VARIABLES
  mutex,      \* the client that holds workspace_mutex_, <<>> when free
  workspace,  \* content of the places of the shared workspace
  executor,   \* of every client, <<>> when it has none
  xmemory,     \* what the buffers behind the arguments of a client hold
  xcall        \* the last call of every client

XnnVars == <<mutex, workspace, executor, xmemory, xcall>>

XTerm(op, attrs, of) == [op |-> op, attrs |-> attrs, of |-> of]
Nothing == XTerm("nothing", <<>>, <<>>)

-----------------------------------------------------------------------------
(* XNNProfiler.  event_tracer_ and start_time_ are those of the last start *)
(* that was accepted; untimed says that end failed before.                 *)
NewProfiler == [state |-> "Uninitialized", op_names |-> <<>>, tracer |-> 0, start_time |-> 0,
                run_count |-> 0, trace |-> <<>>, untimed |-> FALSE]

profiler_initialize(p, nodes, failing) ==
  IF failing THEN p
  ELSE [p EXCEPT !.state = "Ready", !.op_names = [i \in DOMAIN nodes |-> nodes[i].op]]

profiler_start(p, event_tracer, now) ==
  IF p.state = "Ready"
  THEN [p EXCEPT !.state = "Running", !.tracer = event_tracer, !.start_time = now]
  ELSE p

(* submit_trace: one event per operator, named by the operator and how     *)
(* often it has occurred, each from where the one before it ended          *)
submit_trace(p, timings) ==
  [i \in DOMAIN p.op_names |->
     [tracer |-> p.tracer,
      name |-> p.op_names[i],
      occurrence |-> Cardinality({j \in 1..i : p.op_names[j] = p.op_names[i]}),
      start |-> p.start_time + FoldLeft(+, 0, SubSeq(timings, 1, i - 1)),
      end |-> p.start_time + FoldLeft(+, 0, SubSeq(timings, 1, i))]]

profiler_end(p, timings, failing) ==
  IF p.state # "Running" THEN p
  ELSE IF failing THEN [p EXCEPT !.untimed = TRUE]
  ELSE [p EXCEPT !.trace = IF p.tracer # 0 THEN submit_trace(p, timings) ELSE @,
                 !.run_count = @ + 1, !.state = "Ready"]

-----------------------------------------------------------------------------
(* The runtime the library makes of a subgraph: external values live where *)
(* setup was told, constants in the subgraph, the others at a place of the *)
(* workspace.                                                              *)
ValueOf(sub, id) == CHOOSE v \in ToSet(sub.values) : v.id = id
Place(sub, id) == id - sub.graph.num_externs + 1

DataOf(v) == XTerm("constant", <<v.data[1], v.zero_point>>, <<>>)

(* Reshaping: what an operator makes of the lengths of its operands.       *)
Length(op, of) ==
  IF op \in {"Concatenate2", "Concatenate3", "Concatenate4"} THEN FoldLeft(+, 0, of)
  ELSE FoldLeft(LAMBDA a, b : IF a > b THEN a ELSE b, 0, of)

Reshaped(sub, lengths) ==
  FoldLeft(LAMBDA l, n : [v \in ToSet(n.outs) |-> Length(n.op, [i \in DOMAIN n.ins |-> l[n.ins[i]]])] @@ l,
           [v \in {w.id : w \in ToSet(sub.values)} |->
              IF v \in DOMAIN lengths THEN lengths[v] ELSE 1] @@ (XNN_INVALID_VALUE_ID :> 0),
           sub.nodes)

(* XNNExecutor::initialize                                                 *)
Sorted(ids) == SetToSortSeq(ToSet(ids), <)

NewExecutor(sub, failing) ==
  [sub |-> sub, input_ids |-> Sorted(sub.inputs), output_ids |-> Sorted(sub.outputs),
   externals |-> [i \in 1..(Len(sub.inputs) + Len(sub.outputs)) |-> [id |-> 0, data |-> 0]],
   lengths |-> [v \in {} |-> 0],
   profiler |-> profiler_initialize(NewProfiler, sub.nodes, failing)]

(* XNNExecutor::prepare_args goes through the externals in order and stops *)
(* at the first that is refused; args[i].data is the set of buffers the    *)
(* caller has put behind its arguments.                                    *)
NewExternals(x, args) ==
  LET n == Len(x.input_ids)
  IN [i \in DOMAIN x.externals |->
        LET id == IF i <= n THEN x.input_ids[i] ELSE x.output_ids[i - n]
        IN [id |-> id, data |-> args[id].data]]

IsInput(x, i) == i <= Len(x.input_ids)

Refusal(x, args, i) ==
  LET arg == args[NewExternals(x, args)[i].id]
  IN CASE arg.tag # "Tensor" -> "InvalidArgument"
       [] arg.tag = "Tensor" /\ IsInput(x, i) /\ arg.order # "contiguous" -> "Internal"
       [] arg.tag = "Tensor" /\ IsInput(x, i) /\ arg.order = "contiguous" /\ arg.dim > 6 -> "InvalidArgument"
       [] OTHER -> "Ok"

prepare_args(x, args, fault) ==
  LET ids == NewExternals(x, args)
      refused == {i \in DOMAIN ids : Refusal(x, args, i) # "Ok"}
      first == IF refused = {} THEN Len(ids) + 1 ELSE CHOOSE i \in refused : \A j \in refused : i <= j
      bound == [i \in DOMAIN ids |->
                  IF i < first \/ (i = first /\ args[ids[i].id].tag = "Tensor") THEN ids[i]
                  ELSE IF i = first THEN [x.externals[i] EXCEPT !.id = ids[i].id]
                  ELSE x.externals[i]]
      given == [v \in ToSet(x.input_ids) |-> args[v].length]
  IN CASE refused # {} -> [x |-> [x EXCEPT !.externals = bound], err |-> Refusal(x, args, first)]
       [] refused = {} /\ fault = "reshape" -> [x |-> [x EXCEPT !.externals = bound], err |-> "Internal"]
       [] OTHER -> [x |-> [x EXCEPT !.externals = bound, !.lengths = Reshaped(x.sub, given)], err |-> "Ok"]

DataFor(x, id) ==
  LET i == CHOOSE i \in DOMAIN x.externals : x.externals[i].id = id
  IN x.externals[i].data

(* XNNExecutor::resize_outputs.  A length above the capacity is refused.   *)
(* The loop that widens the elements of an int64 output counts an unsigned *)
(* index down while it is at least zero: after element 0 it goes on, and   *)
(* writes in front of the data.                                            *)
resize_outputs(x, args, fault) ==
  LET Resize(r, id) ==
        IF r.err # "Ok" THEN r
        ELSE IF fault = "shape" THEN [r EXCEPT !.err = "Internal"]
        ELSE IF x.lengths[id] > r.args[id].capacity THEN [r EXCEPT !.err = "NotSupported"]
        ELSE [args |-> [r.args EXCEPT ![id].length = x.lengths[id]],
              err |-> IF r.args[id].type = "Long" THEN "overrun" ELSE "Ok"]
  IN FoldLeft(Resize, [args |-> args, err |-> "Ok"], x.output_ids)

-----------------------------------------------------------------------------
NoCall == [pc |-> "idle", number |-> 0, args |-> [i \in {} |-> 0], fault |-> "none", next |-> 0, err |-> "Ok"]

XnnInit ==
  /\ mutex = <<>>
  /\ workspace = [p \in {} |-> Nothing]
  /\ executor = [c \in Clients |-> <<>>]
  /\ xmemory = [c \in Clients |-> [d \in 1..2 |-> [i \in {} |-> Nothing]]]
  /\ xcall = [c \in Clients |-> NoCall]

(* The calls of the library a compilation makes if none is refused         *)
LibraryCalls(buffer) == xnn_compileModel(buffer, 0).calls + 1

(* XnnpackBackend::init.  It does not take the mutex.                      *)
init(c) ==
  /\ executor[c] = <<>>
  /\ xcall[c].pc = "idle"
  /\ xcall[c].number = 0
  /\ \E buffer \in Buffers, failing \in BOOLEAN :
     \E refused \in 0..LibraryCalls(buffer) :
       \E built \in {xnn_compileModel(buffer, refused)} :
          /\ executor' = [executor EXCEPT ![c] =
                            IF built.err = "Ok" THEN <<NewExecutor(built, failing)>> ELSE <<>>]
          /\ xcall' = [xcall EXCEPT ![c] =
                        IF built.err = "terminated" THEN [NoCall EXCEPT !.pc = "aborted"]
                        ELSE [NoCall EXCEPT !.err = built.err]]
  /\ UNCHANGED <<mutex, workspace, xmemory>>

(* The arguments of a call: the caller alternates between two sets of      *)
(* buffers.                                                                *)
Args(x, number, length, fault) ==
  [id \in ToSet(x.input_ids) \cup ToSet(x.output_ids) |->
     LET first == id = Head(x.input_ids)
     IN [tag |-> IF first /\ fault = "int" THEN "Int" ELSE "Tensor",
         order |-> IF first /\ fault = "channels_last" THEN "channels_last" ELSE "contiguous",
         dim |-> IF first /\ fault = "dims" THEN 7 ELSE 2,
         type |-> x.sub.graph.types[id + 1],
         length |-> IF id \in ToSet(x.input_ids) THEN length ELSE 1,
         capacity |-> 100,
         data |-> 1 + (number % 2)]]

Input(c, number, id) == XTerm("input", <<c, number, id>>, <<>>)

(* XnnpackBackend::execute, up to the lock                                 *)
StartCall(c) ==
  \E length \in Lengths, fault \in Faults :
    LET x == executor[c][1]
        number == xcall[c].number + 1
    IN /\ xcall' = [xcall EXCEPT ![c] =
                     [pc |-> "prepare", number |-> number, args |-> Args(x, number, length, fault),
                      fault |-> fault, next |-> 1, err |-> "Ok"]]
       /\ xmemory' = [xmemory EXCEPT ![c][1 + (number % 2)] =
                       [id \in ToSet(x.input_ids) |-> Input(c, number, id)]]

xnn_execute(c) ==
  /\ executor[c] # <<>>
  /\ xcall[c].pc = "idle"
  /\ xcall[c].number < CallsPerClient
  /\ mutex = <<>>
  /\ StartCall(c)
  /\ mutex' = <<c>>
  /\ UNCHANGED <<workspace, executor>>

Return(c, err) ==
  /\ xcall' = [xcall EXCEPT ![c].pc = "idle", ![c].err = err]
  /\ mutex' = <<>>

xnn_prepare(c) ==
  /\ xcall[c].pc = "prepare"
  /\ \E prepared \in {prepare_args(executor[c][1], xcall[c].args, xcall[c].fault)} :
        /\ executor' = [executor EXCEPT ![c] = <<prepared.x>>]
        /\ IF prepared.err = "Ok" THEN xcall' = [xcall EXCEPT ![c].pc = "setup"] /\ mutex' = mutex
           ELSE Return(c, prepared.err)
  /\ UNCHANGED <<workspace, xmemory>>

(* forward: xnn_setup_runtime_v2 and the profiler                          *)
setup(c) ==
  /\ xcall[c].pc = "setup"
  /\ IF xcall[c].fault = "setup" THEN Return(c, "Internal") /\ UNCHANGED executor
     ELSE /\ xcall' = [xcall EXCEPT ![c].pc = "invoke"]
          /\ executor' = [executor EXCEPT ![c][1].profiler =
                            profiler_start(@, xcall[c].number, 10 * xcall[c].number)]
          /\ UNCHANGED mutex
  /\ UNCHANGED <<workspace, xmemory>>

(* xnn_invoke_runtime runs the next operator.                              *)
Reads(c, id) ==
  LET x == executor[c][1]
      v == ValueOf(x.sub, id)
      buffer == xmemory[c][DataFor(x, id)]
  IN CASE id = XNN_INVALID_VALUE_ID -> Nothing
       [] id # XNN_INVALID_VALUE_ID /\ v.data # <<>> -> DataOf(v)
       [] id < x.sub.graph.num_externs -> IF id \in DOMAIN buffer THEN buffer[id] ELSE Nothing
       [] OTHER -> IF Place(x.sub, id) \in DOMAIN workspace THEN workspace[Place(x.sub, id)] ELSE Nothing

invoke(c) ==
  LET x == executor[c][1]
      n == x.sub.nodes[xcall[c].next]
      Result(k) == XTerm(n.op, <<k>> \o n.attrs \o n.range, [i \in DOMAIN n.ins |-> Reads(c, n.ins[i])])
      Outs == {k \in DOMAIN n.outs : n.outs[k] < x.sub.graph.num_externs}
      Internal == DOMAIN n.outs \ Outs
      At(ks, Where(_)) == [w \in {Where(k) : k \in ks} |-> Result(CHOOSE k \in ks : Where(k) = w)]
      external == At(Outs, LAMBDA k : n.outs[k])
      data == IF Outs = {} THEN 1 ELSE DataFor(x, n.outs[CHOOSE k \in Outs : TRUE])
  IN /\ xcall[c].pc = "invoke"
     /\ xcall[c].next <= Len(x.sub.nodes)
     /\ ~(xcall[c].fault = "invoke" /\ xcall[c].next = Len(x.sub.nodes))
     /\ workspace' = At(Internal, LAMBDA k : Place(x.sub, n.outs[k])) @@ workspace
     /\ xmemory' = [xmemory EXCEPT ![c][data] = external @@ @]
     /\ xcall' = [xcall EXCEPT ![c].next = @ + 1]
     /\ UNCHANGED <<mutex, executor>>

(* The rest of forward, resize_outputs and the return.                     *)
finish(c) ==
  LET x == executor[c][1]
      fault == xcall[c].fault
      resized == resize_outputs(x, xcall[c].args, fault)
  IN /\ xcall[c].pc = "invoke"
     /\ \/ xcall[c].next > Len(x.sub.nodes)
        \/ fault = "invoke" /\ xcall[c].next = Len(x.sub.nodes)
     /\ executor' = [executor EXCEPT ![c][1].profiler =
                       profiler_end(@, [i \in DOMAIN x.sub.nodes |-> i], fault = "timing")]
     /\ IF fault = "invoke" THEN Return(c, "Internal")
        ELSE /\ xcall' = [xcall EXCEPT ![c].args = resized.args, ![c].err = resized.err,
                                     ![c].pc = IF resized.err = "overrun" THEN "broken" ELSE "idle"]
             /\ mutex' = IF resized.err = "overrun" THEN mutex ELSE <<>>
     /\ UNCHANGED <<workspace, xmemory>>

xnn_destroy(c) ==
  /\ executor[c] # <<>>
  /\ xcall[c].pc = "idle"
  /\ mutex = <<>>
  /\ executor' = [executor EXCEPT ![c] = <<>>]
  /\ xcall' = [xcall EXCEPT ![c] = [NoCall EXCEPT !.number = CallsPerClient]]
  /\ UNCHANGED <<mutex, workspace, xmemory>>

XnnNext ==
  \E c \in Clients :
    init(c) \/ xnn_execute(c) \/ xnn_prepare(c) \/ setup(c) \/ invoke(c) \/ finish(c) \/ xnn_destroy(c)

XnnSpec == XnnInit /\ [][XnnNext]_XnnVars

-----------------------------------------------------------------------------
(* What the serialized graph means for given inputs: its nodes, in order,  *)
(* applied to the values they name.                                        *)
ZeroOf(v) ==
  CASE v.dtype \in {"qcint4", "qbint4"} -> 8
    [] v.quant = "PerTensorQuant" -> v.zero_point
    [] OTHER -> 0

Given(v, c, number) ==
  CASE v.buffer # 0 -> XTerm("constant", <<v.buffer, ZeroOf(v)>>, <<>>)
    [] v.buffer = 0 /\ v.dq_datatype = "qint8" ->
         XTerm("Convert", <<1>> \o NoRange, <<Input(c, number, v.external_id)>>)
    [] v.buffer = 0 /\ v.dq_datatype # "qint8" /\ "input" \in v.flags -> Input(c, number, v.external_id)
    [] OTHER -> Nothing

MeantAttrs(n) ==
  IF n.kind # "DepthwiseConv2d" THEN n.attrs
  ELSE SubSeq(n.attrs, 1, Len(n.attrs) - 3) \o <<n.attrs[Len(n.attrs)] \div n.attrs[Len(n.attrs) - 1],
                                                n.attrs[Len(n.attrs) - 2]>>

Meant(graph, c, number) ==
  LET start == [v \in {graph.xvalues[i].id_out : i \in DOMAIN graph.xvalues} |->
                  Given(CHOOSE w \in ToSet(graph.xvalues) : w.id_out = v, c, number)]
               @@ (XNN_INVALID_VALUE_ID :> Nothing)
      Apply(env, n) ==
        [v \in ToSet(n.outs) |->
           XTerm(n.kind, <<CHOOSE k \in DOMAIN n.outs : n.outs[k] = v>> \o MeantAttrs(n) \o getOutputMinMax(n),
                [i \in DOMAIN n.ins |-> env[n.ins[i]]])] @@ env
  IN FoldLeft(Apply, start, graph.xnodes)

Returned(c) == executor[c] # <<>> /\ xcall[c].pc = "idle" /\ xcall[c].number > 0 /\ xcall[c].err = "Ok"

(* A call of execute that returns Ok has left in every output what the     *)
(* serialized graph means for the inputs of that call, in the buffer that  *)
(* this call was given, and has told the output tensor its length,         *)
(* whatever failed in earlier calls of the delegate and whatever other     *)
(* methods do with the workspace they share with it.                       *)
OwnOutputs ==
  \A c \in Clients : Returned(c) =>
    LET x == executor[c][1]
        graph == x.sub.graph
        number == xcall[c].number
        buffer == xmemory[c][1 + (number % 2)]
    IN \A i \in DOMAIN graph.xvalues :
         LET v == graph.xvalues[i]
         IN "output" \in v.flags =>
              /\ v.external_id \in DOMAIN buffer
              /\ buffer[v.external_id] = Meant(graph, c, number)[v.id_out]
              /\ xcall[c].args[v.external_id].length = x.lengths[v.external_id]
=============================================================================
