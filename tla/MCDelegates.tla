---------------------------- MODULE MCDelegates ----------------------------
(***************************************************************************)
(* The delegates for TLC.  A behaviour is one of the delegate that which   *)
(* names; the variables of the others are 0.  XNNPACK, MPS and Core ML are *)
(* there twice: with every graph and fault and one client, and with few of *)
(* them and two clients.                                                   *)
(***************************************************************************)
EXTENDS VulkanDelegate, VulkanRuntime, XnnpackDelegate, QnnDelegate

CONSTANTS t1, t2  \* the clients of Core ML

Rat(n) == <<n, 1>>  \* numbers of MPS graphs

-----------------------------------------------------------------------------
(* Vulkan: small graphs.  Sizes beyond 4 along the packed dimension need a *)
(* second texel.                                                          *)

VkIn(sizes, storage, packed, object) ==
  [kind |-> "tensor", sizes |-> sizes, type |-> "Float", storage |-> storage, packed |-> packed, object |-> object]
T(sizes) == VkIn(sizes, "default", -1, 0)
Tc(sizes) == VkIn(sizes, "default", kChannelsPacked, 0)
Buf(sizes) == VkIn(sizes, "buffer", kWidthPacked, 0)
VkShared(sizes, object) == VkIn(sizes, "default", -1, object)
Half(sizes) == [T(sizes) EXCEPT !.type = "Half"]
Const(sizes) == [kind |-> "tref", sizes |-> sizes, type |-> "Float"]
List(s) == [kind |-> "list", val |-> s]
Sym(n) == [kind |-> "symint", val |-> n]
VkNone == [kind |-> "none"]
Op(op, arguments) == [op |-> op, args |-> arguments]

VkHeader == [magic |-> "VH00", header_size |-> 30, flatbuffer_offset |-> 32, flatbuffer_size |-> 64, bytes_offset |-> 96]
P(values, inputs, chain, outputs, calls) ==
  [header |-> VkHeader, values |-> values, inputs |-> inputs, chain |-> chain, outputs |-> outputs, calls |-> calls]

(* Temporaries 2 and 4 take the same memory.                               *)
VkChain ==
  P(<<T(<<2, 5>>), VkShared(<<2, 5>>, 1), VkShared(<<2, 5>>, 2), VkShared(<<2, 5>>, 1), T(<<2, 5>>)>>, <<1>>,
    <<Op("unary", <<1, 2>>), Op("unary", <<2, 3>>), Op("unary", <<3, 4>>), Op("binary", <<4, 3, 5>>)>>, <<5>>,
    {<< <<2, 5>> >>, << <<1, 3>> >>})

Broadcasts ==
  P(<<T(<<1, 5>>), T(<<2, 5>>), Const(<<2, 1>>), T(<<2, 5>>), T(<<2, 5>>)>>, <<1, 2>>,
    <<Op("binary", <<1, 2, 4>>), Op("binary", <<4, 3, 5>>)>>, <<5>>,
    {<< <<1, 5>>, <<2, 5>> >>, << <<1, 2>>, <<2, 2>> >>})

VkBuffers ==
  P(<<Buf(<<2, 3>>), Buf(<<3, 5>>), Buf(<<2, 5>>), Buf(<<2, 5>>)>>, <<1, 2>>,
    <<Op("mm", <<1, 2, 3>>), Op("unary", <<3, 4>>)>>, <<4>>,
    {<< <<2, 3>>, <<3, 5>> >>, << <<1, 2>>, <<2, 4>> >>})

VkLinear(packed) ==
  P(<<VkIn(<<2, 3>>, "default", packed, 0), Const(<<5, 3>>), Const(<<5>>), VkIn(<<2, 5>>, "default", packed, 0)>>, <<1>>,
    <<Op("linear", <<1, 2, 3, 4>>)>>, <<4>>, {<< <<2, 3>> >>, << <<1, 3>> >>})

VkConv ==
  P(<<Tc(<<1, 2, 4, 4>>), Const(<<5, 2, 2, 2>>), Const(<<5>>), List(<<1, 1>>), List(<<0, 0>>),
      Bool(FALSE), Scalar(1), Tc(<<1, 5, 3, 3>>), Tc(<<1, 5, 2, 2>>), Tc(<<1, 5, 2, 2>>), List(<<9, 10>>),
      List(<<2, 2>>)>>, <<1>>,
    <<Op("conv", <<1, 2, 3, 4, 5, 4, 6, 5, 7, 8>>), Op("max_pool2d", <<8, 12, 4, 5, 4, 6, 11>>)>>, <<9>>,
    {<< <<1, 2, 4, 4>> >>, << <<1, 2, 3, 4>> >>})

VkAttention ==
  P(<<T(<<1, 2, 2, 2>>), T(<<1, 2, 1, 2>>), T(<<1, 2, 1, 2>>), Const(<<1, 3, 1, 2>>), Const(<<1, 3, 1, 2>>),
      Sym(1), Sym(2), VkNone, T(<<1, 2, 2, 2>>)>>, <<1, 2, 3, 6>>,
    <<Op("sdpa_with_kv_cache", <<1, 2, 3, 4, 5, 6, 7, 8, 8, 8, 8, 9>>)>>, <<9>>,
    {<< <<1, 2, 2, 2>>, <<1, 2, 1, 2>>, <<1, 2, 1, 2>>, <<0>> >>,
     << <<1, 1, 2, 2>>, <<1, 1, 1, 2>>, <<1, 1, 1, 2>>, <<2>> >>})

CatHeight ==
  P(<<Tc(<<2, 5>>), Tc(<<1, 5>>), List(<<1, 2>>), Scalar(0), Tc(<<3, 5>>)>>, <<1, 2>>,
    <<Op("cat", <<3, 4, 5>>)>>, <<5>>, {<< <<2, 5>>, <<1, 5>> >>})

VkConverted ==
  P(<<T(<<2, 5>>), Half(<<2, 5>>), T(<<2, 5>>)>>, <<1>>,
    <<Op("to_copy", <<1, 2>>), Op("to_copy", <<2, 3>>)>>, <<3>>, {<< <<2, 5>> >>})

(* VkOne graph for each of the other operators.                              *)
VkOne(values, n, op, arguments, calls) ==
  P(values, [i \in 1..n |-> i], <<Op(op, arguments)>>,
    <<LET v == values[arguments[Len(arguments)]]
      IN IF v.kind = "list" THEN v.val[1] ELSE arguments[Len(arguments)]>>, calls)
Is(sizes) == {<<sizes>>}
Either(a, b) == {<<a>>, <<b>>}

Shapeless ==
  {VkOne(<<T(<<2, 5>>), T(<<2, 5>>)>>, 1, "clone", <<1, 2>>, Is(<<2, 5>>)),
   VkOne(<<Tc(<<2, 1, 1>>), Scalar(1), Scalar(0), Tc(<<2, 1, 1>>)>>, 1, "copy_channel_offset", <<1, 2, 3, 3, 4>>, Is(<<2, 1, 1>>)),
   VkOne(<<T(<<2, 2>>), T(<<2, 2>>)>>, 1, "copy_offset", <<1, 2>>, Is(<<2, 2>>)),
   VkOne(<<Tc(<<1, 5, 1, 1>>), Const(<<5>>), Const(<<5>>), Const(<<5>>), Const(<<5>>), Tc(<<1, 5, 1, 1>>), List(<<6>>)>>,
       1, "batch_norm", <<1, 2, 3, 4, 5, 7>>, Is(<<1, 5, 1, 1>>)),
   VkOne(<<Tc(<<2>>), Const(<<4, 5>>), Tc(<<2, 5>>)>>, 1, "embedding", <<2, 1, 3>>, Is(<<2>>)),
   VkOne(<<Tc(<<3, 2>>), Tc(<<2>>), Scalar(0), Tc(<<2, 2>>)>>, 2, "index_select", <<1, 3, 2, 4>>, {<< <<3, 2>>, <<2>> >>}),
   VkOne(<<Tc(<<5, 2>>), List(<<1, 0>>), Tc(<<2, 5>>)>>, 1, "permute", <<1, 2, 3>>, Is(<<5, 2>>)),
   VkOne(<<Tc(<<2, 2>>), List(<<1, 2>>), Tc(<<2, 4>>)>>, 1, "repeat", <<1, 2, 3>>, Is(<<2, 2>>)),
   VkOne(<<Tc(<<2, 2, 1>>), List(<<2, 1, 1>>), Tc(<<4, 2, 1>>)>>, 1, "repeat", <<1, 2, 3>>, Is(<<2, 2, 1>>)),
   VkOne(<<T(<<1, 2, 1, 4>>), T(<<1, 2, 1, 4>>), T(<<2, 2>>), T(<<2, 2>>), T(<<1, 2, 1, 4>>), T(<<1, 2, 1, 4>>), List(<<5, 6>>)>>,
       4, "apply_rotary_emb", <<1, 2, 3, 4, 7>>, {<< <<1, 2, 1, 4>>, <<1, 2, 1, 4>>, <<2, 2>>, <<2, 2>> >>}),
   VkOne(<<Tc(<<5, 2, 2>>), Scalar(0), Scalar(-1), Tc(<<2, 2>>)>>, 1, "select", <<1, 2, 3, 4>>, Is(<<5, 2, 2>>)),
   VkOne(<<Tc(<<5, 2>>), Scalar(0), Scalar(1), Scalar(3), Scalar(1), Tc(<<2, 2>>)>>, 1, "slice_copy", <<1, 2, 3, 4, 5, 6>>, Is(<<5, 2>>)),
   VkOne(<<Tc(<<5, 2>>), Scalar(0), Scalar(1), Scalar(3), Scalar(1), Tc(<<2, 2>>)>>, 1, "slice", <<1, 2, 3, 4, 5, 6>>, Is(<<5, 2>>)),
   VkOne(<<Tc(<<3, 2>>), List(<<1, 2>>), Scalar(0), Tc(<<1, 2>>), Tc(<<2, 2>>), List(<<4, 5>>)>>, 1, "split_with_sizes", <<1, 2, 3, 6>>, Is(<<3, 2>>)),
   VkOne(<<Tc(<<4, 2>>), Scalar(2), Scalar(0), Tc(<<2, 2>>), Tc(<<2, 2>>), List(<<4, 5>>)>>, 1, "split", <<1, 2, 3, 6>>, Is(<<4, 2>>)),
   VkOne(<<Tc(<<2, 1, 2>>), List(<<1>>), Tc(<<2, 2>>)>>, 1, "squeeze", <<1, 2, 3>>, Is(<<2, 1, 2>>)),
   VkOne(<<Tc(<<2, 2>>), Scalar(1), Tc(<<2, 1, 2>>)>>, 1, "unsqueeze", <<1, 2, 3>>, Is(<<2, 2>>)),
   VkOne(<<Const(<<2, 5>>), T(<<2, 5>>)>>, 0, "prepack", <<1, 2>>, {<<>>}),
   VkOne(<<List(<<2, 5>>), T(<<2, 5>>)>>, 0, "zeros", <<1, 2>>, {<<>>})}

Shaped ==
  {VkOne(<<Sym(5), Scalar(0), Scalar(2), T(<<3>>)>>, 1, "arange", <<2, 1, 3, 4>>, Either(<<5>>, <<4>>)),
   VkOne(<<T(<<2, 2, 1, 5>>), T(<<2, 2, 1, 5>>)>>, 1, "unary", <<1, 2>>, Either(<<2, 2, 1, 5>>, <<1, 2, 1, 3>>)),
   VkOne(<<Tc(<<2, 5>>), List(<<0>>), Tc(<<2, 5>>)>>, 1, "flip", <<1, 2, 3>>, Either(<<2, 5>>, <<1, 3>>)),
   VkOne(<<T(<<2, 5>>), T(<<2, 5>>)>>, 1, "full", <<1, 2>>, Either(<<2, 5>>, <<1, 3>>)),
   VkOne(<<T(<<1, 1, 2, 3>>), T(<<6, 2>>)>>, 1, "grid_priors", <<1, 2>>, Either(<<1, 1, 2, 3>>, <<1, 1, 1, 2>>)),
   VkOne(<<T(<<2, 3>>), Const(<<2, 5>>), Const(<<3, 5>>), T(<<2, 5>>)>>, 1, "addmm", <<2, 1, 3, 4>>, Either(<<2, 3>>, <<1, 3>>)),
   VkOne(<<Tc(<<2, 3>>), Const(<<3, 5>>), Tc(<<2, 5>>)>>, 1, "mm", <<1, 2, 3>>, Either(<<2, 3>>, <<1, 3>>)),
   VkOne(<<Tc(<<2, 5>>), List(<<5>>), Const(<<5>>), Const(<<5>>), Tc(<<2, 5>>), Tc(<<2, 1>>), Tc(<<2, 1>>), List(<<5, 6, 7>>)>>,
       1, "native_layer_norm", <<1, 2, 3, 4, 8>>, Either(<<2, 5>>, <<1, 5>>)),
   VkOne(<<T(<<2, 3>>), List(<<1, 2, 0, 1>>), T(<<3, 6>>)>>, 1, "constant_pad_nd", <<1, 2, 3>>, Either(<<2, 3>>, <<1, 1>>)),
   VkOne(<<Tc(<<1, 5, 4, 4>>), List(<<2, 2>>), List(<<1, 1>>), Bool(FALSE), Tc(<<1, 5, 3, 3>>)>>,
       1, "avg_pool2d", <<1, 2, 2, 3, 4, 5>>, Either(<<1, 5, 4, 4>>, <<1, 5, 3, 2>>)),
   VkOne(<<T(<<2, 3>>), Const(<<5, 3>>), Const(<<5>>), T(<<2, 5>>)>>, 1, "weight_int8pack_mm", <<1, 2, 3, 4>>, Either(<<2, 3>>, <<1, 3>>)),
   VkOne(<<Tc(<<2, 3>>), Const(<<5, 3>>), Const(<<5>>), Tc(<<2, 5>>)>>, 1, "weight_int8pack_mm", <<1, 2, 3, 4>>, Either(<<2, 3>>, <<1, 3>>)),
   VkOne(<<T(<<2, 4>>), Const(<<5, 2>>), Scalar(2), Const(<<2, 5, 2>>), T(<<2, 5>>)>>, 1, "linear_weight_int4", <<1, 2, 3, 4, 5>>, Either(<<2, 4>>, <<1, 4>>)),
   VkOne(<<T(<<3, 5>>), List(<<-1>>), T(<<3, 1>>)>>, 1, "reduce", <<1, 2, 3>>, Either(<<3, 5>>, <<2, 2>>)),
   VkOne(<<T(<<2, 2, 5>>), Scalar(2), Scalar(1), T(<<2, 4, 5>>)>>, 1, "repeat_interleave", <<1, 2, 3, 4>>, Either(<<2, 2, 5>>, <<2, 1, 3>>)),
   VkOne(<<T(<<3, 5>>), Scalar(-1), T(<<3, 5>>)>>, 1, "softmax", <<1, 2, 3>>, Either(<<3, 5>>, <<2, 2>>)),
   VkOne(<<T(<<1, 1, 2, 2>>), VkNone, List(<<2, 1>>), T(<<1, 1, 4, 2>>)>>, 1, "upsample_nearest2d", <<1, 2, 3, 4>>, Either(<<1, 1, 2, 2>>, <<1, 1, 1, 2>>)),
   VkOne(<<T(<<2, 2, 5>>), List(<<-1, 5>>), T(<<4, 5>>)>>, 1, "view", <<1, 2, 3>>, Either(<<2, 2, 5>>, <<2, 1, 5>>)),
   VkOne(<<Tc(<<1, 2, 4>>), Const(<<5, 2, 2>>), Const(<<5>>), List(<<1>>), List(<<0>>), Bool(FALSE), Scalar(1), Tc(<<1, 5, 3>>)>>,
       1, "conv", <<1, 2, 3, 4, 5, 4, 6, 5, 7, 8>>, Either(<<1, 2, 4>>, <<1, 2, 3>>)),
   VkOne(<<Tc(<<1, 2, 2, 2>>), Const(<<2, 5, 2, 2>>), Const(<<5>>), List(<<1, 1>>), List(<<0, 0>>), Bool(TRUE), Scalar(1), Tc(<<1, 5, 3, 3>>)>>,
       1, "conv", <<1, 2, 3, 4, 5, 4, 6, 5, 7, 8>>, Either(<<1, 2, 2, 2>>, <<1, 2, 1, 2>>))}

(* Refused: a header of another format, an operator nobody registered, a   *)
(* transpose outside of an attention, which has no view to work on.        *)
VkRefused ==
  {[VkChain EXCEPT !.header.magic = "VK00"],
   [VkChain EXCEPT !.header.bytes_offset = 95],
   VkOne(<<T(<<2, 5>>), T(<<2, 5>>)>>, 1, "isfinite", <<1, 2>>, Is(<<2, 5>>)),
   VkOne(<<T(<<2, 5>>), Scalar(0), Scalar(1), T(<<5, 2>>)>>, 1, "transpose", <<1, 2, 3, 4>>, Is(<<2, 5>>))}

MCPrograms == {VkChain, Broadcasts, VkBuffers, VkLinear(kWidthPacked), VkLinear(kChannelsPacked), VkConv, VkAttention, CatHeight, VkConverted}
              \cup Shapeless \cup Shaped \cup VkRefused

-----------------------------------------------------------------------------
(* XNNPACK: serialized graphs                                              *)

Plain == [quant |-> "None", dq_datatype |-> "none", dtype |-> "fp32", id_out |-> 0,
          external_id |-> XNN_INVALID_VALUE_ID, flags |-> {}, buffer |-> 0, dims |-> <<2, 4>>,
          scales |-> 0, group_size |-> 1, zero_point |-> 0, num_nonbatch_dims |-> 1]
XnnIn(id, ext) == [Plain EXCEPT !.id_out = id, !.external_id = ext, !.flags = {"input"}]
Out(id, ext) == [Plain EXCEPT !.id_out = id, !.external_id = ext, !.flags = {"output"}]
Inner(id) == [Plain EXCEPT !.id_out = id]
Weights(id, k) == [Plain EXCEPT !.id_out = id, !.buffer = k]

XnnNode(kind, ins, outs) ==
  [kind |-> kind, ins |-> ins, outs |-> outs, attrs |-> <<>>, min_max |-> <<>>, flags |-> {}]

XnnGraph(externs, values, nodes) ==
  [num_externs |-> externs, xvalues |-> values, xnodes |-> nodes, types |-> [i \in 1..externs |-> "Float"],
   constant_buffer |-> <<1, 2, 3>>, constant_data |-> <<32, 64, 96>>,
   data |-> (32 :> 1) @@ (64 :> 2) @@ (96 :> 3)]

WithHeader(g) == [size |-> 200, magic |-> "XH00", identifier |-> "XN01", graph |-> g]
WithoutHeader(g) == [size |-> 200, magic |-> "none", identifier |-> "XN00", graph |-> g]

(* z = relu(x - y), w = sigmoid(z): inputs 0 and 1, outputs 2 and 3        *)
Gated ==
  WithHeader(XnnGraph(4, <<XnnIn(7, 1), XnnIn(4, 0), Inner(2), Out(9, 3), Out(5, 2)>>,
                   << [XnnNode("Subtract", <<4, 7>>, <<2>>) EXCEPT !.min_max = <<0, 9>>],
                      XnnNode("Sigmoid", <<2>>, <<9>>), XnnNode("Negate", <<2>>, <<5>>) >>))

(* A linear layer on an input quantized as it comes in                     *)
XnnLinear ==
  LET values == << [XnnIn(1, 0) EXCEPT !.dq_datatype = "qint8"],
                   [Weights(2, 1) EXCEPT !.quant = "PerChannelQuant", !.dtype = "qcint4"],
                   Weights(3, 2), Inner(4), Out(5, 1) >>
  IN WithHeader(XnnGraph(2, values, << XnnNode("FullyConnected", <<1, 2, 3>>, <<4>>),
                                    XnnNode("Concatenate2", <<4, 4>>, <<5>>) >>))

(* A conversion in front of blockwise quantized weights                    *)
Blockwise ==
  LET values == << XnnIn(1, 0),
                   [Inner(2) EXCEPT !.quant = "PerTokenDynamicQuant", !.dtype = "qdint8"],
                   [Weights(3, 3) EXCEPT !.quant = "PerChannelGroupQuant", !.dtype = "qbint4",
                                         !.scales = 4, !.group_size = 2],
                   Out(4, 1) >>
  IN WithoutHeader(XnnGraph(2, values,
       << XnnNode("Convert", <<1>>, <<2>>),
          XnnNode("FullyConnected", <<2, 3, XNN_INVALID_VALUE_ID>>, <<4>>) >>))

(* Every other node, a few at a time                                       *)
UnaryKinds ==
  << <<"Softmax", "StaticTranspose", "Clamp", "StaticResizeBilinear2D", "StaticConstantPad">>,
     <<"AvgPooling2d", "MaxPooling2d", "Floor", "GlobalAvgPooling2d", "StaticReshape">>,
     <<"SquareRoot", "Ceiling", "Hardswish", "LeakyReLU">>, <<"Square", "ELU", "Abs", "StaticSlice">> >>
BinaryKinds == << <<"Add", "Div", "Minimum", "Multiply">>, <<"Maximum", "PReLU", "BatchMatrixMultiply">> >>

Chain(kinds, Operands(_)) ==
  LET n == Len(kinds)
  IN XnnGraph(2, <<XnnIn(0, 0)>> \o [i \in 1..(n - 1) |-> Inner(i)] \o <<Out(n, 1)>>,
           [i \in 1..n |-> [XnnNode(kinds[i], Operands(i), <<i>>) EXCEPT !.attrs = <<i>>]])

Weighty ==
  LET nodes == << [XnnNode("Conv2d", <<1, 8, 9>>, <<2>>) EXCEPT !.min_max = <<0, 6>>, !.attrs = <<1, 2>>],
                  [XnnNode("DepthwiseConv2d", <<2, 8, 9>>, <<3>>) EXCEPT !.attrs = <<1, 4, 2, 6>>],
                  XnnNode("Concatenate3", <<3, 1, 2>>, <<4>>) >>
      values == << XnnIn(1, 0), Inner(2), Inner(3),
                   [Weights(8, 1) EXCEPT !.quant = "PerTensorQuant", !.dtype = "qint8", !.zero_point = 5],
                   Weights(9, 2), Out(4, 1) >>
  IN XnnGraph(2, values, nodes)

XnnAttention ==
  LET nodes == << XnnNode("Concatenate4", <<1, 1, 8, 9>>, <<2>>),
                  XnnNode("ScaledDotProductAttention", <<2, 1, 2, 8, 9>>, <<3>>),
                  XnnNode("ArgMaxPooling2d", <<3>>, <<4, 5>>) >>
  IN XnnGraph(3, <<XnnIn(1, 0), Inner(2), Inner(3), Weights(8, 1), Weights(9, 2), Out(4, 1), Out(5, 2)>>, nodes)

(* Buffers that are refused, or end the process                            *)
OneNode(values, node) == WithHeader(XnnGraph(2, values, <<node>>))
InOut == <<XnnIn(1, 0), Out(2, 1)>>
XnnRefused ==
  { [WithHeader(Gated.graph) EXCEPT !.size = 20],
    [WithHeader(Gated.graph) EXCEPT !.identifier = "XN02"],
    OneNode(InOut, XnnNode("Unknown", <<1>>, <<2>>)),
    OneNode(InOut, XnnNode("Abs", <<3>>, <<2>>)) }
  \cup { OneNode(<<bad, Out(2, 1)>>, XnnNode("Abs", <<1>>, <<2>>)) :
           bad \in { [XnnIn(1, 0) EXCEPT !.quant = "Unknown"],
                     [XnnIn(1, 0) EXCEPT !.quant = "Other"],
                     [XnnIn(1, 0) EXCEPT !.dq_datatype = "quint8"],
                     [Inner(1) EXCEPT !.dq_datatype = "qint8"],
                     [XnnIn(1, 0) EXCEPT !.dq_datatype = "qint8", !.buffer = 1],
                     [Weights(1, 1) EXCEPT !.quant = "PerChannelGroupQuant", !.dtype = "qbint4"],
                     [Weights(1, 1) EXCEPT !.quant = "PerTokenDynamicQuant"] } }

MCBuffers == {Gated, XnnLinear, Blockwise}
AllBuffers ==
  XnnRefused
  \cup {WithHeader(Chain(UnaryKinds[k], LAMBDA i : <<i - 1>>)) : k \in DOMAIN UnaryKinds}
  \cup {WithoutHeader(Chain(BinaryKinds[k], LAMBDA i : <<i - 1, 0>>)) : k \in DOMAIN BinaryKinds}
  \cup {WithHeader(Weighty), WithoutHeader(Weighty), WithHeader(XnnAttention)}
  \cup MCBuffers

-----------------------------------------------------------------------------
(* MPS: serialized graphs, one for every node                              *)

V(type, dims) == [type |-> type, dims |-> dims, constant_buffer_size |-> 0]
F(dims) == V("Float32", dims)
I(dims) == V("Int32", dims)

(* values are numbered from 0: inputs, constants, then the rest            *)
MpsSequenced(vals) == [id \in 0..(Len(vals) - 1) |-> vals[id + 1]]
MpsGraph(ins, consts, nodes, outs) ==
  LET n == Len(ins)
      m == Len(consts)
      all == ins \o [i \in 1..m |-> [V(consts[i].type, consts[i].dims) EXCEPT !.constant_buffer_size = 1]]
             \o [i \in 1..12 |-> F(<<1>>)]
  IN [size |-> 64, magic |-> "MP00", identifier |-> "MP00",
      graph |-> [values |-> MpsSequenced(all), input_ids |-> [i \in 1..n |-> i - 1],
                 constant_ids |-> [i \in 1..m |-> n + i - 1], output_ids |-> outs, nodes |-> nodes,
                 data |-> [id \in n..(n + m - 1) |-> consts[id - n + 1].data], graph_type |-> "mps_graph"]]
C(type, dims, numbers) == [type |-> type, dims |-> dims, data |-> [i \in DOMAIN numbers |-> Rat(numbers[i])]]

N(kind, ins, outs) == [kind |-> kind, ins |-> ins, outs |-> outs]
Alpha(kind, ins, out, alpha) == [alpha |-> alpha] @@ N(kind, ins, <<out>>)
Div(kind, mode, ins, out) == [rounding_mode |-> mode] @@ N(kind, ins, <<out>>)

Window(kh, kw, s, d, p) ==
  [kernel_height |-> kh, kernel_width |-> kw, stride_y |-> s, stride_x |-> 1, dilation_y |-> d, dilation_x |-> 1,
   padding_top |-> p, padding_bottom |-> p, padding_left |-> 1, padding_right |-> 1, groups |-> 1]

(* x, y -> fmod, remainder and the three quotients                         *)
Divisions(d) ==
  MpsGraph(<<F(<<2>>)>>, <<C("Float32", <<1>>, <<5>>), C("Float32", <<1>>, <<d>>)>>,
           <<Alpha("Add", <<0, 0>>, 3, Rat(2)), Alpha("Sub", <<3, 1>>, 4, Rat(1)), Div("Fmod", "none", <<4, 2>>, 5),
             Div("Remainder", "none", <<4, 2>>, 6), Div("Div", "none", <<4, 2>>, 7), Div("Div", "floor", <<4, 2>>, 8),
             Div("Div", "trunc", <<4, 2>>, 9)>>,
           <<5, 6, 7, 8, 9>>)

(* The same on integers, where a quotient that is to be rounded is float   *)
IntDivisions ==
  MpsGraph(<<F(<<2>>)>>, <<C("Int32", <<2>>, <<7, -7>>), C("Int32", <<1>>, <<2>>)>>,
           <<Div("Div", "floor", <<1, 2>>, 3), Div("Remainder", "none", <<1, 2>>, 4)>>, <<3, 4>>)

Activations ==
  MpsGraph(<<F(<<4>>)>>, <<>>,
           << [min_value |-> Rat(0), max_value |-> Rat(1)] @@ N("HardTanh", <<0>>, <<1>>),
              N("ReLU", <<0>>, <<2>>),
              [approximate |-> "none"] @@ N("GELU", <<0>>, <<3>>),
              [negative_slope |-> <<1, 2>>] @@ N("LeakyReLU", <<0>>, <<4>>),
              [min_max |-> << <<Rat(0)>>, <<Rat(1)>> >>] @@ N("Clamp", <<0>>, <<5>>),
              [min_max |-> << <<Rat(0)>>, <<>> >>] @@ N("Clamp", <<0>>, <<6>>),
              [min_max |-> << <<>>, <<Rat(1)>> >>] @@ N("Clamp", <<0>>, <<7>>) >>,
           <<1, 2, 3, 4, 5, 6, 7>>)

Unaries(kinds) ==
  MpsGraph(<<F(<<2>>)>>, <<>>, [i \in DOMAIN kinds |-> N(kinds[i], <<0>>, <<i>>)], [i \in DOMAIN kinds |-> i])

Logic ==
  MpsGraph(<<F(<<2>>)>>, <<C("Float32", <<1>>, <<1>>)>>,
           <<N("Lt", <<0, 1>>, <<2>>), N("Ge", <<0, 1>>, <<3>>), N("BitwiseXor", <<2, 3>>, <<4>>),
             N("BitwiseNot", <<4>>, <<5>>), N("Where", <<2, 0, 1>>, <<6>>), N("Where", <<0, 1, 0>>, <<7>>),
             N("Minimum", <<0, 1>>, <<8>>), N("Mul", <<0, 1>>, <<9>>)>>,
           <<5, 6, 7, 8, 9>>)

MpsShapes ==
  MpsGraph(<<F(<<1, 2, 3>>)>>, <<>>,
           << [perm |-> <<1, 2, 0>>] @@ N("Permute", <<0>>, <<1>>),
              [perm |-> <<2, 0, 1>>] @@ N("Permute", <<1>>, <<2>>),
              [shape |-> <<3, 2>>] @@ N("View", <<0>>, <<3>>),
              [shape |-> <<2, -1, 3>>] @@ N("Expand", <<0>>, <<4>>),
              [dim |-> 1] @@ N("Cat", <<0, 12, 0>>, <<5>>),
              [dims |-> <<0>>] @@ N("Squeeze", <<0>>, <<6>>),
              [dim |-> -1] @@ N("Unsqueeze", <<6>>, <<7>>),
              [dim |-> 1, index |-> 1] @@ N("Select", <<4>>, <<8>>) >>,
           <<1, 2, 3, 5, 7, 8>>)

Slices ==
  MpsGraph(<<F(<<2, 4>>)>>, <<>>,
           << [dim |-> 1, start |-> 1, end |-> 4, step |-> 2] @@ N("Slice", <<0>>, <<1>>),
              [dim |-> 1, split_sizes |-> <<1, 3>>] @@ N("SplitWithSizes", <<0>>, <<2, 3>>),
              [pad |-> <<1, 0>>, value |-> Rat(5)] @@ N("ConstantPadND", <<0>>, <<4>>),
              [pad |-> <<0, 1, 1, 0>>, value |-> Rat(5)] @@ N("ConstantPadND", <<1>>, <<5>>),
              [dtype |-> "Int32"] @@ N("Cast", <<0>>, <<6>>),
              [dims |-> <<-1>>, keep_dims |-> FALSE] @@ N("Mean", <<0>>, <<7>>),
              [dims |-> <<0, 1>>, keep_dims |-> TRUE] @@ N("Mean", <<0>>, <<8>>) >>,
           <<1, 3, 4, 5, 6, 7, 8>>)

Indices ==
  MpsGraph(<<F(<<3, 2>>), I(<<2>>)>>, <<C("Float32", <<1, 2>>, <<7, 8>>)>>,
           << [dim |-> 1] @@ N("IndexSelect", <<0, 1>>, <<3>>),
              [padding_idx |-> -1] @@ N("Embedding", <<0, 1>>, <<4>>),
              [padding_idx |-> 1] @@ N("Embedding", <<0, 1>>, <<5>>),
              [indices |-> <<-1, 1>>] @@ N("IndexTensor", <<0>>, <<6>>),
              [indices |-> <<1>>, values_shape |-> <<2, 2>>] @@ N("IndexPut", <<0, 2>>, <<7>>) >>,
           <<3, 4, 5, 6, 7>>)

(* scatter needs an index of the rank of its operand                       *)
Scatters ==
  MpsGraph(<<F(<<2, 2>>), I(<<1, 2>>)>>, <<C("Float32", <<1, 2>>, <<7, 8>>)>>,
           << [dim |-> 0] @@ N("Scatter", <<0, 1, 2>>, <<3>>) >>, <<3>>)

MpsLinear ==
  MpsGraph(<<F(<<2, 2>>)>>, <<C("Float32", <<2, 3>>, <<1, 2, 3, 4, 5, 6>>), C("Float32", <<3>>, <<1, -1, 2>>)>>,
           << [alpha |-> Rat(2), beta |-> Rat(3)] @@ N("Addmm", <<2, 0, 1>>, <<3>>),
              N("MatMul", <<0, 1>>, <<4>>),
              [dim |-> 1, half_to_float |-> FALSE] @@ N("Softmax", <<4>>, <<5>>),
              [dim |-> 0, half_to_float |-> FALSE] @@ N("LogSoftmax", <<4>>, <<6>>),
              [shape |-> <<2>>, fill_value |-> Rat(4), dtype |-> "Float64"] @@ N("Full", <<>>, <<7>>),
              [fill_value |-> Rat(4), dtype |-> "Float32"] @@ N("FullLike", <<4>>, <<8>>),
              [start |-> Rat(1), end |-> Rat(6), step |-> Rat(2), dtype |-> "Int32"] @@ N("Arange", <<>>, <<9>>) >>,
           <<3, 5, 6, 7, 8, 9>>)
(* Groups, strides, dilations and padding; then one dimension              *)
Convolution ==
  MpsGraph(<<F(<<1, 2, 3, 2>>)>>,
           <<C("Float32", <<2, 1, 2, 1>>, <<1, 2, -1, 3>>), C("Float32", <<2>>, <<4, 5>>),
             C("Float32", <<1, 2, 1, 2>>, <<1, 0, 2, -1>>)>>,
           << [window |-> [Window(2, 1, 1, 2, 1) EXCEPT !.groups = 2]] @@ N("DepthwiseConv2D", <<0, 1, 2>>, <<4>>),
              [window |-> [Window(2, 1, 2, 1, 0) EXCEPT !.groups = 2]] @@ N("Conv2D", <<0, 1, 2>>, <<5>>),
              [window |-> Window(1, 2, 1, 1, 0)] @@ N("Conv2D", <<0, 3, -1>>, <<6>>) >>,
           <<4, 5, 6>>)

Convolution1D ==
  MpsGraph(<<F(<<1, 2, 4>>)>>, <<C("Float32", <<2, 2, 3>>, <<1, 2, 0, -1, 3, 1, 2, 2, 1, 0, 1, -2>>), C("Float32", <<2>>, <<4, 5>>)>>,
           << [window |-> Window(1, 3, 1, 1, 0)] @@ N("Conv2D", <<0, 1, 2>>, <<3>>) >>, <<3>>)

Pooling ==
  MpsGraph(<<F(<<1, 1, 3, 2>>)>>, <<>>,
           << [window |-> Window(2, 2, 1, 1, 1)] @@ N("MaxPool2DWithIndices", <<0>>, <<1, 2>>),
              [window |-> Window(2, 2, 1, 1, 1), divisor_override |-> 0, count_include_pad |-> FALSE]
                @@ N("AvgPool2D", <<0>>, <<3>>),
              [window |-> Window(2, 2, 1, 1, 1), divisor_override |-> 3, count_include_pad |-> FALSE]
                @@ N("AvgPool2D", <<0>>, <<4>>) >>,
           <<1, 2, 3, 4>>)

Norms ==
  MpsGraph(<<F(<<1, 2, 2>>)>>,
           <<C("Float32", <<2>>, <<1, 2>>), C("Float32", <<2>>, <<3, 1>>), C("Float32", <<2, 2>>, <<1, 2, 3, 4>>)>>,
           << [epsilon |-> <<1, 2>>] @@ N("BatchNorm", <<0, 1, 2, 1, 2>>, <<4, 5, 6>>),
              [normalized_shape |-> <<2>>, eps |-> <<1, 2>>] @@ N("LayerNorm", <<0, 1, 2>>, <<7, 8, 9>>),
              [normalized_shape |-> <<2, 2>>, eps |-> <<1, 2>>] @@ N("LayerNorm", <<0, 3, 3>>, <<10, 11, 12>>) >>,
           <<4, 7, 8, 10>>)

Shuffle(r) ==
  MpsGraph(<<F(<<4, 1, 2>>)>>, <<>>, << [upscale_factor |-> r] @@ N("PixelShuffle", <<0>>, <<1>>) >>, <<1>>)

Dequantized ==
  MpsGraph(<<F(<<1>>)>>, <<C("Int4", <<2, 4>>, <<1, 2, 3, 4, 5, 6, 7, 0>>), C("Float16", <<2, 2>>, <<2, 3, 4, 5>>)>>,
           <<N("DequantizePerChannelGroup", <<1, 2>>, <<3>>)>>, <<3>>)

(* The model in half precision: inputs cast in place, outputs cast back    *)
Halved ==
  MpsGraph(<<F(<<2>>)>>, <<C("Float16", <<1>>, <<3>>)>>,
           << [dtype |-> "Float16"] @@ N("Cast", <<0>>, <<0>>), Alpha("Add", <<0, 1>>, 2, Rat(1)),
              [dtype |-> "Float32"] @@ N("Cast", <<2>>, <<2>>) >>, <<2>>)

(* Graphs that init refuses                                                *)
MpsOne(node) == MpsGraph(<<F(<<2, 2>>)>>, <<C("Int32", <<1>>, <<1>>), C("Int64", <<1>>, <<2>>)>>, <<node>>, <<3>>)
MpsRefused ==
  << MpsOne(N("Unknown", <<0>>, <<3>>)),
     MpsOne(N("Neg", <<4>>, <<3>>)),
     MpsOne([min_max |-> <<>>] @@ N("Clamp", <<0>>, <<3>>)),
     MpsOne([shape |-> <<0>>, fill_value |-> Rat(1), dtype |-> "Float32"] @@ N("Full", <<>>, <<3>>)),
     MpsOne([upscale_factor |-> 2] @@ N("PixelShuffle", <<0>>, <<3>>)),
     MpsOne([perm |-> <<0>>] @@ N("Permute", <<0>>, <<3>>)),
     MpsOne([indices |-> <<1, 1>>] @@ N("IndexTensor", <<0>>, <<3>>)),
     MpsOne([pad |-> <<1>>, value |-> Rat(0)] @@ N("ConstantPadND", <<0>>, <<3>>)),
     MpsOne([dim |-> 0, half_to_float |-> TRUE] @@ N("Softmax", <<0>>, <<3>>)),
     MpsOne(N("Mul", <<1, 2>>, <<3>>)),
     [MpsOne(N("Neg", <<0>>, <<3>>)) EXCEPT !.size = 8],
     [MpsOne(N("Neg", <<0>>, <<3>>)) EXCEPT !.magic = "none"],
     [MpsOne(N("Neg", <<0>>, <<3>>)) EXCEPT !.identifier = "none"],
     [MpsOne(N("Neg", <<0>>, <<3>>)) EXCEPT !.graph.graph_type = "metal_kernel"],
     [MpsOne([indices |-> <<1>>] @@ N("IndexTensor", <<>>, <<3>>)) EXCEPT !.graph.graph_type = "metal_kernel",
                                                                       !.graph.constant_ids = <<>>],
     [MpsOne(N("Neg", <<0>>, <<3>>)) EXCEPT !.graph.graph_type = "none"] >>

MpsFew == <<Halved, Shuffle(1)>>
MpsAll ==
  MpsRefused \o
  <<Divisions(3), Divisions(-2), IntDivisions, Activations, Logic, MpsShapes, Slices, Indices, Scatters, MpsLinear, Convolution,
    Convolution1D, Pooling, Norms, Shuffle(1), Shuffle(2), Dequantized, Halved,
    Unaries(<<"Exp", "Exp2", "Reciprocal", "Sqrt", "Neg", "Log", "Log10", "Log2", "Erf", "Floor", "Ceil">>),
    Unaries(<<"Rsqrt", "Sigmoid", "Sin", "Sign", "Cos", "Tan", "Abs", "Asin", "Acos", "Atan">>),
    Unaries(<<"Sinh", "Cosh", "Tanh", "Asinh", "Acosh", "Atanh", "Isnan", "Isinf", "Round", "LogicalNot">>)>>

MpsShared == [shared |-> TRUE, simulator |-> FALSE, macos |-> 15]
Copying == [shared |-> FALSE, simulator |-> FALSE, macos |-> 13]
Simulated == [shared |-> FALSE, simulator |-> TRUE, macos |-> 14]
MpsOld == [Copying EXCEPT !.macos = 12]
AllPlatforms == {MpsShared, MpsOld}
FewPlatforms == {MpsShared, Copying, Simulated}

-----------------------------------------------------------------------------
(* Core ML: arrays and models                                              *)

Extent(s) == FoldLeft(LAMBDA a, b : a * b, 1, s)
MlShapes == {<<3>>, <<1>>} \cup ({1, 2} \X {1, 2, 3}) \cup ({1, 2} \X {1, 2} \X {1, 3})
Pads == {0, 1}
\* Row-major and column-major strides, with padding after the innermost dimension.
Padded(shape, pad) ==
  LET n == Len(shape)
  IN  [d \in 1 .. n |-> IF d = n THEN 1 ELSE (shape[n] + pad) * Extent(SubSeq(shape, d + 1, n - 1))]
StridesOf(shape) ==
  {Padded(shape, pad) : pad \in Pads} \cup {Reverse(Padded(Reverse(shape), pad)) : pad \in Pads}
  \cup (IF Len(shape) = 3
        THEN {[d \in 1 .. 3 |-> LET s == Padded(<<shape[1], shape[3], shape[2]>>, 0) IN <<s[1], s[3], s[2]>>[d]]}
        ELSE {})
MlMem(shape, steps, base) ==
  LET top == FoldLeft(LAMBDA n, d : n + (shape[d] - 1) * steps[d], 0, [d \in DOMAIN shape |-> d])
  IN  [o \in 0 .. top + 1 |-> base + o]
Arr(type, shape, steps, base) ==
  [type |-> type, shape |-> shape, strides |-> steps, data |-> MlMem(shape, steps, base)]
MCArrays ==
  UNION {{<<Arr(t[1], shape, s, 1), Arr(t[2], shape, d, 100)>> :
            t \in {<<"Float32", "Float32">>, <<"Int64", "Int32">>, <<"Float16", "Float64">>, <<"Int32", "Bool">>},
            s \in StridesOf(shape), d \in StridesOf(shape)} : shape \in MlShapes}

MCModels ==
  "a" :> [in |-> "other", out |-> "other", stateful |-> TRUE]
  @@ "b" :> [in |-> "same", out |-> "same", stateful |-> FALSE]
OneModel == [i \in {"a"} |-> MCModels[i]]
MCLogs == SUBSET {"profile", "debug"}
MCSymmetry == Permutations({t1, t2})

-----------------------------------------------------------------------------
(* Qualcomm: one graph, whose inputs come out of order and whose tensors   *)
(* have every encoding; one manager with every option and fault, or two    *)
(* that share a library or take it from each other.  Addresses below 100   *)
(* are in the memory of rpcmem.                                            *)
QName(p, n) == [prefix |-> p, num |-> n, suffix |-> <<>>]
QTensor(name, type, dtype, quant, dims, data) ==
  [name |-> name, type |-> type, dtype |-> dtype, quant |-> quant, dims |-> dims, data |-> data]
ScaleQ == CreateQuantizeParams("SCALE_OFFSET", 0, 0, <<3>>, <<-1>>)
AxisQ == CreateQuantizeParams("AXIS_SCALE_OFFSET", 1, 0, <<2, 5>>, <<0, 1>>)
BwQ == CreateQuantizeParams("BW_SCALE_OFFSET", 0, 4, <<7>>, <<0>>)
BwAxisQ == CreateQuantizeParams("BW_AXIS_SCALE_OFFSET", 1, 4, <<2, 6>>, <<0, -3>>)
AotMC ==
  [tensors |-> <<
     QTensor(QName("input", 1), "WRITE", "UFIXED_POINT_8", ScaleQ, <<2>>, <<>>),
     QTensor(QName("weight", 0), "STATIC", "SFIXED_POINT_8", AxisQ, <<1, 2>>, <<8, 9>>),
     QTensor(QName("mid", 0), "NATIVE", "UFIXED_POINT_16", BwQ, <<2>>, <<>>),
     QTensor(QName("id", 90), "STATIC", "UINT_32", NoQuant, <<1>>, <<1, 0, 0, 0>>),
     QTensor(QName("input", 0), "WRITE", "UFIXED_POINT_16", BwQ, <<2>>, <<>>),
     QTensor(QName("bias", 0), "STATIC", "SFIXED_POINT_16", BwAxisQ, <<1>>, <<7, 0>>),
     QTensor(QName("output", 0), "READ", "UFIXED_POINT_8", ScaleQ, <<2>>, <<>>)>>,
   ops |-> <<
     [name |-> "conv", inputs |-> <<1, 2>>, outputs |-> <<3>>,
      params |-> <<[name |-> QName("stride", 0), tensor |-> 4], [name |-> QName("group", 0), dtype |-> "UINT_32", value |-> 1]>>],
     [name |-> "add", inputs |-> <<3, 5, 6>>, outputs |-> <<7>>, params |-> <<>>]>>]
QnnDefault ==
  [blob |-> "binary", library |-> "libQnnHtp.so", shared |-> TRUE, dump |-> FALSE, mode |-> "kHtpDefault", profile |-> FALSE,
   log |-> FALSE, from_context_binary |-> FALSE, fault |-> "none"]
QnnLoud == [QnnDefault EXCEPT !.shared = FALSE, !.mode = "kHtpBurst", !.profile = TRUE, !.log = TRUE]
QnnFaults == {"none", "dlopen", "providers", "saver", "log", "version", "sys_dlopen", "sys_providers", "sys_context", "backend", "device",
           "infra", "power", "context", "graph", "profile", "register", "tensor", "node", "finalize", "binary"}
QnnAlone ==
  {[QnnLoud EXCEPT !.fault = f, !.blob = b] : f \in QnnFaults, b \in {"none", "qcir", "binary"}}
  \cup {[QnnDefault EXCEPT !.blob = b, !.shared = s, !.dump = d] : b \in {"binary", "qcir"}, s, d \in BOOLEAN}
  \cup {[QnnDefault EXCEPT !.from_context_binary = TRUE, !.dump = TRUE], [QnnLoud EXCEPT !.blob = "broken"],
        [QnnDefault EXCEPT !.fault = "register"]}
QnnPairs ==
  {[m1 |-> a, m2 |-> QnnLoud] : a \in {QnnLoud, [QnnLoud EXCEPT !.library = "custom.so", !.log = FALSE, !.profile = FALSE]}}
  \cup {[m1 |-> [QnnDefault EXCEPT !.blob = "qcir", !.fault = "finalize"], m2 |-> [QnnLoud EXCEPT !.blob = "none", !.fault = "version"]]}
SetupsMC == {[m1 |-> a] : a \in QnnAlone} \cup QnnPairs
SlotsMC == {8}
InfoOf(base, pos, dt, dims, bytes) == [custom_mem |-> base, tensor_addr |-> base + pos, pos |-> pos, bytes |-> bytes, shape |-> dims, dtype |-> dt]
InfosMC == {InfoOf(8, 4, "Bits16", <<2>>, 4), InfoOf(8, 8, "Byte", <<2>>, 2)}
ArgTuplesMC == {<<100, 110, 120>>, <<12, 8, 16>>, <<8, 12, 16>>, <<12, 110, 16>>}
CollidingMC == {QName("input", 1), QName("weight", 0)}

-----------------------------------------------------------------------------
(* The instances *)

(* The Vulkan runtime: a graph with two dispatches of one shader, a copy and  *)
(* shared memory, with and without timestamps; one without constants; one  *)
(* with more dispatches than the query pool has room for.                  *)
RtShader(name, signature) == [name |-> name, signature |-> signature]
RtPack(packed, spec) ==
  [shader |-> RtShader("pack", <<"image", "buffer">>), wg |-> <<8, 8, 1>>, spec |-> spec, packed |-> packed]
RtNode(kind, name, spec, on) ==
  [kind |-> kind, shader |-> RtShader(name, <<"image", "ubo">>), wg |-> <<64, 1, 1>>, spec |-> spec, args |-> on]
RtNet ==
  [packs |-> <<RtPack("w", <<0>>), RtPack("v", <<1>>)>>,
   nodes |-> <<RtNode("dispatch", "conv", <<1>>, <<"a", "w">>), RtNode("none", "conv", <<>>, <<"a">>),
               RtNode("dispatch", "conv", <<2>>, <<"b", "v">>), RtNode("blit", "conv", <<>>, <<"b", "c">>)>>,
   tensors |-> [a |-> 1, b |-> 2, c |-> 1, v |-> 0, w |-> 0], querypool |-> TRUE]
RtSmall ==
  [packs |-> <<>>, nodes |-> <<RtNode("dispatch", "add", <<>>, <<"a", "a">>)>>,
   tensors |-> [a |-> 1], querypool |-> FALSE]
RtLong ==
  [packs |-> <<RtPack("w", <<0>>)>>, nodes |-> [i \in 1..4 |-> RtNode("dispatch", "add", <<>>, <<"a", "w">>)],
   tensors |-> [a |-> 1, w |-> 0], querypool |-> TRUE]
RtModels == {RtNet, [RtNet EXCEPT !.querypool = FALSE], RtSmall, RtLong}

VARIABLES
  which,
  mplatform, mstream, mmemory, mexecutor, mcall,
  asrc, adst, acopied,
  cbuild, cimpl, cstored, cloose, cwarming, cprewarmed, cexecutors, cclient,
  couts, cwritten, ccompiles, clost, cloads, ccalls

mVars == <<mplatform, mstream, mmemory, mexecutor, mcall>>
aVars == <<asrc, adst, acopied>>
cVars == <<cbuild, cimpl, cstored, cloose, cwarming, cprewarmed,
           cexecutors, cclient, couts, cwritten, ccompiles, clost, cloads,
           ccalls>>
vars == <<which, VulkanVars, RuntimeVars, XnnVars, QnnVars, mVars, aVars, cVars>>

vOff == program = 0 /\ phase = 0 /\ graph = 0 /\ done = 0 /\ memory = 0 /\
          images = 0 /\ discards = 0 /\ call = 0 /\ args = 0 /\ results = 0
          /\ meant = 0
rOff == model = 0 /\ stage = 0 /\ context = 0 /\ fence = 0 /\ resource = 0 /\ allocation = 0 /\ adapter = 0
        /\ vkqueue = 0 /\ executions = 0
qOff == qsetup = 0 /\ qlib = 0 /\ qhtp = 0 /\ qman = 0 /\ qbuf = 0 /\ qcall = 0
xOff == mutex = 0 /\ workspace = 0 /\ executor = 0 /\ xmemory = 0 /\ xcall = 0
mOff == mplatform = 0 /\ mstream = 0 /\ mmemory = 0 /\ mexecutor = 0 /\
          mcall = 0
aOff == asrc = 0 /\ adst = 0 /\ acopied = 0
cOff == cbuild = 0 /\ cimpl = 0 /\ cstored = 0 /\ cloose = 0 /\ cwarming =
          0 /\ cprewarmed = 0 /\ cexecutors = 0 /\ cclient = 0 /\ couts = 0
          /\ cwritten = 0 /\ ccompiles = 0 /\ clost = 0 /\ cloads = 0 /\
          ccalls = 0

Xnnpack2 == INSTANCE XnnpackDelegate WITH
  Clients <- {1, 2}, Buffers <- MCBuffers, Faults <- {"none", "reshape"}
Mps == INSTANCE MpsDelegate WITH
  Clients <- {1}, Buffers <- MpsAll, Platforms <- AllPlatforms, MaxCalls <-
  1, Feeds <- {1}, Pointers <- {"a"}, platform <- mplatform, stream <-
  mstream, memory <- mmemory, executor <- mexecutor, call <- mcall
Mps2 == INSTANCE MpsDelegate WITH
  Clients <- {1, 2}, Buffers <- MpsFew, Platforms <- FewPlatforms, MaxCalls
  <- 2, Feeds <- {1, 2}, Pointers <- {"a", "b"}, platform <- mplatform,
  stream <- mstream, memory <- mmemory, executor <- mexecutor, call <- mcall
CoreML == INSTANCE CoreMLDelegate WITH
  Clients <- {t1}, Models <- MCModels, Forms <- {"Model", "CompiledModel",
  "none"}, Builds <- {"release", "tracing"}, Logs <- MCLogs, Feeds <- {1,
  2}, Faults <- {"manager", "lookup", "model", "write", "compile", "store",
  "predict", "plan"}, MaxLoads <- 1, MaxCalls <- 2, build <- cbuild, impl <-
  cimpl, stored <- cstored, loose <- cloose, warming <- cwarming, prewarmed
  <- cprewarmed, executors <- cexecutors, client <- cclient, outs <- couts,
  written <- cwritten, compiles <- ccompiles, lost <- clost, loads <-
  cloads, calls <- ccalls, Arrays <- MCArrays, MaxRank <- 8, src <- asrc,
  dst <- adst, copied <- acopied
CoreML2 == INSTANCE CoreMLDelegate WITH
  Clients <- {t1, t2}, Models <- OneModel, Forms <- {"Model",
  "CompiledModel"}, Builds <- {"release"}, Logs <- {{}}, Feeds <- {1},
  Faults <- {"lookup", "model", "write", "compile", "store"}, MaxLoads <- 3,
  MaxCalls <- 0, build <- cbuild, impl <- cimpl, stored <- cstored, loose <-
  cloose, warming <- cwarming, prewarmed <- cprewarmed, executors <-
  cexecutors, client <- cclient, outs <- couts, written <- cwritten,
  compiles <- ccompiles, lost <- clost, loads <- cloads, calls <- ccalls, Arrays <- {},
  MaxRank <- 8, src <- asrc, dst <- adst, copied <- acopied

Init ==
  \/ which = "Vulkan" /\ VulkanInit /\ xOff /\ mOff /\ aOff /\ cOff /\ rOff /\ qOff
  \/ which = "Xnnpack" /\ XnnInit /\ vOff /\ mOff /\ aOff /\ cOff /\ rOff /\ qOff
  \/ which = "Xnnpack2" /\ Xnnpack2!XnnInit /\ vOff /\ mOff /\ aOff /\ cOff /\ rOff /\ qOff
  \/ which = "Mps" /\ Mps!Init /\ vOff /\ xOff /\ aOff /\ cOff /\ rOff /\ qOff
  \/ which = "Mps2" /\ Mps2!Init /\ vOff /\ xOff /\ aOff /\ cOff /\ rOff /\ qOff
  \/ which = "Arrays" /\ CoreML!ArraysInit /\ vOff /\ xOff /\ mOff /\ cOff /\ rOff /\ qOff
  \/ which = "CoreML" /\ CoreML!Init /\ vOff /\ xOff /\ mOff /\ aOff /\ rOff /\ qOff
  \/ which = "CoreML2" /\ CoreML2!Init /\ vOff /\ xOff /\ mOff /\ aOff /\ rOff /\ qOff
  \/ which = "Runtime" /\ RuntimeInit /\ vOff /\ xOff /\ mOff /\ aOff /\ cOff /\ qOff
  \/ which = "Qnn" /\ QnnInit /\ vOff /\ xOff /\ mOff /\ aOff /\ cOff /\ rOff

Next ==
  \/ which = "Vulkan" /\ VulkanNext /\ UNCHANGED <<which, QnnVars, RuntimeVars, XnnVars, mVars, aVars, cVars>>
  \/ which = "Xnnpack" /\ XnnNext /\ UNCHANGED <<which, QnnVars, RuntimeVars, VulkanVars, mVars, aVars, cVars>>
  \/ which = "Xnnpack2" /\ Xnnpack2!XnnNext /\ UNCHANGED <<which, QnnVars, RuntimeVars, VulkanVars, mVars, aVars, cVars>>
  \/ which = "Mps" /\ Mps!Next /\ UNCHANGED <<which, QnnVars, RuntimeVars, VulkanVars, XnnVars, aVars, cVars>>
  \/ which = "Mps2" /\ Mps2!Next /\ UNCHANGED <<which, QnnVars, RuntimeVars, VulkanVars, XnnVars, aVars, cVars>>
  \/ which = "Arrays" /\ CoreML!ArraysNext /\ UNCHANGED <<which, QnnVars, RuntimeVars, VulkanVars, XnnVars, mVars, cVars>>
  \/ which = "CoreML" /\ CoreML!Next /\ UNCHANGED <<which, QnnVars, RuntimeVars, VulkanVars, XnnVars, mVars, aVars>>
  \/ which = "CoreML2" /\ CoreML2!Next /\ UNCHANGED <<which, QnnVars, RuntimeVars, VulkanVars, XnnVars, mVars, aVars>>
  \/ which = "Runtime" /\ RuntimeNext /\ UNCHANGED <<which, QnnVars, VulkanVars, XnnVars, mVars, aVars, cVars>>
  \/ which = "Qnn" /\ QnnNext /\ UNCHANGED <<which, RuntimeVars, VulkanVars, XnnVars, mVars, aVars, cVars>>

Spec == Init /\ [][Next]_vars

-----------------------------------------------------------------------------
(* Properties *)

\* When execute returns Ok, the outputs are what the graph computes from the inputs
\* of this call: for every delegate, whatever calls, of whichever client, ran before
\* it or run beside it.  Of the Qualcomm one, whose graph runs in the QNN library:
\* the memory it is given is that of this call's arguments.
ComputesThisCall ==
  /\ which = "Vulkan" => OutputsOfThisCall
  /\ which = "Xnnpack" => OwnOutputs
  /\ which = "Xnnpack2" => Xnnpack2!OwnOutputs
  /\ which = "Mps" => Mps!ComputesThisCall
  /\ which = "Mps2" => Mps2!ComputesThisCall
  /\ which = "CoreML" => CoreML!ComputesThisCall
  /\ which = "Qnn" => DataInPlace

\* A tensor's elements are where its description says: those of the images and
\* buffers of a Vulkan graph, whose sizes follow the inputs', and those that Core ML
\* copies between arrays of any strides.
ElementsInPlace ==
  /\ which = "Vulkan" => ElementsPlaced /\ SizesFollow
  /\ which = "Arrays" => CoreML!ElementsCopied

\* Core ML compiles a model once, for all the loads of it that overlap, unless its
\* asset was dropped or could not be used, and fails to load a model only for what
\* happened during the load.
LoadsSound ==
  /\ which = "CoreML" => CoreML!CompiledOnce /\ CoreML!LoadsAgain
  /\ which = "CoreML2" => CoreML2!CompiledOnce /\ CoreML2!LoadsAgain

\* The graph a Qualcomm manager compiles is the one that was lowered, also when it
\* was serialized and rebuilt on the device in between.
GraphAsLowered == which = "Qnn" => CompilesLowered

\* What a Vulkan graph submits is what it encoded, until the GPU has done it; a thread
\* that waits for a fence will be woken, and what a graph allocated is gone, in the
\* right order, when the graph is.  The objects of the QNN library go before what they
\* were made from, and a manager that is destroyed leaves none.
DeviceObjectsHold ==
  /\ which = "Runtime" => RunsAsEncoded /\ FencesSignal /\ Reclaims
  /\ which = "Qnn" => ObjectsNested
=============================================================================
