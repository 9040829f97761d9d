------------------------------ MODULE MCLibrary ------------------------------
(***************************************************************************)
(* Instances of LibraryCalls.                                              *)
(***************************************************************************)
EXTENDS LibraryCalls

Tensor(type, sizes, order) ==
  [type |-> type, sizes |-> sizes, order |-> order, static |-> FALSE, bound |-> Product(sizes)]
Contiguous(type, sizes) == Tensor(type, sizes, contiguous_order(Len(sizes)))
Index(type, sizes, data) ==
  [type |-> type, sizes |-> sizes, order |-> contiguous_order(Len(sizes)), data |-> data]
Inst(f, os) == [family |-> f, outs |-> os]

IndexInsMC ==
  {Contiguous("Float", s) : s \in {<<>>, <<3>>, <<2, 3>>, <<2, 1, 3>>, <<0, 2>>}} \cup {Contiguous("BFloat16", <<2>>)}
IndexMasks == {Index("Bool", <<2>>, <<1, 1>>), Index("Bool", <<3>>, <<0, 1, 0>>),
          Index("Byte", <<2, 3>>, <<1, 0, 0, 0, 1, 0>>), Index("Bool", <<2, 1>>, <<0, 0>>)}
IndexesMC ==
  {Index("Long", <<>>, <<1>>), Index("Long", <<>>, <<0>>), Index("Long", <<2>>, <<0, 0>>), Index("Int", <<2>>, <<1, 0>>),
   Index("Long", <<3>>, <<0, 2, 0>>), Index("Long", <<2>>, <<-1, 0>>),
   Index("Long", <<1, 2>>, <<1, 0>>), Index("Long", <<2, 2>>, <<0, 1, 1, 1>>), Index("Long", <<0>>, <<>>),
   Index("Long", <<2, 1>>, <<1, 1>>), Index("Long", <<2, 1, 2>>, <<0, 0, 0, 0>>), Index("Long", <<2>>, <<0, 3>>)} \cup IndexMasks
SourcesMC == {Contiguous("Float", s) : s \in {<<>>, <<3>>, <<2, 2>>, <<2, 1, 2>>}}
IndexListsMC ==
  LET none == <<>>
      row == <<Index("Long", <<2>>, <<-1, 0>>)>>
      column == <<Index("Long", <<2, 1>>, <<1, 1>>)>>
      masks == {<<m>> : m \in IndexMasks}
  IN {<<>>, <<none>>, <<none, none>>, <<row>>, <<column>>, <<none, row>>, <<row, column>>, <<row, none, row>>,
      <<column, none, row>>, <<none, column, row>>, <<none, none, column>>, <<row, row, row>>,
      <<<<Index("Long", <<2>>, <<0, 3>>)>>>>, <<<<Index("Int", <<>>, <<0>>)>>, none, column>>}
     \cup {<<m>> : m \in masks} \cup {<<none, m>> : m \in masks} \cup {<<m, row>> : m \in masks}
     \cup {<<m, none, row>> : m \in masks}
IndexDimsMC == {-1, 0, 1, 2}
IndexInsts ==
  {Inst("index", <<Contiguous("Float", s)>>) : s \in {<<>>, <<3>>, <<2, 3>>, <<2, 2, 3>>}}
  \cup {Inst("index", <<Contiguous("BFloat16", <<2>>)>>), Inst("index", <<Contiguous("Long", <<3, 2>>)>>)}

F(s) == Contiguous("Float", s)
ChannelsLast(type, sizes) == Tensor(type, sizes, <<0, 2, 3, 1>>)
MatricesMC == {F(s) : s \in {<<1, 2>>, <<2, 3>>, <<3, 2>>, <<2, 2>>, <<2>>, <<>>, <<2, 1, 2>>, <<2, 2, 3>>, <<0, 2>>}}
  \cup {Contiguous("Half", <<2, 2>>), Contiguous("Bool", <<2, 2>>)}
VectorsMC == {<<>>, <<F(<<2>>)>>, <<F(<<4>>)>>, <<Contiguous("Half", <<2>>)>>}
ConvInsMC == {F(<<1, 2, 3>>), F(<<1, 2, 3, 2>>), F(<<1, 4, 1, 2>>), F(<<2, 2, 2, 1>>), F(<<1, 2, 1, 1>>),
              ChannelsLast("Float", <<1, 2, 2, 2>>), F(<<1, 2, 2>>)}
ConvWeightsMC == {F(<<2, 2, 2>>), F(<<2, 1, 2, 2>>), F(<<4, 1, 2, 1>>), ChannelsLast("Float", <<2, 2, 2, 1>>)}
ConvArgsMC ==
  LET A(s, p, d, t, op, g) ==
        [stride |-> s, padding |-> p, dilation |-> d, transposed |-> t, output_padding |-> op, groups |-> g]
  IN {A(<<1>>, <<0>>, <<1>>, t, <<0>>, g) : t \in BOOLEAN, g \in {1, 2}}
     \cup {A(<<2, 1>>, <<1, 0>>, <<1>>, t, <<0>>, g) : t \in BOOLEAN, g \in {1, 2}}
     \cup {A(<<1>>, <<1>>, <<1, 2>>, t, <<0>>, 1) : t \in BOOLEAN} \cup {A(<<2>>, <<0>>, <<1>>, TRUE, <<1>>, 1)}
     \cup {A(<<2>>, <<1>>, <<2>>, t, <<1>>, 2) : t \in BOOLEAN}
PoolInsMC == {F(<<1, 3, 2>>), F(<<2, 1, 2, 3>>), F(<<0, 2, 2, 2>>), ChannelsLast("Float", <<1, 2, 2, 2>>), F(<<2, 2>>)}
PoolArgsMC ==
  [k : {<<2>>, <<2, 3>>}, s : {<<>>, <<2, 1>>}, p : {<<0>>, <<1, 0>>}, d : {<<1>>, <<2, 1>>},
   ceil : BOOLEAN, pad : BOOLEAN, divisor : {<<>>}]
  \cup [k : {<<3>>}, s : {<<2>>, <<3>>}, p : {<<1>>, <<2>>}, d : {<<1>>}, ceil : BOOLEAN, pad : {FALSE}, divisor : {<<>>, <<0>>}]
NormInsMC == {F(<<2, 2>>), F(<<1, 4, 1>>), F(<<2, 2, 2>>), F(<<0, 2>>), F(<<2, 0>>), F(<<2>>), F(<<>>), ChannelsLast("Float", <<1, 2, 1, 2>>)}
NormShapesMC == {<<>>, <<2>>, <<2, 2>>, <<4, 1>>, <<2, 2, 1>>, <<1, 4, 1>>, <<2, 2, 2>>, <<0>>, <<2, 0, 0>>}
TablesMC == {F(<<3, 2>>), F(<<1, 1>>), F(<<2>>)}
RowsMC == {Index("Long", <<>>, <<1>>), Index("Int", <<2>>, <<2, 0>>), Index("Long", <<2>>, <<0, 3>>), Index("Long", <<1, 2>>, <<0, 0>>),
           Index("Short", <<1>>, <<0>>), Index("Long", <<0>>, <<>>)}
NeuralInsts ==
  {Inst("matmul", <<F(s)>>) : s \in {<<2, 3>>, <<3, 3>>, <<2, 2, 3>>}}
  \cup {Inst("matmul", <<Contiguous("Half", <<2, 2>>)>>),
        Inst("matmul", <<Contiguous("Bool", <<2, 2>>)>>), Inst("scratch", <<F(<<2, 2>>), F(<<2, 2>>)>>)}
  \cup {Inst("conv", <<t>>) : t \in {F(<<1, 2, 4>>), F(<<1, 4, 2, 2>>), ChannelsLast("Float", <<1, 2, 2, 3>>)}}
  \cup {Inst("conv_backward", <<F(<<1, 4, 3, 3>>), F(<<4, 2, 2, 2>>), F(<<4>>)>>)}
  \cup {Inst("pool", <<F(s)>>) : s \in {<<1, 3, 4>>, <<2, 1, 3, 4>>}}
  \cup {Inst("pool_indices", <<t, Contiguous("Long", t.sizes)>>) : t \in {F(<<1, 3, 4>>), ChannelsLast("Float", <<2, 2, 3, 4>>)}}
  \cup {Inst("norm", <<F(s), F(s), F(s)>>) : s \in {<<2, 2>>, <<2, 4, 2>>, <<1>>}}
  \cup {Inst("norm", <<F(<<2, 4, 2>>), F(<<2, 2>>), F(<<2, 2>>)>>), Inst("norm", <<F(<<2, 2>>), F(<<2>>), F(<<2>>)>>)}
  \cup {Inst("embedding", <<F(s)>>) : s \in {<<2>>, <<2, 2>>, <<1, 2, 2>>}}

-----------------------------------------------------------------------------
OperandsMC ==
  {F(s) : s \in {<<>>, <<1>>, <<3>>, <<2, 3>>, <<1, 3>>, <<3, 1>>, <<3, 3>>, <<1, 2, 3>>, <<0, 3>>}}
  \cup {Contiguous("Half", <<2, 3>>), Contiguous("Long", <<3>>), Contiguous("Bool", <<>>), Contiguous("BFloat16", <<3>>)}
ScalarArgsMC == {"Long", "Double"}
FactorsMC == {F(s) : s \in {<<1, 2>>, <<2, 3>>, <<3, 2>>, <<2>>, <<2, 1, 2>>, <<2, 2, 3>>, <<2, 3, 1>>, <<2, 0>>, <<0, 2>>, <<2, 2, 0>>, <<2, 0, 1>>}}
  \cup {Contiguous("Half", <<2, 2>>), Contiguous("Bool", <<2, 2>>)}
GemmCallsMC == [ta : BOOLEAN, tb : BOOLEAN, m : 1..3, n : 1..3, k : 1..6, pad : 0..1]
SoftmaxInsMC == {F(s) : s \in {<<>>, <<3>>, <<2, 3>>, <<2, 2, 2>>, <<2, 0>>}} \cup {Contiguous("Double", <<3>>)}
NormalizedInsMC == {F(s) : s \in {<<1, 1>>, <<2, 3>>, <<2, 5>>, <<1, 12>>, <<2, 17>>, <<1, 23>>, <<0, 3>>, <<2, 0>>, <<1, 2, 3>>}}
NormalizedShapesMC == {<<>>, <<0>>, <<1>>, <<3>>, <<5>>, <<12>>, <<17>>, <<23>>, <<2, 3>>}
AffineMC == {<<>>, <<F(<<3>>)>>, <<F(<<17>>)>>}
OptimizedInstsMC ==
  {Inst("optimized", <<t>>) : t \in {F(<<>>), F(<<3>>), F(<<3, 3>>), F(<<1, 3, 3>>), Contiguous("Half", <<2, 3>>), Contiguous("Long", <<3>>), Contiguous("Bool", <<3>>)}}
  \cup {Inst("opt_products", <<t>>) : t \in {F(<<3, 3>>), F(<<2, 3, 3>>), Contiguous("Half", <<2, 2>>), F(<<3>>), Contiguous("Bool", <<2, 2>>), F(<<>>)}}
  \cup {Inst("opt_norm", <<F(<<2, 20>>), F(<<2, 1>>), F(<<2, 1>>)>>), Inst("opt_norm", <<F(<<36, 1>>), F(<<2, 1>>), F(<<2, 1>>)>>),
        Inst("opt_norm", <<F(<<1, 2, 3>>), F(<<1, 2, 1>>), F(<<1, 2, 1>>)>>)}

Data(type, sizes, data) == [type |-> type, sizes |-> sizes, order |-> contiguous_order(Len(sizes)), static |-> FALSE,
                            bound |-> Product(sizes), data |-> data]
QTablesMC == {Contiguous("Byte", <<3, 2>>), Contiguous("Char", <<2, 4>>), Contiguous("Byte", <<2, 4>>)}
TableScalesMC == {F(<<3>>), F(<<3, 2>>), F(<<2>>), F(<<2, 1>>), F(<<2, 4>>), Contiguous("Half", <<2, 2>>), F(<<3, 3>>)}
TableIndicesMC == {Data("Long", <<2>>, <<1, 0>>), Data("Long", <<3>>, <<2, 0, 2>>), Data("Long", <<1, 2>>, <<1, 1>>),
                   Data("Int", <<2>>, <<1, 0>>)}
WeightsMC == {Contiguous("Char", s) : s \in {<<2, 3>>, <<3, 2>>, <<2, 4>>, <<4, 1>>, <<2, 0>>}} \cup {Contiguous("Byte", <<2, 3>>)}
WeightScalesMC == {F(s) : s \in {<<2>>, <<2, 1>>, <<2, 2>>, <<3>>, <<2, 3>>, <<4>>, <<2, 4>>}} \cup {Contiguous("Half", <<2>>)}
FloatInsMC == {F(s) : s \in {<<3>>, <<1, 3>>, <<2, 3>>, <<2, 4>>, <<1, 2, 3>>, <<3, 1, 2>>, <<2, 0>>}}
                \cup {Contiguous("Half", <<2, 3>>), Contiguous("Long", <<3>>)}
QuantInsMC == {Contiguous("Char", s) : s \in {<<>>, <<3>>, <<2, 3>>, <<2, 2, 3>>, <<3, 1, 2>>, <<3, 0>>}} \cup {Contiguous("Byte", <<2, 3>>), Contiguous("Long", <<3>>)}
ChannelScalesMC == {Contiguous("Double", <<n>>) : n \in 1..4} \cup {F(<<3>>), Contiguous("Half", <<2>>)}
ChannelZerosMC == {Contiguous("Long", <<n>>) : n \in 1..4} \cup {Contiguous("Int", <<3>>)}
SamplesMC == {Data("Float", <<2, 2>>, <<a, b, 3, -7>>) : a, b \in -2..3} \cup {Data("Float", <<2>>, <<a, b>>) : a, b \in -5..5}
             \cup {Data("Half", <<2>>, <<1, 0>>)}
QuantRangesMC == {<<0, 255>>, <<-128, 127>>, <<3, -3>>, <<0, 7>>}
QuantInstsMC ==
  {Inst("quant_embedding", <<t>>) : t \in {F(<<3, 16>>), Contiguous("Half", <<2, 16>>), F(<<1, 2, 16>>), F(<<2, 3>>)}}
  \cup {Inst("mixed", <<t>>) : t \in {F(<<2, 4>>), Contiguous("Half", <<2, 3>>), F(<<2>>)}}
  \cup {Inst("quantize", <<t>>) : t \in {Contiguous("Char", <<2, 4>>), Contiguous("Byte", <<3, 2, 3>>), Contiguous("Short", <<3>>), Contiguous("Long", <<2, 3>>)}}
  \cup {Inst("dequantize", <<t>>) : t \in {F(<<2, 3>>), Contiguous("Double", <<3, 2, 3>>), F(<<3>>), Contiguous("Half", <<2, 3>>), Contiguous("Char", <<2, 3>>)}}
  \cup {Inst("choose", <<Contiguous("Double", <<1>>), Contiguous("Long", <<1>>)>>), Inst("choose", <<Contiguous("Double", <<2, 1>>), Contiguous("Long", <<2, 1>>)>>),
        Inst("choose", <<Contiguous("Double", <<2, 1>>), Contiguous("Long", <<1, 1>>)>>)}
SignalsMC == {Contiguous("Char", s) : s \in {<<1, 2, 3, 4>>, <<2, 1, 3, 3>>, <<1, 2, 4>>}}
FiltersMC == {Contiguous("Char", s) : s \in {<<2, 1, 2, 2>>, <<2, 2, 1, 2>>, <<1, 1, 3, 2>>, <<2, 1, 2>>, <<2, 2, 3>>}}
BatchesMC == {Contiguous("Char", s) : s \in {<<2, 3>>, <<3, 2>>, <<3>>, <<2, 3, 1>>, <<2, 1, 3>>, <<2, 2, 3>>, <<2, 3, 2>>}}
QRowsMC == {Data(ty, s, d) : ty \in {"Byte", "Char"}, s \in {<<1, 3>>, <<3>>}, d \in [1..3 -> 0..3]}
            \cup {Data(ty, <<3>>, <<1, 2, 3>>) : ty \in {"Float", "Short", "Int", "Long"}} \cup {Data("Byte", <<2, 2>>, <<0, 1, 2, 3>>)}
CadenceInstsMC ==
  {Inst("cadence_conv", <<Contiguous("Char", s)>>) :
     s \in {<<1, 2, h, v>> : h \in 1..4, v \in 1..4} \cup {<<2, 1, h, v>> : h \in 1..3, v \in 1..3} \cup {<<1, 2, v>> : v \in 1..5}}
  \cup {Inst("cadence_conv", <<Contiguous("Int", <<1, 2, 3>>)>>)}
  \cup {Inst("cadence_products", <<Contiguous("Byte", s)>>) : s \in {<<2, 2>>, <<3, 3>>, <<2>>, <<2, 1, 1>>, <<2, 3, 3>>, <<2, 2, 2>>}}
  \cup {Inst("cadence_rows", <<Contiguous(ty, s)>>) : ty \in {"Byte", "Char", "Float", "Short", "Int"}, s \in {<<3>>, <<1, 3>>, <<2, 2>>}}
QueriesMC == {F(<<2, 3, 2, 1>>), F(<<1, 5, 2, 1>>), F(<<1, 1, 4, 2>>), Contiguous("Half", <<1, 2, 2, 2>>), F(<<2, 2, 2>>)}
CachesMC == {F(<<2, 6, 1, 1>>), F(<<1, 8, 2, 1>>), F(<<1, 4, 2, 2>>), F(<<2, 3, 2, 1>>), Contiguous("Int", <<1, 6, 4, 2>>), Contiguous("Long", <<1, 6, 2, 2>>)}
MasksMC == {<<>>, <<F(<<2, 5>>)>>}
ImagesMC == {F(s) : s \in {<<2, 4, 6>>, <<1, 2, 2>>, <<1, 3, 3>>, <<2, 4>>, <<1, 8>>, <<3, 2>>, <<1, 0>>, <<5>>, <<8>>, <<1>>, <<>>}} \cup {Contiguous("Long", <<2>>)}
AttentionInstsMC ==
  {Inst("attention", <<t>>) : t \in {F(<<2, 5, 2, 1>>), F(<<1, 3, 2, 1>>), F(<<2, 2>>)}}
  \cup {Inst("images", <<t>>) : t \in {F(<<6, 2, 2, 2>>), F(<<1, 1, 3, 3>>), F(<<2, 2, 4, 6>>), F(<<2, 6>>), F(<<8>>), F(<<1, 2, 4>>), F(<<>>), Contiguous("Long", <<2>>)}}
InstructionsMC == IndexInsts \cup NeuralInsts \cup OptimizedInstsMC \cup QuantInstsMC \cup CadenceInstsMC \cup AttentionInstsMC
=============================================================================
