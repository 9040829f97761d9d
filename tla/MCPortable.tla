----------------------------- MODULE MCPortable -----------------------------
(***************************************************************************)
(* Instances of PortableCalls: operands whose types vary and whose shape   *)
(* is one element, and float operands whose shapes vary.                   *)
(***************************************************************************)
EXTENDS PortableCalls

Tensor(type, sizes, order) ==
  [type |-> type, sizes |-> sizes, order |-> order, static |-> FALSE, bound |-> Product(sizes)]
Contiguous(type, sizes) == Tensor(type, sizes, contiguous_order(Len(sizes)))
ChannelsLast(sizes) == Tensor("Float", sizes, <<0, 2, 3, 1>>)
Inst(f, os) == [family |-> f, outs |-> os]
Static(t) == [t EXCEPT !.static = TRUE]

Types == {"Bool", "Byte", "Long", "Half", "BFloat16", "Float", "Double", "ComplexFloat"}
Typed == {Contiguous(t, <<1>>) : t \in Types}

(* Scalar, empty, unit and larger sizes, up to three dimensions.           *)
ShapesMC == {<<>>, <<1>>, <<2>>, <<0>>, <<2, 2>>, <<1, 3>>, <<2, 1>>, <<2, 1, 2>>, <<1, 0, 2>>}
Shaped == {Contiguous("Float", s) : s \in ShapesMC}
LastTensors == {ChannelsLast(<<1, 2, 2, 2>>)}

InsMC == Typed \cup Shaped \cup LastTensors


Masks == {Contiguous("Bool", s) : s \in {<<1>>, <<2, 1>>, <<2, 1, 2>>}}
PairsMC ==
  (Typed \X Typed) \cup (Shaped \X Shaped) \cup (LastTensors \X LastTensors) \cup (Shaped \X Masks)
TriplesMC ==
  LET few == {Contiguous("Float", s) : s \in {<<>>, <<2>>, <<2, 1>>, <<2, 1, 2>>}}
      types == {Contiguous(t, <<1>>) : t \in {"Bool", "Byte", "Half", "Float"}}
  IN (few \X few \X few) \cup (types \X types \X types) \cup (few \X Masks \X few)

(* Outputs as planned: an upper-bound shape of every rank, one of each     *)
(* type, and two whose shape cannot change.                                *)
ElementwiseInsts == {[family |-> "elementwise", outs |-> <<t>>] : t \in
  Typed \cup {Contiguous("Float", s) : s \in {<<>>, <<3>>, <<2, 3>>, <<2, 2, 2>>}}
  \cup {Static(Contiguous("Float", <<2, 2>>))} \cup LastTensors}


ScalarsMC == {"Bool", "Long", "Double"}
EndsMC == {-2, 0, 1, 3}

-----------------------------------------------------------------------------
ReduceInsMC ==
  {Contiguous("Float", s) : s \in {<<>>, <<1>>, <<3>>, <<0>>, <<2, 3>>, <<0, 2>>, <<2, 0>>,
                                   <<2, 3, 2>>, <<2, 1, 2, 2>>}}
  \cup {Contiguous(t, <<2, 2>>) : t \in {"Bool", "Long", "Half", "BFloat16"}}
DimListsMC == {<<>>, <<0>>, <<-1>>, <<1>>, <<0, 1>>, <<1, 0>>, <<0, 2>>, <<-1, 1>>, <<0, -3>>,
               <<0, 1, 2>>, <<1, 3>>, <<0, 3>>, <<5>>}
ReduceDimsMC == {-2, -1, 0, 1, 2, 4}
DtypesMC == {"None", "Float", "Long"}
ReduceInsts ==
  {Inst("reduce", <<Contiguous("Float", s)>>) :
     s \in {<<>>, <<3>>, <<2, 3>>, <<2, 3, 2>>, <<2, 1, 2, 2>>}}
  \cup {Inst("reduce", <<Contiguous(t, s)>>) : t \in {"Bool", "Long", "Half"}, s \in {<<>>, <<2>>, <<2, 2>>}}
  \cup {Inst("reduce_pair", <<Contiguous("Float", s), Contiguous("Long", s)>>) :
          s \in {<<>>, <<3>>, <<2, 3>>, <<2, 3, 2>>}}

ShapeInsMC ==
  {Contiguous("Float", s) : s \in {<<>>, <<3>>, <<2, 3>>, <<0, 2>>, <<1, 3, 2>>, <<4, 1, 2>>, <<1, 1, 2, 2>>}}
  \cup {Contiguous("Half", <<2, 3>>), Contiguous("BFloat16", <<2>>)}
ShapeListsMC ==
  LET F(s) == Contiguous("Float", s)
  IN {<<F(<<2, 3>>), F(<<2, 3>>)>>, <<F(<<2, 3>>), F(<<1, 3>>)>>, <<F(<<2, 3>>), F(<<3>>)>>, <<F(<<2, 2>>), F(<<2, 1>>)>>,
      <<F(<<2>>), F(<<0>>), F(<<1>>)>>, <<F(<<0, 2>>), F(<<0>>)>>, <<F(<<2, 2, 2>>), F(<<1, 1, 2>>)>>, <<>>,
      <<F(<<2, 3>>), F(<<2, 2>>)>>, <<F(<<1, 2>>), F(<<3, 2>>), F(<<2, 2>>)>>,
      <<F(<<2>>), Contiguous("Half", <<2>>)>>, <<Contiguous("Half", <<2>>), Contiguous("Half", <<2>>)>>}
IntsMC == {-3, -1, 0, 1, 2}
BoundsMC == {<<>>, <<-2>>, <<1>>, <<5>>}
StepsMC == {0, 1, 2}
IntListsMC == {<<>>, <<0>>, <<-1>>, <<1>>, <<3>>, <<1, 0>>, <<-1, 0>>, <<2, 1>>, <<2, 3>>, <<0, 2, 1>>, <<2, 0, 1>>, <<-1, 1, 2>>,
               <<2, 1, 3>>, <<1, 1>>}
PadListsMC == {<<>>, <<1, 0>>, <<1, 1>>, <<-1, 1>>, <<1, 0, 0, 1>>, <<0, 1, 2, 0, 0, 0>>, <<0, 0, 1, 0, 0, 0>>, <<0, 0, 1, 1>>}
ShapeInsts ==
  {Inst(f, <<Contiguous("Float", s)>>) : f \in {"shape", "slice"}, s \in {<<6>>, <<3, 6>>, <<2, 3, 4>>, <<1, 2, 4, 4>>}}
  \cup {Inst(f, <<Contiguous("Half", s)>>) : f \in {"shape", "slice"}, s \in {<<3>>, <<2, 4>>}}
  \cup {Inst("split", <<Contiguous("Float", s), Contiguous("Float", s)>>) : s \in {<<3>>, <<1, 3>>, <<2, 1>>, <<2, 2>>}}
  \cup {Inst("split", <<Contiguous("Float", <<2, 1>>), Contiguous("Float", <<2, 2>>)>>),
        Inst("split", <<Contiguous("Float", <<2, 2>>), Contiguous("Float", <<2, 1>>)>>)}

InstructionsMC == ElementwiseInsts \cup ReduceInsts \cup ShapeInsts
=============================================================================
