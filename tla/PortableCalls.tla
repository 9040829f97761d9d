---------------------------- MODULE PortableCalls -----------------------------
(***************************************************************************)
(* Calls of the portable kernels: the elementwise ones on one output       *)
(* tensor, the reductions, and the kernels that move elements.             *)
(***************************************************************************)
EXTENDS KernelCalls, ElementwiseKernels, ShapeKernels, SequencesExt

(* Calls of the elementwise kernels on one output tensor.                  *)

CONSTANTS
  Ins,       \* input tensors of the kernels on one tensor
  Pairs,     \* pairs of input tensors
  Triples,   \* triples of input tensors
  Scalars,   \* types of scalar arguments
  Shapes,    \* sizes given to the kernels that create a tensor
  Ends       \* integers given to arange

(* A kernel that takes nothing but its input and its output.               *)
Unary(op, kernel(_, _)) ==
  \E a \in Ins : Call(op, <<a>>, <<>>, LAMBDA o : kernel(a, o))

WithScalar(op, kernel(_, _, _)) ==
  \E a \in Ins, s \in Scalars : Call(op, <<a>>, <<s>>, LAMBDA o : kernel(a, s, o))

WithScalars(op, kernel(_, _, _, _)) ==
  \E a \in Ins, s, alpha \in Scalars : Call(op, <<a>>, <<s, alpha>>, LAMBDA o : kernel(a, s, alpha, o))

Binary(op, kernel(_, _, _)) ==
  \E p \in Pairs : Call(op, p, <<>>, LAMBDA o : kernel(p[1], p[2], o))

Formats == {"None", "Contiguous", "Preserve"}

Ufuncs ==
  \/ Unary("acos_out", acos_out)
  \/ Unary("acosh_out", acosh_out)
  \/ Unary("asin_out", asin_out)
  \/ Unary("asinh_out", asinh_out)
  \/ Unary("atan_out", atan_out)
  \/ Unary("atanh_out", atanh_out)
  \/ Unary("cos_out", cos_out)
  \/ Unary("cosh_out", cosh_out)
  \/ Unary("erf_out", erf_out)
  \/ Unary("exp_out", exp_out)
  \/ Unary("expm1_out", expm1_out)
  \/ Unary("log_out", log_out)
  \/ Unary("log10_out", log10_out)
  \/ Unary("log1p_out", log1p_out)
  \/ Unary("log2_out", log2_out)
  \/ Unary("reciprocal_out", reciprocal_out)
  \/ Unary("rsqrt_out", rsqrt_out)
  \/ Unary("sin_out", sin_out)
  \/ Unary("sinh_out", sinh_out)
  \/ Unary("sqrt_out", sqrt_out)
  \/ Unary("tan_out", tan_out)
  \/ Unary("tanh_out", tanh_out)

Unaries ==
  \/ Unary("ceil_out", ceil_out)
  \/ Unary("floor_out", floor_out)
  \/ Unary("trunc_out", trunc_out)
  \/ Unary("isinf_out", isinf_out)
  \/ Unary("isnan_out", isnan_out)
  \/ Unary("abs_out", abs_out)
  \/ Unary("neg_out", neg_out)
  \/ Unary("relu_out", relu_out)
  \/ Unary("round_out", round_out)
  \/ Unary("sign_out", sign_out)
  \/ Unary("bitwise_not_out", bitwise_not_out)
  \/ Unary("logical_not_out", logical_not_out)
  \/ Unary("logit_out", logit_out)
  \/ Unary("sigmoid_out", sigmoid_out)
  \/ \E a \in Ins, m \in {"tanh", "none", "other"} :
       Call("gelu_out", <<a>>, <<>>, LAMBDA o : gelu_out(a, m, o))
  \/ WithScalars("hardtanh_out", hardtanh_out)
  \/ WithScalar("leaky_relu_out", leaky_relu_out)

Copies ==
  \/ Unary("alias_copy_out", alias_copy_out)
  \/ Unary("detach_copy_out", detach_copy_out)
  \/ Unary("lift_fresh_copy_out", lift_fresh_copy_out)
  \/ \E a \in Ins, f \in Formats : Call("clone_out", <<a>>, <<>>, LAMBDA o : clone_out(a, f, o))
  \/ \E a \in Ins, nb \in BOOLEAN, f \in Formats :
       Call("to_copy_out", <<a>>, <<>>, LAMBDA o : to_copy_out(a, nb, f, o))
  \/ \E p \in Pairs, nb \in BOOLEAN :
       Call("copy_out", p, <<>>, LAMBDA o : copy_out(p[1], p[2], nb, o))
  \/ \E b \in Ins, nb \in BOOLEAN :
       Call("copy_", <<out, b>>, <<>>, LAMBDA o : copy_(o, b, nb))
  \/ WithScalar("fill_scalar_out", fill_scalar_out)
  \/ Binary("fill_tensor_out", fill_tensor_out)

(* Arithmetic: the output must be able to hold the promoted type.          *)
Additive ==
  \/ \E p \in Pairs, s \in Scalars : Call("add_out", p, <<>>, LAMBDA o : add_out(p[1], p[2], s, o))
  \/ \E p \in Pairs, s \in Scalars : Call("sub_out", p, <<>>, LAMBDA o : sub_out(p[1], p[2], s, o))
  \/ WithScalars("add_scalar_out", add_scalar_out)
  \/ WithScalars("sub_scalar_out", sub_scalar_out)
  \/ WithScalars("rsub_scalar_out", rsub_scalar_out)
  \/ Binary("mul_out", mul_out)
  \/ WithScalar("mul_scalar_out", mul_scalar_out)
  \/ Binary("maximum_out", maximum_out)
  \/ Binary("minimum_out", minimum_out)
  \/ Binary("atan2_out", atan2_out)
  \/ Binary("pow_Tensor_Tensor_out", pow_Tensor_Tensor_out)
  \/ WithScalar("pow_Tensor_Scalar_out", pow_Tensor_Scalar_out)
  \/ \E b \in Ins, s \in Scalars :
       Call("pow_Scalar_out", <<b>>, <<s>>, LAMBDA o : pow_Scalar_out(s, b, o))

Modes == {"None", "trunc", "floor", "other"}

Divisions ==
  \/ Binary("div_out", div_out)
  \/ \E p \in Pairs, m \in Modes, z \in BOOLEAN :
       Call("div_out_mode", p, <<>>, LAMBDA o : div_out_mode(p[1], p[2], m, z, o))
  \/ WithScalar("div_scalar_out", div_scalar_out)
  \/ \E a \in Ins, s \in Scalars, m \in Modes, z \in BOOLEAN :
       Call("div_scalar_mode_out", <<a>>, <<s>>, LAMBDA o : div_scalar_mode_out(a, s, m, z, o))
  \/ \E p \in Pairs, z \in BOOLEAN :
       Call("floor_divide_out", p, <<>>, LAMBDA o : floor_divide_out(p[1], p[2], z, o))
  \/ \E p \in Pairs, z \in BOOLEAN :
       Call("fmod_Tensor_out", p, <<>>, LAMBDA o : fmod_Tensor_out(p[1], p[2], z, o))
  \/ \E a \in Ins, s \in Scalars, z \in BOOLEAN :
       Call("fmod_Scalar_out", <<a>>, <<s>>, LAMBDA o : fmod_Scalar_out(a, s, z, o))
  \/ \E p \in Pairs, z \in BOOLEAN :
       Call("remainder_Tensor_out", p, <<>>, LAMBDA o : remainder_Tensor_out(p[1], p[2], z, o))
  \/ \E a \in Ins, s \in Scalars, z \in BOOLEAN :
       Call("remainder_Scalar_out", <<a>>, <<s>>, LAMBDA o : remainder_Scalar_out(a, s, z, o))

Bitwise ==
  \/ Binary("bitwise_and_Tensor_out", bitwise_and_Tensor_out)
  \/ Binary("bitwise_or_Tensor_out", bitwise_or_Tensor_out)
  \/ Binary("bitwise_xor_Tensor_out", bitwise_xor_Tensor_out)
  \/ WithScalar("bitwise_and_Scalar_out", bitwise_and_Scalar_out)
  \/ WithScalar("bitwise_or_Scalar_out", bitwise_or_Scalar_out)
  \/ WithScalar("bitwise_xor_Scalar_out", bitwise_xor_Scalar_out)

Comparisons ==
  \/ Binary("eq_tensor_out", eq_tensor_out)
  \/ Binary("ne_tensor_out", ne_tensor_out)
  \/ Binary("ge_tensor_out", ge_tensor_out)
  \/ Binary("gt_tensor_out", gt_tensor_out)
  \/ Binary("le_tensor_out", le_tensor_out)
  \/ Binary("lt_tensor_out", lt_tensor_out)
  \/ WithScalar("eq_scalar_out", eq_scalar_out)
  \/ WithScalar("ne_scalar_out", ne_scalar_out)
  \/ WithScalar("ge_scalar_out", ge_scalar_out)
  \/ WithScalar("gt_scalar_out", gt_scalar_out)
  \/ WithScalar("le_scalar_out", le_scalar_out)
  \/ WithScalar("lt_scalar_out", lt_scalar_out)
  \/ Binary("logical_and_out", logical_and_out)
  \/ Binary("logical_or_out", logical_or_out)
  \/ Binary("logical_xor_out", logical_xor_out)

ScalarBounds == Scalars \cup {"None"}

Selections ==
  \/ \E a \in Ins, lo, hi \in ScalarBounds :
       Call("clamp_out", <<a>>, <<lo, hi>>, LAMBDA o : clamp_out(a, lo, hi, o))
  \/ \E p \in Pairs :
       Call("clamp_tensor_out", <<p[1], p[1], p[2]>>, <<>>, LAMBDA o : clamp_tensor_out(p[1], <<>>, <<p[2]>>, o))
  \/ \E t \in Triples :
       Call("clamp_tensor_out", t, <<>>, LAMBDA o : clamp_tensor_out(t[1], <<t[2]>>, <<t[3]>>, o))
  \/ \E t \in Triples : Call("where_out", <<t[2], t[3], t[1]>>, <<>>, LAMBDA o : where_out(t[1], t[2], t[3], o))
  \/ \E p \in Pairs, s \in Scalars :
       Call("masked_fill_scalar_out", p, <<>>, LAMBDA o : masked_fill_scalar_out(p[1], p[2], s, o))
  \/ \E t \in Triples : \E set \in {{}, Positions(t[2]), {n \in Positions(t[2]) : n % 2 = 0}} :
       Call("masked_scatter_out", t, <<>>, LAMBDA o : masked_scatter_out(t[1], t[2], set, t[3], o))
  \/ Binary("allclose_out", allclose_out)

Creations ==
  \/ \E n \in Shapes, s \in Scalars : Call("full_out", <<>>, <<n>>, LAMBDA o : full_out(n, s, o))
  \/ \E a \in Ins, s \in Scalars, f \in Formats :
       Call("full_like_out", <<a>>, <<>>, LAMBDA o : full_like_out(a, s, f, o))
  \/ \E n \in Shapes : Call("ones_out", <<>>, <<n>>, LAMBDA o : ones_out(n, o))
  \/ \E n \in Shapes : Call("zeros_out", <<>>, <<n>>, LAMBDA o : zeros_out(n, o))
  \/ \E n \in Shapes, f \in Formats : Call("empty_out", <<>>, <<n>>, LAMBDA o : empty_out(n, f, o))
  \/ \E s \in Scalars : Call("scalar_tensor_out", <<>>, << <<>> >>, LAMBDA o : scalar_tensor_out(s, o))
  \/ \E e \in Ends : Call("arange_out", <<>>, <<0, e, 1>>, LAMBDA o : arange_out(e, o))
  \/ \E s, e, t \in Ends :
       Call("arange_start_out", <<>>, <<s, e, t>>, LAMBDA o : arange_start_out(s, e, t, o))

ElementwiseNext ==
  /\ Idle("elementwise")
  /\ \/ Ufuncs \/ Unaries \/ Copies \/ Additive \/ Divisions \/ Bitwise
     \/ Comparisons \/ Selections \/ Creations

-----------------------------------------------------------------------------
Elementwise == Ok /\ planned.family = "elementwise"

Creators == {"full_out", "ones_out", "zeros_out", "empty_out", "scalar_tensor_out",
             "arange_out", "arange_start_out"}

(* Kernels whose result is a truth value, and kernels that convert to the  *)
(* type of the output by definition.                                       *)
Tests == {"isinf_out", "isnan_out", "logical_not_out", "logical_and_out", "logical_or_out",
          "logical_xor_out", "allclose_out"}
         \cup {"eq_tensor_out", "ne_tensor_out", "ge_tensor_out", "gt_tensor_out",
               "le_tensor_out", "lt_tensor_out", "eq_scalar_out", "ne_scalar_out",
               "ge_scalar_out", "gt_scalar_out", "le_scalar_out", "lt_scalar_out"}
Casts == {"to_copy_out", "copy_out", "copy_", "fill_scalar_out", "fill_tensor_out",
          "hardtanh_out", "full_like_out"}

Kind(t) ==
  CASE t = "Bool" -> 0
    [] t \in IntTypes -> 1
    [] t \in FLOATHBF16 -> 2
    [] OTHER -> 3

(* Operands that decide the result type: all but the condition of where    *)
(* and the multipliers of add and sub.                                     *)
Operands ==
  {call.ins[k].type : k \in DOMAIN call.ins \cap (IF call.op = "where_out" THEN 1..2 ELSE 1..3)}
  \cup {call.args[k] : k \in DOMAIN call.args \cap
          (IF call.op \in {"add_scalar_out", "sub_scalar_out", "rsub_scalar_out"} THEN {1} ELSE 1..2)}

(* NoNarrowing: a successful arithmetic kernel never stores a floating     *)
(* result in an integer tensor, or an integer one in a Bool tensor: the    *)
(* kind of the output is at least that of every operand (promoteTypes,     *)
(* promote_type_with_scalar and canCast in every kernel).                  *)
NoNarrowing ==
  Elementwise /\ call.op \notin Creators \cup Tests \cup Casts =>
    \A t \in Operands \ {"None"} : Kind(t) <= Kind(out.type)

(* The sizes a set of shapes broadcast to: aligned at the end, the one     *)
(* size other than 1 at every place.                                       *)
BroadcastShape(shapes) ==
  LET n == Max({Len(s) : s \in shapes})
      at(s, i) == IF i > n - Len(s) THEN s[i - (n - Len(s))] ELSE 1
  IN [i \in 1..n |->
        LET big == {at(s, i) : s \in shapes} \ {1} IN IF big = {} THEN 1 ELSE CHOOSE x \in big : TRUE]

StepCount(start, end, step) ==
  Cardinality({k \in 0..16 : IF step > 0 THEN start + k * step < end ELSE start + k * step > end})

(* ResultShape: a successful call has given the output the broadcast of    *)
(* the shapes of all inputs (the requested sizes, for the kernels that     *)
(* create a tensor) and has written each of its elements once              *)
(* (resize_to_broadcast_target_size and the loops of elementwise_util.h).  *)
ResultShape ==
  Elementwise =>
    /\ out.sizes =
         CASE call.op \in {"arange_out", "arange_start_out"} ->
                <<StepCount(call.args[1], call.args[2], call.args[3])>>
           [] call.op \in Creators \ {"arange_out", "arange_start_out"} -> call.args[1]
           [] call.op = "allclose_out" -> call.before[1].sizes
           [] call.op = "masked_scatter_out" -> BroadcastShape({call.ins[1].sizes, call.ins[2].sizes})
           [] OTHER -> BroadcastShape({call.ins[k].sizes : k \in DOMAIN call.ins})
    /\ call.op # "empty_out" => DOMAIN reads = Positions(out)

(* Where the element of t lies that belongs to the element of the output   *)
(* at flat position i, by the strides of both.                             *)
Counterpart(t, i) ==
  LET coordinate(d) == (i \div strides(out)[d]) % out.sizes[d]
      skip == dim(out) - dim(t)
  IN Sum([d \in 1..dim(t) |->
            IF t.sizes[d] = 1 THEN 0 ELSE coordinate(d + skip) * strides(t)[d]])

(* ElementsPaired: every output element is computed from the elements of   *)
(* the operands at the same logical coordinates, whatever is broadcast     *)
(* (delinearize_index and linearize_access_indexes in broadcast_util.cpp). *)
ElementsPaired ==
  Elementwise /\ call.op \notin Creators \cup {"allclose_out"} =>
    \A i \in DOMAIN reads : \A k \in DOMAIN reads[i] :
      LET n == reads[i][k][1]
      IN (call.op # "masked_scatter_out" \/ n < 3) =>
           reads[i][k][2] = Counterpart(call.ins[n], i)

-----------------------------------------------------------------------------
(* Calls of the reduction kernels.                                         *)

CONSTANTS
  ReduceIns,   \* input tensors
  DimLists,    \* lists of dimensions to reduce
  ReduceDims,  \* single dimensions
  Dtypes       \* requested types, "None" included

(* args: the reduced dimensions, and whether they are kept with size 1.    *)
OverList(op, kernel(_, _, _, _)) ==
  \E t \in ReduceIns, ds \in DimLists, keep \in BOOLEAN :
    Call(op, <<t>>, <<ds, keep>>, LAMBDA o : kernel(t, ds, keep, o))

OverDim(op, kernel(_, _, _, _)) ==
  \E t \in ReduceIns, d \in ReduceDims, keep \in BOOLEAN :
    Call(op, <<t>>, << <<d>>, keep >>, LAMBDA o : kernel(t, d, keep, o))

OverOptionalDim(op, kernel(_, _, _, _)) ==
  \E t \in ReduceIns, d \in {<<>>} \cup {<<n>> : n \in ReduceDims}, keep \in BOOLEAN :
    Call(op, <<t>>, <<d, keep>>, LAMBDA o : kernel(t, d, keep, o))

All(op, kernel(_, _)) ==
  \E t \in ReduceIns : Call(op, <<t>>, << <<>>, FALSE >>, LAMBDA o : kernel(t, o))

ListReductions ==
  \/ \E dt \in Dtypes : OverList("sum_dim_out", LAMBDA t, ds, k, o : sum_dim_out(t, ds, k, dt, o))
  \/ \E dt \in Dtypes : OverList("mean_dim_out", LAMBDA t, ds, k, o : mean_dim_out(t, ds, k, dt, o))
  \/ OverList("amax_out", amax_out)
  \/ OverList("amin_out", amin_out)
  \/ OverList("any_dims_out", LAMBDA t, ds, k, o : any_dims_out(t, FALSE, ds, k, o))
  \/ \E t \in ReduceIns : Call("any_of_no_dims", <<t>>, <<>>, LAMBDA o : any_dims_out(t, TRUE, <<>>, FALSE, o))
  \/ \E u \in BOOLEAN : OverList("var_out", LAMBDA t, ds, k, o : var_out(t, ds, u, k, o))
  \/ \E c \in 0..2 : OverList("var_correction_out", LAMBDA t, ds, k, o : var_correction_out(t, ds, c, k, o))

DimReductions ==
  \/ OverDim("any_out", any_out)
  \/ OverOptionalDim("argmax_out", argmax_out)
  \/ OverOptionalDim("argmin_out", argmin_out)
  \/ \E dt \in Dtypes : OverDim("prod_int_out", LAMBDA t, d, k, o : prod_int_out(t, d, k, dt, o))
  \/ All("any_all_out", any_all_out)
  \/ All("max_unary_out", max_unary_out)
  \/ All("min_unary_out", min_unary_out)
  \/ \E dt \in Dtypes : All("prod_out", LAMBDA t, o : prod_out(t, dt, o))

RowKernels ==
  \/ \E t \in ReduceIns, d \in ReduceDims, dt \in Dtypes :
       Call("cumsum_out", <<t>>, <<d>>, LAMBDA o : cumsum_out(t, d, dt, o))
  \/ \E t \in ReduceIns, d \in ReduceDims, h \in BOOLEAN :
       Call("softmax_out", <<t>>, <<d>>, LAMBDA o : softmax_out(t, d, h, o))
  \/ \E t \in ReduceIns, d \in ReduceDims, h \in BOOLEAN :
       Call("log_softmax_out", <<t>>, <<d>>, LAMBDA o : log_softmax_out(t, d, h, o))

(* Kernels with two outputs.                                               *)
Pairwise ==
  \/ \E t \in ReduceIns, d \in ReduceDims, keep \in BOOLEAN :
       CallMany("max_out", <<t>>, << <<d>>, keep >>, LAMBDA os : max_out(t, d, keep, os))
  \/ \E t \in ReduceIns, d \in ReduceDims, keep \in BOOLEAN :
       CallMany("min_out", <<t>>, << <<d>>, keep >>, LAMBDA os : min_out(t, d, keep, os))
  \/ \E t \in ReduceIns, k \in 0..2, d \in ReduceDims, m \in BOOLEAN :
       CallMany("topk_values", <<t>>, <<d, k>>, LAMBDA os : topk_values(t, k, d, m, os))

ReduceNext ==
  \/ Idle("reduce") /\ (ListReductions \/ DimReductions \/ RowKernels)
  \/ Idle("reduce_pair") /\ Pairwise

-----------------------------------------------------------------------------
RowOps == {"cumsum_out", "softmax_out", "log_softmax_out", "topk_values", "any_of_no_dims"}
Reductions == {"sum_dim_out", "mean_dim_out", "amax_out", "amin_out", "any_dims_out", "var_out",
               "var_correction_out", "any_out", "argmax_out", "argmin_out", "prod_int_out",
               "any_all_out", "max_unary_out", "min_unary_out", "prod_out", "max_out", "min_out"}

(* The dimensions of the input that a reduction call reduces.              *)
ReducedDims ==
  LET n == dim(call.ins[1])
      ds == call.args[1]
  IN IF ds = <<>> THEN 0..(n - 1) ELSE {IF d < 0 THEN d + n ELSE d : d \in Range(ds)}

KeptDims == SetToSortSeq(Dims(call.ins[1]) \ ReducedDims, <)

Coordinate(t, p, d) == (p \div stride(t, d)) % size(t, d)

(* The kept dimensions stay in their order, with a 1 in every reduced      *)
(* place when keepdim is set, and each element is written.                 *)
ReducedShape ==
  Ok /\ call.op \in Reductions =>
    LET t == call.ins[1]
        sizes == IF call.args[2]
                 THEN [i \in 1..dim(t) |-> IF i - 1 \in ReducedDims THEN 1 ELSE t.sizes[i]]
                 ELSE [i \in DOMAIN KeptDims |-> size(t, KeptDims[i])]
    IN \A k \in DOMAIN outs : outs[k].sizes = sizes /\ DOMAIN call.reads[k] = Positions(outs[k])

(* The positions of the input that belong to position i of the output.     *)
Section(t, o, i) ==
  LET place(d) == IF call.args[2] THEN d
                  ELSE (CHOOSE n \in DOMAIN KeptDims : KeptDims[n] = d) - 1
  IN {p \in Positions(t) : \A d \in Dims(t) \ ReducedDims :
        Coordinate(t, p, d) = Coordinate(o, i, place(d))}

(* Every output element accumulates each element of its section of the     *)
(* input exactly once, and nothing else; a variance of too few elements is *)
(* NaN and reads none.                                                     *)
SectionOnce ==
  Ok /\ call.op \in Reductions =>
    \A k \in DOMAIN outs : \A i \in DOMAIN call.reads[k] :
      LET seen == call.reads[k][i]
          t == call.ins[1]
      IN \/ /\ {r[2] : r \in Range(seen)} = Section(t, outs[k], i)
            /\ Len(seen) = Cardinality(Section(t, outs[k], i))
         \/ seen = <<>> /\ call.op \in {"var_out", "var_correction_out"}

(* softmax, log_softmax, cumsum and topk: each element from those of the   *)
(* input with the same coordinates outside of the given dimension.         *)
RowsCovered ==
  Ok /\ call.op \in RowOps \ {"any_of_no_dims"} =>
    LET t == call.ins[1]
        d == IF call.args[1] < 0 THEN call.args[1] + dim(t) ELSE call.args[1]
        row(o, i) == {p \in Positions(t) : \A e \in Dims(t) \ {d} :
                        Coordinate(t, p, e) = Coordinate(o, i, e)}
        upto(o, i) == {p \in row(o, i) : dim(t) = 0 \/ Coordinate(t, p, d) <= Coordinate(o, i, d)}
    IN \A k \in DOMAIN outs :
         /\ DOMAIN call.reads[k] = Positions(outs[k])
         /\ \A i \in Positions(outs[k]) :
              LET seen == call.reads[k][i]
                  whole == IF call.op = "cumsum_out" THEN upto(outs[k], i) ELSE row(outs[k], i)
              IN {r[2] : r \in Range(seen)} = whole /\ Len(seen) = Cardinality(whole)

(* ReducesSection: a successful reduction has the reduced shape and every  *)
(* element of it accumulates each element of its section of the input      *)
(* exactly once, and nothing else, whatever set of dimensions is reduced   *)
(* (compute_reduced_out_size, get_init_index and the walk over a mask of   *)
(* dimensions in reduce_util); softmax, log_softmax and topk read the      *)
(* whole row of an element, cumsum the part of it up to the element        *)
(* (apply_over_dim, cumsum_tensors, perform_topk).                         *)
ReducesSection == ReducedShape /\ SectionOnce /\ RowsCovered

-----------------------------------------------------------------------------
(* Calls of the kernels that move elements.                                *)

CONSTANTS
  ShapeIns,    \* input tensors
  ShapeLists,  \* lists of input tensors
  Ints,        \* dimensions, indices and factors
  Bounds,      \* ends of slices, at most one each
  Steps,       \* steps of slices
  IntLists,    \* lists of dimensions, sizes and shifts
  PadLists     \* lists of pads

ShapeCopies ==
  \/ \E t \in ShapeIns, nb \in BOOLEAN, o \in {<<>>} \cup {<<u.order>> : u \in ShapeIns} :
       Call("_to_dim_order_copy_out", <<t>>, <<>>, LAMBDA x : _to_dim_order_copy_out(t, nb, o, x))
  \/ \E t \in ShapeIns, s, st \in IntLists, off \in Ints :
       Call("as_strided_copy_out", <<t>>, <<s, st, off>>, LAMBDA x : as_strided_copy_out(t, s, st, off, x))
  \/ \E t \in ShapeIns, r \in IntLists : Call("repeat_out", <<t>>, <<r>>, LAMBDA x : repeat_out(t, r, x))
  \/ \E t \in ShapeIns, s \in IntLists, im \in BOOLEAN :
       Call("expand_copy_out", <<t>>, <<s>>, LAMBDA x : expand_copy_out(t, s, im, x))
  \/ \E t \in ShapeIns, s \in IntLists : Call("view_copy_out", <<t>>, <<s>>, LAMBDA x : view_copy_out(t, s, x))

Joins ==
  \/ \E ts \in ShapeLists, d \in Ints : Call("cat_out", ts, <<d>>, LAMBDA x : cat_out(ts, d, x))
  \/ \E ts \in ShapeLists, d \in Ints : Call("stack_out", ts, <<d>>, LAMBDA x : stack_out(ts, d, x))

Rearrangements ==
  \/ \E t \in ShapeIns, ds \in IntLists : Call("flip_out", <<t>>, <<ds>>, LAMBDA x : flip_out(t, ds, x))
  \/ \E t \in ShapeIns, sh, ds \in IntLists : Call("roll_out", <<t>>, <<sh, ds>>, LAMBDA x : roll_out(t, sh, ds, x))
  \/ \E t \in ShapeIns, ds \in IntLists : Call("permute_copy_out", <<t>>, <<ds>>, LAMBDA x : permute_copy_out(t, ds, x))
  \/ \E t \in ShapeIns, a, b \in Ints :
       Call("transpose_copy_int_out", <<t>>, <<a, b>>, LAMBDA x : transpose_copy_int_out(t, a, b, x))
  \/ \E t \in ShapeIns : Call("t_copy_out", <<t>>, <<>>, LAMBDA x : t_copy_out(t, x))
  \/ \E t \in ShapeIns, s \in Ints : Call("pixel_shuffle_out", <<t>>, <<s>>, LAMBDA x : pixel_shuffle_out(t, s, x))
  \/ \E t \in ShapeIns, s \in Ints : Call("pixel_unshuffle_out", <<t>>, <<s>>, LAMBDA x : pixel_unshuffle_out(t, s, x))

Squeezes ==
  \/ \E t \in ShapeIns, d \in Ints : Call("squeeze_copy_dim_out", <<t>>, <<>>, LAMBDA x : squeeze_copy_dim_out(t, d, x))
  \/ \E t \in ShapeIns, ds \in IntLists : Call("squeeze_copy_dims_out", <<t>>, <<>>, LAMBDA x : squeeze_copy_dims_out(t, ds, x))
  \/ \E t \in ShapeIns, d \in Ints : Call("unsqueeze_copy_out", <<t>>, <<>>, LAMBDA x : unsqueeze_copy_out(t, d, x))

Slices ==
  \/ \E t \in ShapeIns, d, i \in Ints : Call("select_copy_int_out", <<t>>, <<d, i>>, LAMBDA x : select_copy_int_out(t, d, i, x))
  \/ \E t \in ShapeIns, d, s, n \in Ints :
       Call("narrow_copy_out", <<t>>, <<d, s, n>>, LAMBDA x : narrow_copy_out(t, d, s, n, x))
  \/ \E t \in ShapeIns, d \in Ints, k \in Steps, s, e \in Bounds :
       Call("slice_copy_Tensor_out", <<t>>, <<d, s, e, k>>, LAMBDA x : slice_copy_Tensor_out(t, d, s, e, k, x))
  \/ \E ts \in ShapeLists, d \in Ints, k \in Steps, s, e \in Bounds : Len(ts) = 2 /\
       Call("slice_scatter_out", ts, <<d, s, e, k>>, LAMBDA x : slice_scatter_out(ts[1], ts[2], d, s, e, k, x))
  \/ \E ts \in ShapeLists, d, i \in Ints : Len(ts) = 2 /\
       Call("select_scatter_out", ts, <<d, i>>, LAMBDA x : select_scatter_out(ts[1], ts[2], d, i, x))
  \/ \E t \in ShapeIns, o, a, b \in Ints :
       Call("diagonal_copy_out", <<t>>, <<o, a, b>>, LAMBDA x : diagonal_copy_out(t, o, a, b, x))
  \/ \E t \in ShapeIns, d \in Ints : Call("tril_out", <<t>>, <<d>>, LAMBDA x : tril_out(t, d, x))
  \/ \E t \in ShapeIns, d \in Ints : dim(out) <= dim(t) /\ Call("glu_out", <<t>>, <<d>>, LAMBDA x : glu_out(t, d, x))

Pads ==
  \/ \E t \in ShapeIns, p \in PadLists, n \in 1..3 :
       Call("reflection_pad", <<t>>, <<p>>, LAMBDA x :
         CASE n = 1 -> reflection_pad1d_out(t, p, x) [] n = 2 -> reflection_pad2d_out(t, p, x)
           [] n = 3 -> reflection_pad3d_out(t, p, x))
  \/ \E t \in ShapeIns, p \in PadLists, n \in 1..3 :
       Call("replication_pad", <<t>>, <<p>>, LAMBDA x :
         CASE n = 1 -> replication_pad1d_out(t, p, x) [] n = 2 -> replication_pad2d_out(t, p, x)
           [] n = 3 -> replication_pad3d_out(t, p, x))
  \/ \E t \in ShapeIns, p \in PadLists : (\A i \in DOMAIN p : p[i] >= 0) /\
       Call("constant_pad_nd_out", <<t>>, <<p>>, LAMBDA x : constant_pad_nd_out(t, p, x))

Distances ==
  \/ \E t \in ShapeIns, p \in {-1, 2} : Call("_pdist_forward_out", <<t>>, <<>>, LAMBDA x : _pdist_forward_out(t, p, x))
  \/ \E ts \in ShapeLists, p \in {-1, 2}, m \in Bounds : Len(ts) = 2 /\
       Call("_cdist_forward_out", ts, <<>>, LAMBDA x : _cdist_forward_out(ts[1], ts[2], p, m, x))

(* The kernels with several outputs.                                       *)
Splits ==
  \/ \E t \in ShapeIns, n, d \in Ints : CallMany("split_copy_Tensor_out", <<t>>, <<d>>, LAMBDA os : split_copy_Tensor_out(t, n, d, os))
  \/ \E t \in ShapeIns, ns \in IntLists, d \in Ints :
       CallMany("split_with_sizes_copy_out", <<t>>, <<d>>, LAMBDA os : split_with_sizes_copy_out(t, ns, d, os))
  \/ \E t \in ShapeIns, d \in Ints : CallMany("unbind_copy_int_out", <<t>>, <<d>>, LAMBDA os : unbind_copy_int_out(t, d, os))

ShapeNext ==
  \/ Idle("shape") /\ (ShapeCopies \/ Joins \/ Rearrangements \/ Squeezes)
  \/ Idle("slice") /\ (Slices \/ Pads \/ Distances)
  \/ Idle("split") /\ Splits

-----------------------------------------------------------------------------
(* The indices start, start + step, ... below end, as a sequence.          *)
Picked(length, start, end, step) ==
  LET lo == IF start = <<>> THEN 0 ELSE Max({0, Norm(start[1], length)})
      hi == IF end = <<>> THEN length ELSE Norm(end[1], length)
  IN SetToSortSeq({x \in 0..(length - 1) : lo <= x /\ x < hi /\ (x - lo) % step = 0}, <)

(* The pads of dimension d, listed from the last dimension on.             *)
PadBefore(n, padding, d) ==
  IF 2 * (n - d) < Len(padding) THEN padding[2 * (n - d) + 1] ELSE 0

(* Whose elements output k takes at coordinate c: operands and coordinates. *)
Moved(k, c) ==
  LET t == call.ins[1]
      a == call.args
      n == dim(t)
      d == Norm(a[1], n)            \* for the calls whose first argument is one
      one(x) == <<<<1, x>>>>
      along(x) == one([c EXCEPT ![d + 1] = x])
      pad(x(_, _)) == one([j \in 1..n |-> x(c[j] - PadBefore(n, a[1], j), t.sizes[j])])
      same == one(CoordOf(t, At(outs[k], c)))
      joined(e, j) == Sum([i \in 1..(j - 1) |-> IF numel(call.ins[i]) = 0 THEN 0 ELSE size(call.ins[i], e)])
      parts(j) == Sum([i \in 1..(j - 1) |-> size(outs[i], d)])
  IN CASE call.op = "_to_dim_order_copy_out" -> one(c)
       [] call.op \in {"repeat_out", "expand_copy_out"} ->
            one([j \in 1..n |-> c[Len(c) - n + j] % t.sizes[j]])
       [] call.op = "cat_out" ->
            LET e == Norm(a[1], Len(c))
                j == Max({i \in DOMAIN call.ins : joined(e, i) <= c[e + 1] /\ numel(call.ins[i]) > 0})
            IN <<<<j, [c EXCEPT ![e + 1] = @ - joined(e, j)]>>>>
       [] call.op = "stack_out" ->
            LET e == Norm(a[1], Len(c)) IN <<<<c[e + 1] + 1, Without(c, e + 1)>>>>
       [] call.op = "flip_out" ->
            one([j \in 1..n |-> IF \E i \in DOMAIN a[1] : Norm(a[1][i], n) = j - 1
                               THEN t.sizes[j] - 1 - c[j] ELSE c[j]])
       [] call.op = "roll_out" ->
            one([j \in 1..n |-> (c[j] - Sum([i \in DOMAIN a[2] |->
                   IF Norm(a[2][i], n) = j - 1 THEN a[1][i] ELSE 0])) % t.sizes[j]])
       [] call.op = "permute_copy_out" ->
            one([j \in 1..n |-> c[CHOOSE i \in 1..n : Norm(a[1][i], n) = j - 1]])
       [] call.op = "transpose_copy_int_out" /\ n > 0 -> one(Swapped(c, d, Norm(a[2], n)))
       [] call.op = "t_copy_out" -> one(Reverse(c))
       [] call.op = "pixel_shuffle_out" ->
            LET s == a[1]
            IN one(SubSeq(c, 1, n - 3) \o <<(c[n - 2] * s + (c[n - 1] % s)) * s + (c[n] % s),
                                            c[n - 1] \div s, c[n] \div s>>)
       [] call.op = "pixel_unshuffle_out" ->
            LET s == a[1]
                ch == c[n - 2]
            IN one(SubSeq(c, 1, n - 3) \o <<ch \div (s * s), c[n - 1] * s + ((ch \div s) % s),
                                            c[n] * s + (ch % s)>>)
       [] call.op = "select_copy_int_out" -> one(InsertAt(c, d + 1, Norm(a[2], size(t, d))))
       [] call.op = "narrow_copy_out" -> along(c[d + 1] + Norm(a[2], size(t, d)))
       [] call.op = "slice_copy_Tensor_out" ->
            along(Picked(size(t, d), a[2], a[3], a[4])[c[d + 1] + 1])
       [] call.op = "slice_scatter_out" ->
            LET p == Picked(size(t, d), a[2], a[3], a[4])
            IN IF c[d + 1] \in Range(p)
               THEN <<<<2, [c EXCEPT ![d + 1] = CHOOSE i \in 0..(Len(p) - 1) : p[i + 1] = @]>>>>
               ELSE one(c)
       [] call.op = "select_scatter_out" ->
            IF c[d + 1] = Norm(a[2], size(t, d)) THEN <<<<2, Without(c, d + 1)>>>> ELSE one(c)
       [] call.op = "diagonal_copy_out" ->
            LET i == c[Len(c)]
                d1 == Norm(a[2], n)
                d2 == Norm(a[3], n)
                x1 == i + Max({0, -a[1]})
                x2 == i + Max({0, a[1]})
                rest == SubSeq(c, 1, Len(c) - 1)
            IN one(IF d1 < d2 THEN InsertAt(InsertAt(rest, d1 + 1, x1), d2 + 1, x2)
                   ELSE InsertAt(InsertAt(rest, d2 + 1, x2), d1 + 1, x1))
       [] call.op = "tril_out" -> IF c[n] <= c[n - 1] + a[1] THEN one(c) ELSE <<>>
       [] call.op = "glu_out" -> << <<1, c>>, <<1, [c EXCEPT ![d + 1] = @ + size(outs[1], d)]>> >>
       [] call.op = "reflection_pad" ->
            pad(LAMBDA x, m : IF x < 0 THEN -x ELSE IF x >= m THEN 2 * (m - 1) - x ELSE x)
       [] call.op = "replication_pad" -> pad(LAMBDA x, m : Max({0, Min({x, m - 1})}))
       [] call.op = "constant_pad_nd_out" ->
            LET x == [j \in 1..n |-> c[j] - PadBefore(n, a[1], j)]
            IN IF \A j \in 1..n : 0 <= x[j] /\ x[j] < t.sizes[j] THEN one(x) ELSE <<>>
       [] call.op \in {"split_copy_Tensor_out", "split_with_sizes_copy_out"} ->
            along(c[d + 1] + parts(k))
       [] call.op = "unbind_copy_int_out" -> one(InsertAt(c, d + 1, k - 1))
       [] OTHER -> same

Movers ==
  {"_to_dim_order_copy_out", "repeat_out", "expand_copy_out", "view_copy_out", "cat_out", "stack_out",
   "flip_out", "roll_out", "permute_copy_out", "transpose_copy_int_out", "t_copy_out",
   "pixel_shuffle_out", "pixel_unshuffle_out", "squeeze_copy_dim_out", "squeeze_copy_dims_out",
   "unsqueeze_copy_out", "select_copy_int_out", "narrow_copy_out", "slice_copy_Tensor_out",
   "slice_scatter_out", "select_scatter_out", "diagonal_copy_out", "tril_out", "glu_out",
   "reflection_pad", "replication_pad", "constant_pad_nd_out", "split_copy_Tensor_out",
   "split_with_sizes_copy_out", "unbind_copy_int_out"}

(* SourceFits: a slice_scatter that succeeds has a source of the input's   *)
(* sizes, with the number of sliced values in the sliced dimension         *)
(* (check_slice_scatter_args).                                             *)
SourceFits ==
  Ok /\ call.op = "slice_scatter_out" /\ numel(call.ins[1]) > 0 =>
    LET t == call.ins[1]
        d == Norm(call.args[1], dim(t))
        values == Len(Picked(size(t, d), call.args[2], call.args[3], call.args[4]))
    IN call.ins[2].sizes = [t.sizes EXCEPT ![d + 1] = values]

(* Calls the code answers with an element outside of an operand or of the  *)
(* output: a start counted from the back, an empty tensor that does not    *)
(* match the others, a source longer or shorter in the last dimension, a   *)
(* gated output of a two byte type, and the edge of an empty tensor.       *)
Unguarded ==
  \/ call.op = "narrow_copy_out" /\ call.args[2] < 0
  \/ call.op = "cat_out" /\ \E i \in DOMAIN call.ins : numel(call.ins[i]) = 0
  \/ call.op = "slice_scatter_out" /\ ~SourceFits
  \/ call.op = "glu_out" /\ out.type \notin FloatTypes
  \/ call.op = "replication_pad" /\ numel(call.ins[1]) = 0

(* ElementsMoved: the element at every coordinate of an output is the one  *)
(* the operation names: concatenation, repetition, permutation, slicing,   *)
(* padding and the changes of layout agree with their definition in        *)
(* coordinates.                                                            *)
ElementsMoved ==
  Ok /\ call.op \in Movers /\ ~Unguarded =>
    \A k \in DOMAIN outs : \A p \in DOMAIN call.reads[k] \cap Positions(outs[k]) :
      LET moved == Moved(k, CoordOf(outs[k], p))
      IN call.reads[k][p] = [i \in DOMAIN moved |-> <<moved[i][1], At(call.ins[moved[i][1]], moved[i][2])>>]

(* ElementsPlaced: an output element comes from the elements at the        *)
(* coordinates its operation names: the same ones, broadcast               *)
(* (ElementsPaired), or where the operation moves them from                *)
(* (ElementsMoved).                                                        *)
ElementsPlaced == ElementsPaired /\ ElementsMoved

-----------------------------------------------------------------------------
Next == ElementwiseNext \/ ReduceNext \/ ShapeNext \/ Return
Spec == Init /\ [][Next]_vars
=============================================================================
