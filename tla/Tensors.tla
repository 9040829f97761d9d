------------------------------- MODULE Tensors --------------------------------
(***************************************************************************)
(* Scalar types and tensors, from runtime/core: what kernels ask of the    *)
(* types, shapes, strides and memory of their operands, and how an output  *)
(* is given its size.                                                      *)
(***************************************************************************)
EXTENDS Integers, Sequences, FiniteSets, Functions, FiniteSetsExt

(* Element types of tensors and the rules that combine them, from          *)
(* runtime/core/portable_type/scalar_type.h,                               *)
(* runtime/core/exec_aten/util/scalar_type_util.h,                         *)
(* kernels/portable/cpu/scalar_utils.h and kernels/portable/cpu/util/      *)
(* dtype_util.  A C++ scalar is modelled by the type get_scalar_dtype      *)
(* reads off it: "Bool", "Long" or "Double".                               *)

ComplexTypes == {"ComplexHalf", "ComplexFloat", "ComplexDouble"}
QIntTypes == {"QInt8", "QInt32", "QUInt8", "QUInt4x2", "QUInt2x4"}
BitsTypes == {"Bits1x8", "Bits2x4", "Bits4x2", "Bits8", "Bits16"}
IntTypes == {"Byte", "Char", "Short", "Int", "Long"}
FloatTypes == {"Float", "Double"}
RealTypes == IntTypes \cup FloatTypes

(* The lists of the ET_SWITCH_* macros: a kernel body is instantiated for  *)
(* these types and the default case of the switch aborts.                  *)
REAL == RealTypes
REALB == RealTypes \cup {"Bool"}
REALH == RealTypes \cup {"Half"}
REALHB == RealTypes \cup {"Half", "Bool"}
REALHBF16 == RealTypes \cup {"Half", "BFloat16"}
REALHBBF16 == RealTypes \cup {"Half", "Bool", "BFloat16"}
INTB == IntTypes \cup {"Bool"}
FLOATH == FloatTypes \cup {"Half"}
FLOATHBF16 == FloatTypes \cup {"Half", "BFloat16"}
ALL == REALHBBF16 \cup ComplexTypes \cup QIntTypes \cup BitsTypes

isIntegralType(t, includeBool) == t \in IntTypes \/ (includeBool /\ t = "Bool")
isFloatingType(t) == t \in FLOATHBF16
isRealType(t) == t \in RealTypes
isRealHBType(t) == t \in REALHB
isRealHBBF16Type(t) == t \in REALHBBF16
isComplexType(t) == t \in ComplexTypes
isBitsType(t) == t \in BitsTypes
isQIntType(t) == t \in QIntTypes

canCast(from, to) ==
  /\ ~(isComplexType(from) /\ ~isComplexType(to))
  /\ ~(isFloatingType(from) /\ isIntegralType(to, FALSE))
  /\ ~(from # "Bool" /\ to = "Bool")

-----------------------------------------------------------------------------
(* promoteTypes looks the pair up in a table; the row and column order is  *)
(* the numbering of the enumeration with the quantized types skipped.      *)
Promotable ==
  <<"Byte", "Char", "Short", "Int", "Long", "Half", "Float", "Double",
    "ComplexHalf", "ComplexFloat", "ComplexDouble", "Bool", "BFloat16">>

promoteTypesLookup ==
  LET u1 == "Byte"   i1 == "Char"   i2 == "Short"  i4 == "Int"
      i8 == "Long"   f2 == "Half"   f4 == "Float"  f8 == "Double"
      c2 == "ComplexHalf"   c4 == "ComplexFloat"   c8 == "ComplexDouble"
      b1 == "Bool"   bf == "BFloat16"
  IN << <<u1, i2, i2, i4, i8, f2, f4, f8, c2, c4, c8, u1, bf>>,
        <<i2, i1, i2, i4, i8, f2, f4, f8, c2, c4, c8, i1, bf>>,
        <<i2, i2, i2, i4, i8, f2, f4, f8, c2, c4, c8, i2, bf>>,
        <<i4, i4, i4, i4, i8, f2, f4, f8, c2, c4, c8, i4, bf>>,
        <<i8, i8, i8, i8, i8, f2, f4, f8, c2, c4, c8, i8, bf>>,
        <<f2, f2, f2, f2, f2, f2, f4, f8, c2, c4, c8, f2, f4>>,
        <<f4, f4, f4, f4, f4, f4, f4, f8, c4, c4, c8, f4, f4>>,
        <<f8, f8, f8, f8, f8, f8, f8, f8, c8, c8, c8, f8, f8>>,
        <<c2, c2, c2, c2, c2, c2, c4, c8, c2, c4, c8, c2, c4>>,
        <<c4, c4, c4, c4, c4, c4, c4, c8, c4, c4, c8, c4, c4>>,
        <<c8, c8, c8, c8, c8, c8, c8, c8, c8, c8, c8, c8, c8>>,
        <<u1, i1, i2, i4, i8, f2, f4, f8, c2, c4, c8, b1, bf>>,
        <<bf, bf, bf, bf, bf, f4, f4, f8, c4, c4, c8, bf, bf>> >>

Position(t) == CHOOSE n \in 1..Len(Promotable) : Promotable[n] = t

(* ET_CHECK aborts on a quantized or bits type that meets another type:    *)
(* the guard is CanPromote.                                                *)
CanPromote(a, b) == a = b \/ {a, b} \cap (QIntTypes \cup BitsTypes) = {}

promoteTypes(a, b) ==
  IF a = b THEN a ELSE promoteTypesLookup[Position(a)][Position(b)]

promote_type_with_scalar(t, s) ==
  CASE isComplexType(t) -> t
    [] s = "Double" /\ ~isComplexType(t) -> IF isFloatingType(t) THEN t ELSE "Float"
    [] s = "Long" /\ ~isComplexType(t) -> IF t = "Bool" THEN "Long" ELSE t
    [] s = "Bool" /\ ~isComplexType(t) -> t

get_compute_type(common) == IF common \in {"Half", "BFloat16"} THEN "Float" ELSE common

(* extract_scalar(value, &v) with v of type t.  The range test on the      *)
(* value is left out: the models use values every type holds.              *)
extract_scalar(s, t) ==
  CASE t = "Bool" -> s \in {"Long", "Bool"}
    [] t \in IntTypes -> s = "Long"
    [] OTHER -> s \in {"Double", "Long"}

-----------------------------------------------------------------------------
(* SupportedTensorDtypes: the lists a shared loop is told to accept,       *)
(* tested by check_tensor_dtype, and again by the switch that picks the    *)
(* function that loads or stores one element.                              *)
SupportedTypes(s, compute) ==
  CASE s = "REALHBBF16" -> REALHBBF16
    [] s = "REALHBF16" -> REALHBF16
    [] s = "FLOATHBF16" -> FLOATHBF16
    [] s = "INTB" -> INTB
    [] s = "BOOL_OR_BYTE" -> {"Bool", "Byte"}
    [] s = "SAME_AS_COMPUTE" -> {compute}
    [] s = "SAME_AS_COMMON" ->
         IF compute = "Float" THEN {"Float", "Half", "BFloat16"} ELSE {compute}

check_tensor_dtype(t, s, compute) == t.type \in SupportedTypes(s, compute)

LoadTypes(s, compute) ==
  IF s = "FLOATHBF16" THEN REALHBF16 ELSE SupportedTypes(s, compute)

StoreTypes(s, compute) == SupportedTypes(s, compute)

-----------------------------------------------------------------------------
(* The tensor metadata every kernel works on, from runtime/core/           *)
(* portable_type/tensor_impl.cpp, runtime/core/exec_aten/util/             *)
(* {tensor_util.h, tensor_util_portable.cpp, dim_order_util.h} and         *)
(* kernels/portable/cpu/util/broadcast_util.{h,cpp}.                       *)
(*                                                                         *)
(* A tensor is a record [type, sizes, order, static, bound]: its element   *)
(* type, its sizes, its dimension order (memory layout, outermost first),  *)
(* whether its shape is STATIC, and numel_bound_, the number of elements   *)
(* its buffer holds.  Dimensions are numbered from 0, as in the code.  The *)
(* contents of a tensor are not modelled: what a kernel does is recorded   *)
(* as the flat positions it reads to compute each flat position it writes. *)

kTensorDimensionLimit == 16

dim(t) == Len(t.sizes)
Dims(t) == 0..(dim(t) - 1)
size(t, d) == t.sizes[d + 1]

Product(s) ==
  LET upto[n \in 0..Len(s)] == IF n = 0 THEN 1 ELSE upto[n - 1] * s[n] IN upto[Len(s)]

compute_numel(sizes) == Product(sizes)
numel(t) == compute_numel(t.sizes)

(* 0 .. numel - 1: the flat positions of a tensor's buffer in use.         *)
Positions(t) == 0..(numel(t) - 1)

contiguous_order(n) == [i \in 1..n |-> i - 1]
is_contiguous_dim_order(order) == order = contiguous_order(Len(order))
is_channels_last_dim_order(order) == order \in {<<0, 2, 3, 1>>, <<0, 2, 3, 4, 1>>}

(* The stride of a dimension is the product of the sizes that come after   *)
(* it in the dimension order; a zero size counts as one.                   *)
dim_order_to_stride(sizes, order) ==
  LET at(d) == CHOOSE i \in DOMAIN order : order[i] = d - 1
      factors == [i \in DOMAIN order |-> Max({1, sizes[order[i] + 1]})]
  IN [d \in DOMAIN sizes |-> Product(SubSeq(factors, at(d) + 1, Len(order)))]

strides(t) == dim_order_to_stride(t.sizes, t.order)
stride(t, d) == strides(t)[d + 1]

-----------------------------------------------------------------------------

(* A resize bounded by the current shape instead of the buffer.            *)
resize_tensor_shrinks(t, sizes) ==
  CASE Len(sizes) # dim(t) -> "NotSupported"
    [] OTHER -> IF (t.static /\ sizes # t.sizes) \/ compute_numel(sizes) > numel(t)
                THEN "NotSupported" ELSE "Ok"

(* TensorImpl::internal_resize_contiguous.                                 *)
resize_tensor(t, sizes) ==
  CASE Len(sizes) # dim(t) -> "NotSupported"
    [] dim(t) = 0 /\ sizes = <<>> -> "Ok"
    [] OTHER ->
         IF t.static
         THEN IF sizes = t.sizes THEN "Ok" ELSE "NotSupported"
         ELSE IF \E i \in DOMAIN sizes : sizes[i] < 0 THEN "abort"
         ELSE IF compute_numel(sizes) <= t.bound THEN "Ok" ELSE "NotSupported"

resized(t, sizes) == [t EXCEPT !.sizes = sizes]

-----------------------------------------------------------------------------
(* Checks of tensor_util.h.                                                *)
nonzero_dim(t) == IF dim(t) = 0 THEN 1 ELSE dim(t)
nonempty_size(t, d) == IF dim(t) = 0 THEN 1 ELSE size(t, d)
dim_is_valid(d, upper) == -upper <= d /\ d < upper

tensor_has_dim(t, d) ==
  IF dim(t) = 0 THEN d \in {0, -1}
  ELSE IF d > 0 THEN d < dim(t) ELSE dim(t) + d >= 0

ET_NORMALIZE_IX(i, upper) == IF i < 0 THEN i + upper ELSE i

tensor_has_non_empty_dim(t, d) ==
  tensor_has_dim(t, d) /\ size(t, ET_NORMALIZE_IX(d, dim(t))) # 0

tensor_has_expected_size(t, sizes) == t.sizes = sizes
tensor_is_contiguous(t) == \A d \in Dims(t) : stride(t, d) = Product(SubSeq(t.sizes, d + 2, dim(t)))
tensor_is_default_dim_order(t) == is_contiguous_dim_order(t.order)
tensor_is_default_or_channels_last_dim_order(t) ==
  is_contiguous_dim_order(t.order) \/ is_channels_last_dim_order(t.order)

tensors_have_same_dim_order(ts) ==
  \/ Len(ts) < 2
  \/ \A i \in DOMAIN ts : is_contiguous_dim_order(ts[i].order)
  \/ \A i \in DOMAIN ts : is_channels_last_dim_order(ts[i].order)

tensors_have_same_dtype(ts) == \A i \in DOMAIN ts : ts[i].type = ts[1].type
tensors_have_same_rank(a, b) == dim(a) = dim(b)
tensor_is_rank(t, n) == dim(t) = n
tensor_has_rank_greater_or_equal_to(t, n) == dim(t) >= n
tensor_has_rank_smaller_or_equal_to(t, n) == dim(t) <= n
tensor_is_floating_type(t) == isFloatingType(t.type)

(* Asked only of dimensions the tensor has.                                *)
tensor_dim_has_index(t, d, i) ==
  LET n == size(t, ET_NORMALIZE_IX(d, dim(t))) IN -n <= i /\ i < n

(* Shapes of one element are the same whatever their rank.                 *)
tensors_have_same_shape(a, b) == a.sizes = b.sizes \/ (numel(a) = 1 /\ numel(b) = 1)
tensors_have_same_shape_and_dtype(a, b) ==
  tensors_have_same_shape(a, b) /\ a.type = b.type

tensors_have_same_size_at_dims(a, da, b, db) ==
  /\ da \in 0..(dim(a) - 1)
  /\ db \in 0..(dim(b) - 1)
  /\ size(a, da) = size(b, db)

(* Products of the sizes before and after a dimension.                     *)
getLeadingDims(t, d) == Product(SubSeq(t.sizes, 1, d))
getTrailingDims(t, d) == Product(SubSeq(t.sizes, d + 2, dim(t)))

Sum(s) ==
  LET upto[n \in 0..Len(s)] == IF n = 0 THEN 0 ELSE upto[n - 1] + s[n] IN upto[Len(s)]
calculate_linear_index(coord, st) == Sum([i \in DOMAIN coord |-> coord[i] * st[i]])

(* The coordinates of a flat position, and back, for the contiguous        *)
(* layout whatever the tensor's own is.                                    *)
indexToCoordinate(t, i) ==
  [d \in 1..dim(t) |-> (i \div Product(SubSeq(t.sizes, d + 1, dim(t)))) % t.sizes[d]]
coordinateToIndex(t, coord) == Sum([d \in 1..dim(t) |-> coord[d] * getTrailingDims(t, d - 1)])

-----------------------------------------------------------------------------
(* Lists of dimensions (kernels/portable/cpu/util/reduce_util.cpp).  A     *)
(* list is a sequence, an absent one the empty sequence.                   *)
_normalize_non_neg_d(d, n) ==
  IF n = 0 /\ d \in {0, -1} THEN 0 ELSE IF d < 0 THEN d + n ELSE d

check_dim_list_is_valid(t, dims) ==
  LET n == dim(t)
      norm == [i \in DOMAIN dims |-> _normalize_non_neg_d(dims[i], n)]
  IN \A i \in DOMAIN dims :
       /\ IF n = 0 THEN dims[i] \in {0, -1} ELSE dim_is_valid(dims[i], n)
       /\ \A j \in 1..(i - 1) : norm[j] # norm[i]

check_dim_in_dim_list(d, n, dims) ==
  \E i \in DOMAIN dims : _normalize_non_neg_d(dims[i], n) = d

get_reduced_dim_product(t, dims) ==
  CASE dim(t) = 0 -> 1
    [] dim(t) # 0 /\ dims = <<>> -> numel(t)
    [] OTHER -> Product([i \in DOMAIN dims |-> size(t, _normalize_non_neg_d(dims[i], dim(t)))])

get_out_numel(t, dims) ==
  IF dims = <<>> THEN 1
  ELSE Product([i \in 1..dim(t) |-> IF check_dim_in_dim_list(i - 1, dim(t), dims) THEN 1 ELSE t.sizes[i]])

-----------------------------------------------------------------------------
(* broadcast_util: shapes are aligned at their last dimension.             *)
tensor_is_broadcastable_to(from, to) ==
  LET skip == Len(to) - Len(from)
  IN skip >= 0 /\ \A i \in DOMAIN from : from[i] \in {to[skip + i], 1}

tensors_are_broadcastable_between(a, b) ==
  LET n == Min({Len(a), Len(b)})
  IN \A i \in 0..(n - 1) :
       LET x == a[Len(a) - i]
           y == b[Len(b) - i]
       IN x = y \/ x = 1 \/ y = 1

(* The larger size wins, which is wrong for an empty dimension.            *)
get_larger_target_size(a, b) ==
  LET n == Max({Len(a), Len(b)})
      at(s, i) == IF i - (n - Len(s)) >= 1 THEN s[i - (n - Len(s))] ELSE 1
  IN [i \in 1..n |-> Max({at(a, i), at(b, i)})]

get_broadcast_target_size(a, b) ==
  LET n == Max({Len(a), Len(b)})
  IN [i \in 1..n |->
        LET p == i - (n - Len(a))
            q == i - (n - Len(b))
        IN CASE p >= 1 /\ q >= 1 -> IF b[q] = 1 THEN a[p] ELSE b[q]
             [] p >= 1 /\ q < 1 -> a[p]
             [] p < 1 -> b[q]]

(* Coordinates of a flat position, the last dimension varying fastest,     *)
(* whatever the dimension order of the tensor.                             *)
delinearize_index(i, shape) ==
  [d \in DOMAIN shape |->
     (i \div Product(SubSeq(shape, d + 1, Len(shape)))) % shape[d]]

Unreachable == -1

(* A dimension whose coordinate lies outside contributes nothing, provided *)
(* its size is 1; ET_CHECK aborts otherwise (Unreachable).                 *)
linearize_access_indexes(to, shape, st) ==
  LET skip == Len(to) - Len(shape)
      beyond(i) == to[skip + i] >= shape[i]
  IN IF \E i \in DOMAIN shape : beyond(i) /\ shape[i] # 1 THEN Unreachable
     ELSE Sum([i \in DOMAIN shape |-> IF beyond(i) THEN 0 ELSE to[skip + i] * st[i]])

(* The broadcast dimensions are aligned at the front.                      *)
broadcast_position_front(t, shape, i) ==
  IF t.sizes = shape THEN i
  ELSE linearize_access_indexes(SubSeq(delinearize_index(i, shape), 1, dim(t)), t.sizes, strides(t))

(* The position in t that belongs to flat position i of a tensor of the    *)
(* given shape: i itself unless t is broadcast.                            *)
broadcast_position(t, shape, i) ==
  IF t.sizes = shape THEN i
  ELSE linearize_access_indexes(delinearize_index(i, shape), t.sizes, strides(t))

-----------------------------------------------------------------------------
(* What a kernel call leaves behind: its status, the output tensor (which  *)
(* may have been resized before the call failed) and, for every position   *)
(* of the output it writes, the sequence of <<operand, position>> it reads *)
(* to compute it.                                                          *)
Outcome(status, out, reads) == [status |-> status, out |-> out, reads |-> reads]
Refused(out) == Outcome("InvalidArgument", out, <<>>)
Aborted(out) == Outcome("abort", out, <<>>)
Written(out, read(_)) == Outcome("Ok", out, [i \in Positions(out) |-> read(i)])

(* The same for a kernel with several outputs.                             *)
WrittenAll(outs, read(_, _)) ==
  Outcome("Ok", outs, [k \in DOMAIN outs |-> [i \in Positions(outs[k]) |-> read(k, i)]])

(* ET_KERNEL_CHECK, a resize of the output, and an ET_SWITCH on a type.    *)
Check(ok, out, rest) == IF ok THEN rest ELSE Refused(out)

Resize(out, sizes, rest(_)) ==
  LET error == resize_tensor(out, sizes)
  IN CASE error = "Ok" -> rest(resized(out, sizes))
       [] error = "abort" -> Aborted(out)
       [] error = "NotSupported" -> Refused(out)

(* The k-th of several outputs is resized.                                 *)
ResizeNth(outs, k, sizes, rest(_)) ==
  LET error == resize_tensor(outs[k], sizes)
  IN CASE error = "Ok" -> rest([outs EXCEPT ![k] = resized(@, sizes)])
       [] error = "abort" -> Aborted(outs)
       [] error = "NotSupported" -> Refused(outs)

(* All outputs are resized in turn; the first failure stops the loop.      *)
ResizeEach(outs, sizes(_), rest(_)) ==
  LET upto[k \in 0..Len(outs)] ==
        IF k = 0 THEN Outcome("Ok", outs, <<>>)
        ELSE LET p == upto[k - 1]
                 error == resize_tensor(outs[k], sizes(k))
             IN CASE p.status # "Ok" -> p
                  [] p.status = "Ok" /\ error = "Ok" ->
                       [p EXCEPT !.out[k] = resized(@, sizes(k))]
                  [] p.status = "Ok" /\ error = "abort" -> Aborted(p.out)
                  [] p.status = "Ok" /\ error = "NotSupported" -> Refused(p.out)
      last == upto[Len(outs)]
  IN IF last.status = "Ok" THEN rest(last.out) ELSE last

Switch(type, types, out, rest) == IF type \in types THEN rest ELSE Aborted(out)

resize_to_broadcast_target_size(a, b, out, rest(_)) ==
  IF tensors_are_broadcastable_between(a.sizes, b.sizes)
  THEN Resize(out, get_broadcast_target_size(a.sizes, b.sizes), rest)
  ELSE Refused(out)

resize_to_broadcast_target_size_3(a, b, c, out, rest(_)) ==
  LET ab == get_broadcast_target_size(a.sizes, b.sizes)
  IN IF /\ tensors_are_broadcastable_between(a.sizes, b.sizes)
        /\ tensors_are_broadcastable_between(ab, c.sizes)
     THEN Resize(out, get_broadcast_target_size(ab, c.sizes), rest)
     ELSE Refused(out)
=============================================================================
