----------------------------- MODULE ShapeKernels -----------------------------
(***************************************************************************)
(* The kernels that reduce a tensor along some of its dimensions, and those *)
(* that move elements: copies, joins, permutations and views, slices and   *)
(* selections, pads, and those that pick elements by the values of an      *)
(* index tensor.                                                           *)
(***************************************************************************)
EXTENDS Tensors, SequencesExt

(* The portable kernels that reduce a tensor along some of its dimensions  *)
(* (kernels/portable/cpu/util/reduce_util.{h,cpp} and op_*.cpp).  An       *)
(* optional dimension is a sequence of at most one.                        *)

(* The out index is split along the kept dimensions, the last one first.   *)
get_init_index(t, dims, out_ix) ==
  LET kept(d) == ~check_dim_in_dim_list(d, dim(t), dims)
      below[d \in 0..dim(t)] ==          \* product of the kept sizes from d on
        IF d = dim(t) THEN 1 ELSE below[d + 1] * (IF kept(d) THEN size(t, d) ELSE 1)
  IN IF dims = <<>> THEN 0
     ELSE Sum([i \in 1..dim(t) |->
            IF kept(i - 1) THEN ((out_ix \div below[i]) % t.sizes[i]) * strides(t)[i] ELSE 0])

compute_reduced_out_size(t, dims, keepdim) ==
  LET gone(i) == dims = <<>> \/ check_dim_in_dim_list(i - 1, dim(t), dims)
      upto[n \in 0..dim(t)] ==
        IF n = 0 THEN <<>>
        ELSE upto[n - 1] \o (IF ~gone(n) THEN <<t.sizes[n]>> ELSE IF keepdim THEN <<1>> ELSE <<>>)
  IN upto[dim(t)]

resize_reduction_out(t, dims, keepdim, out, rest(_)) ==
  Resize(out, compute_reduced_out_size(t, dims, keepdim), rest)

-----------------------------------------------------------------------------
(* The loops.  Each returns the sequence of positions it visits.           *)
apply_on_flat_ix_with_stride_and_base(st, base, start, end) ==
  [n \in 1..(end - start + 1) |-> base + (start + n - 1) * st]

(* What the loop does after the counter of dimension d has reached its     *)
(* size: the counter goes back to 0, the position loses the stride of the  *)
(* dimension above, and the next reduced dimension above is advanced.  The *)
(* walk ends when there is none.                                           *)
RECURSIVE Carry(_, _, _, _, _)
Carry(t, mask, index, at, d) ==
  LET above == {e \in mask : e < d}
      e == Max(above)
  IN CASE index[d] # size(t, d) -> [index |-> index, at |-> at, more |-> TRUE]
       [] index[d] = size(t, d) /\ above = {} -> [index |-> index, at |-> at, more |-> FALSE]
       [] OTHER -> Carry(t, mask, [index EXCEPT ![d] = 0, ![e] = @ + 1],
                         at - stride(t, d - 1) + stride(t, e), e)

(* The stride of the dimension itself is subtracted.                       *)
RECURSIVE CarryOwnStride(_, _, _, _, _)
CarryOwnStride(t, mask, index, at, d) ==
  LET above == {e \in mask : e < d}
      e == Max(above)
  IN CASE index[d] # size(t, d) -> [index |-> index, at |-> at, more |-> TRUE]
       [] index[d] = size(t, d) /\ above = {} -> [index |-> index, at |-> at, more |-> FALSE]
       [] OTHER -> CarryOwnStride(t, mask, [index EXCEPT ![d] = 0, ![e] = @ + 1],
                                  at - stride(t, d) + stride(t, e), e)

step_with_own_stride(t, mask, index, at) ==
  LET inner == Max(mask)
  IN CarryOwnStride(t, mask, [index EXCEPT ![inner] = @ + 1], at + stride(t, inner), inner)

step_over_dim_mask(t, mask, index, at) ==
  LET inner == Max(mask)
  IN Carry(t, mask, [index EXCEPT ![inner] = @ + 1], at + stride(t, inner), inner)

RECURSIVE apply_on_flat_ix_with_dim_mask_and_base(_, _, _, _, _, _, _)
apply_on_flat_ix_with_dim_mask_and_base(t, mask, index, at, counter, start, end) ==
  LET here == IF counter \in start..end THEN <<at>> ELSE <<>>
      next == step_over_dim_mask(t, mask, index, at)
  IN IF counter + 1 > end \/ ~next.more THEN here
     ELSE here \o apply_on_flat_ix_with_dim_mask_and_base(
                    t, mask, next.index, next.at, counter + 1, start, end)

(* From the second element on: the first one initializes the accumulator.  *)
apply_over_dim_list(t, dims, out_ix) ==
  LET end == get_reduced_dim_product(t, dims) - 1
      mask == {_normalize_non_neg_d(dims[i], dim(t)) : i \in DOMAIN dims}
  IN IF dims = <<>> \/ dim(t) = 0 THEN apply_on_flat_ix_with_stride_and_base(1, 0, 1, end)
     ELSE apply_on_flat_ix_with_dim_mask_and_base(
            t, mask, [d \in Dims(t) |-> 0], get_init_index(t, dims, out_ix), 0, 1, end)

Visited(positions) == [n \in DOMAIN positions |-> <<1, positions[n]>>]

map_reduce_over_dim_list(t, dims, out_ix) ==
  LET first == <<get_init_index(t, dims, out_ix)>>
  IN Visited(IF numel(t) = 1 THEN first ELSE first \o apply_over_dim_list(t, dims, out_ix))

map_reduce_over_dim(t, d, out_ix) ==
  LET first == get_init_index(t, d, out_ix)
      end == get_reduced_dim_product(t, d) - 1
      st == IF d = <<>> THEN 1 ELSE stride(t, _normalize_non_neg_d(d[1], dim(t)))
  IN Visited(IF numel(t) = 1 THEN <<first>>
             ELSE <<first>> \o apply_on_flat_ix_with_stride_and_base(st, first, 1, end))

(* Both loops abort on an empty input, and on an out index that does not   *)
(* exist in the reduced shape.                                             *)
Reduce(t, dims, out, guarded, row(_)) ==
  IF /\ numel(out) > 0
     /\ \/ numel(t) = 0 /\ ~guarded
        \/ numel(t) > 0 /\ numel(out) > get_out_numel(t, dims)
  THEN Aborted(out)
  ELSE Written(out, LAMBDA i : IF numel(t) = 0 THEN <<>> ELSE row(i))

ReduceList(t, dims, out, guarded) ==
  Reduce(t, dims, out, guarded, LAMBDA i : map_reduce_over_dim_list(t, dims, i))
ReduceDim(t, d, out, guarded) ==
  Reduce(t, d, out, guarded, LAMBDA i : map_reduce_over_dim(t, d, i))

(* The rows along dimension d, for kernels that write where they read.     *)
apply_over_dim(t, d) ==
  LET n == size(t, d)
      st == stride(t, d)
  IN IF dim(t) = 0 THEN {<<0>>}
     ELSE IF numel(t) = 0 THEN {}
     ELSE {[i \in 1..n |-> o * n * st + r + (i - 1) * st] :
             o \in 0..(getLeadingDims(t, d) - 1), r \in 0..(st - 1)}

EachRow(t, d, out) ==
  LET rows == apply_over_dim(t, d)
  IN Outcome("Ok", out, [p \in UNION {Range(r) : r \in rows} |->
                           Visited(CHOOSE r \in rows : p \in Range(r))])

-----------------------------------------------------------------------------
(* Argument checks.                                                        *)
DtypeIs(dtype, out) == dtype # "None" => dtype = out.type

check_reduction_args(t, dims, dtype, out) ==
  /\ DtypeIs(dtype, out)
  /\ check_dim_list_is_valid(t, dims)
  /\ tensor_is_default_or_channels_last_dim_order(t)
  /\ tensor_is_default_or_channels_last_dim_order(out)

check_reduction_args_single_dim(t, d, dtype, out, allow_empty_dim) ==
  /\ DtypeIs(dtype, out)
  /\ IF dim(t) = 0 THEN d # <<>> => d[1] \in {0, -1}
     ELSE /\ d # <<>> => /\ dim_is_valid(d[1], dim(t))
                         /\ allow_empty_dim \/ tensor_has_non_empty_dim(t, d[1])
          /\ tensor_is_default_or_channels_last_dim_order(t)
          /\ tensor_is_default_or_channels_last_dim_order(out)

check_mean_dim_args(t, dims, dtype, out) ==
  /\ check_reduction_args(t, dims, dtype, out)
  /\ IF dtype # "None" THEN isFloatingType(dtype) /\ out.type = dtype
     ELSE isFloatingType(t.type) /\ isFloatingType(out.type)

check_amin_amax_args(t, dims, out) ==
  check_reduction_args(t, dims, "None", out) /\ t.type = out.type

check_argmin_argmax_args(t, d, out) ==
  check_reduction_args_single_dim(t, d, "None", out, FALSE) /\ out.type = "Long"

check_min_max_args(t, d, max, max_indices) ==
  /\ check_reduction_args_single_dim(t, <<d>>, "None", max, FALSE)
  /\ t.type = max.type
  /\ tensors_have_same_shape(max, max_indices)
  /\ tensor_is_default_or_channels_last_dim_order(max_indices)
  /\ max_indices.type = "Long"

check_prod_out_args(t, dtype, out) ==
  CASE dtype # "None" -> dtype = out.type
    [] dtype = "None" /\ isIntegralType(t.type, TRUE) -> out.type = "Long"
    [] OTHER -> out.type = t.type

check_cumsum_args(t, d, dtype, out) == dim_is_valid(d, dim(t)) /\ DtypeIs(dtype, out)

check_log_softmax_args(t, d, half_to_float, out) ==
  /\ ~half_to_float
  /\ t.type = out.type
  /\ tensor_has_dim(t, d)
  /\ tensor_is_default_or_channels_last_dim_order(t)
  /\ tensor_is_default_or_channels_last_dim_order(out)

check_topk_args(t, k, d, values, indices) ==
  /\ t.type = values.type
  /\ indices.type = "Long"
  /\ tensor_has_dim(t, d)
  /\ 0 <= k /\ k <= nonempty_size(t, ET_NORMALIZE_IX(d, nonzero_dim(t)))

-----------------------------------------------------------------------------
(* Kernels over a list of dimensions.  sum, mean and var take only tensors *)
(* in the default dimension order; the others also channels-last ones.     *)

sum_dim_out(t, dims, keepdim, dtype, out) ==
  Check(check_reduction_args(t, dims, dtype, out), out,
    resize_reduction_out(t, dims, keepdim, out, LAMBDA o :
      Check(tensors_have_same_dim_order(<<t, o>>) /\ tensor_is_default_dim_order(t), o,
        Switch(t.type, REALB, o, Switch(o.type, REALB, o, ReduceList(t, dims, o, TRUE))))))

mean_dim_out(t, dims, keepdim, dtype, out) ==
  Check(/\ check_mean_dim_args(t, dims, dtype, out)
        /\ tensors_have_same_dim_order(<<t, out>>)
        /\ tensor_is_default_dim_order(t), out,
    resize_reduction_out(t, dims, keepdim, out, LAMBDA o :
      Switch(t.type, REALHB, o, Switch(o.type, FLOATH, o, ReduceList(t, dims, o, TRUE)))))

amax_out(t, dims, keepdim, out) ==
  Check(check_amin_amax_args(t, dims, out), out,
    resize_reduction_out(t, dims, keepdim, out, LAMBDA o :
      Check(tensors_have_same_dim_order(<<t, o>>), o,
        Switch(t.type, REALB, o, ReduceList(t, dims, o, FALSE)))))

amin_out(t, dims, keepdim, out) ==
  Check(check_amin_amax_args(t, dims, out), out,
    resize_reduction_out(t, dims, keepdim, out, LAMBDA o :
      Check(tensors_have_same_dim_order(<<t, o>>), o,
        Switch(t.type, REALB, o, ReduceList(t, dims, o, FALSE)))))

(* `given' tells an empty list of dimensions from an absent one.           *)
any_dims_out(t, given, dims, keepdim, out) ==
  LET pointwise == given /\ dims = <<>>
      rest(o) ==
        Check(tensors_have_same_dim_order(<<t, o>>), o,
          Switch(t.type, REALHB, o, Switch(o.type, {"Bool", "Byte"}, o,
            IF pointwise THEN Written(o, LAMBDA i : << <<1, i>> >>) ELSE ReduceList(t, dims, o, TRUE))))
  IN Check(check_reduction_args(t, dims, "None", out), out,
       IF pointwise THEN Resize(out, t.sizes, rest)
       ELSE resize_reduction_out(t, dims, keepdim, out, rest))

compute_variance(t, dims, denominator, out) ==
  IF get_reduced_dim_product(t, dims) = 0 \/ denominator <= 0
  THEN Written(out, LAMBDA i : <<>>)
  ELSE ReduceList(t, dims, out, FALSE)

(* size_t: with no element at all the denominator wraps, and is not used.  *)
var_out(t, dims, unbiased, keepdim, out) ==
  LET num == get_reduced_dim_product(t, dims)
      denom == IF unbiased /\ num > 0 THEN num - 1 ELSE num
  IN Check(/\ check_reduction_args(t, dims, "None", out)
           /\ isFloatingType(t.type) /\ isFloatingType(out.type)
           /\ tensors_have_same_dim_order(<<t, out>>)
           /\ tensor_is_default_dim_order(t), out,
       resize_reduction_out(t, dims, keepdim, out, LAMBDA o :
         Switch(t.type, FloatTypes, o, Switch(o.type, FloatTypes, o,
           compute_variance(t, dims, denom, o)))))

var_correction_out(t, dims, correction, keepdim, out) ==
  Check(check_reduction_args(t, dims, "None", out), out,
    resize_reduction_out(t, dims, keepdim, out, LAMBDA o :
      Switch(t.type, FloatTypes, o, Switch(o.type, FloatTypes, o,
        compute_variance(t, dims, get_reduced_dim_product(t, dims) - correction, o)))))

-----------------------------------------------------------------------------
(* Kernels over one dimension.                                             *)
any_out(t, d, keepdim, out) ==
  Check(check_reduction_args_single_dim(t, <<d>>, "None", out, TRUE), out,
    resize_reduction_out(t, <<d>>, keepdim, out, LAMBDA o :
      Check(tensors_have_same_dim_order(<<t, o>>), o,
        Switch(t.type, REALHB, o, Switch(o.type, {"Bool", "Byte"}, o,
          ReduceDim(t, <<d>>, o, TRUE))))))

argmax_out(t, d, keepdim, out) ==
  Check(check_argmin_argmax_args(t, d, out), out,
    resize_reduction_out(t, d, keepdim, out, LAMBDA o :
      Check(tensors_have_same_dim_order(<<t, o>>), o,
        Switch(t.type, REAL, o, ReduceDim(t, d, o, FALSE)))))

argmin_out(t, d, keepdim, out) ==
  Check(check_argmin_argmax_args(t, d, out), out,
    resize_reduction_out(t, d, keepdim, out, LAMBDA o :
      Check(tensors_have_same_dim_order(<<t, o>>), o,
        Switch(t.type, REAL, o, ReduceDim(t, d, o, FALSE)))))

prod_int_out(t, d, keepdim, dtype, out) ==
  Check(check_reduction_args_single_dim(t, <<d>>, dtype, out, TRUE), out,
    resize_reduction_out(t, <<d>>, keepdim, out, LAMBDA o :
      Switch(t.type, REALHB, o, Switch(o.type, REALHB, o, ReduceDim(t, <<d>>, o, TRUE)))))

(* Two outputs, the values and the indices; both are written by one loop   *)
(* over the elements of the first.                                         *)
Both(r) ==
  [status |-> r.status, out |-> r.out, reads |-> <<r.reads, r.reads>>]

MinMax(t, d, keepdim, outs) ==
  Check(check_min_max_args(t, d, outs[1], outs[2]), outs,
    ResizeNth(outs, 1, compute_reduced_out_size(t, <<d>>, keepdim), LAMBDA o :
      ResizeNth(o, 2, o[1].sizes, LAMBDA os :
        Check(/\ tensors_have_same_dim_order(<<t, os[1]>>)
              /\ tensor_is_default_dim_order(os[2])
              /\ tensor_is_default_dim_order(t), os,
          Switch(t.type, REALB, os,
            Both([ReduceDim(t, <<d>>, os[1], FALSE) EXCEPT !.out = os]))))))

max_out(t, d, keepdim, outs) == MinMax(t, d, keepdim, outs)
min_out(t, d, keepdim, outs) == MinMax(t, d, keepdim, outs)

-----------------------------------------------------------------------------
(* Kernels over the whole tensor.                                          *)
Everything(t, out) == Written(out, LAMBDA i : [n \in 1..numel(t) |-> <<1, n - 1>>])

any_all_out(t, out) ==
  Resize(out, <<>>, LAMBDA o :
    Check(tensors_have_same_dim_order(<<t, o>>), o,
      Switch(t.type, REALHB, o, Switch(o.type, {"Bool", "Byte"}, o, Everything(t, o)))))

max_unary_out(t, out) ==
  Resize(out, <<>>, LAMBDA o :
    Check(tensors_have_same_dim_order(<<t, o>>) /\ canCast(t.type, o.type), o,
      Switch(t.type, REALHBBF16, o, Switch(o.type, REALHBBF16, o, Everything(t, o)))))

min_unary_out(t, out) ==
  Resize(out, <<>>, LAMBDA o :
    Check(tensors_have_same_dim_order(<<t, o>>) /\ canCast(t.type, o.type), o,
      Switch(t.type, REALHBBF16, o, Switch(o.type, REALHBBF16, o, Everything(t, o)))))

prod_out(t, dtype, out) ==
  Check(check_prod_out_args(t, dtype, out), out,
    Resize(out, <<>>, LAMBDA o :
      Switch(t.type, REALHB, o, Switch(o.type, REALHB, o, Everything(t, o)))))

-----------------------------------------------------------------------------
(* Kernels that keep the shape of their input.                             *)

(* Row by row: an element is the sum of the input element at its place and *)
(* the output element before it.  The reads are those of the inputs.       *)
cumsum_tensors(t, d, out) ==
  LET n == size(t, d)
      trailing == getTrailingDims(t, d)
      place(i) == (i \div trailing) % n                  \* coordinate along d
  IN CASE numel(t) = 0 -> Outcome("Ok", out, [i \in Positions(out) |-> <<>>])
       [] numel(t) # 0 /\ dim(t) = 0 -> Written(out, LAMBDA i : << <<1, 0>> >>)
       [] OTHER -> Written(out, LAMBDA i :
                     [j \in 1..(place(i) + 1) |-> <<1, i - (place(i) + 1 - j) * trailing>>])

cumsum_out(t, d, dtype, out) ==
  Check(check_cumsum_args(t, d, dtype, out) /\ tensors_have_same_dim_order(<<t, out>>), out,
    Resize(out, t.sizes, LAMBDA o :
      Switch(o.type, REALHBBF16, o, Switch(t.type, REALHBBF16, o,
        cumsum_tensors(t, IF dim(t) = 0 THEN 0 ELSE ET_NORMALIZE_IX(d, dim(t)), o)))))

softmax_out(t, d, half_to_float, out) ==
  Check(check_log_softmax_args(t, d, half_to_float, out), out,
    Resize(out, t.sizes, LAMBDA o :
      Check(tensors_have_same_dim_order(<<t, o>>), o,
        Switch(t.type, FLOATH, o, EachRow(t, ET_NORMALIZE_IX(d, nonzero_dim(t)), o)))))

log_softmax_out(t, d, half_to_float, out) ==
  Check(check_log_softmax_args(t, d, half_to_float, out), out,
    Resize(out, t.sizes, LAMBDA o :
      Check(tensors_have_same_dim_order(<<t, o>>), o,
        Switch(t.type, FloatTypes, o, EachRow(t, ET_NORMALIZE_IX(d, nonzero_dim(t)), o)))))

get_topk_target_size(t, k, d) == [i \in 1..dim(t) |-> IF i = d + 1 THEN k ELSE t.sizes[i]]

(* The k best elements of a row are selected from the whole row.           *)
perform_topk(t, k, d, outs) ==
  LET st == stride(t, d)
      n == size(t, d)
      row(i) == LET base == (i \div (k * st)) * n * st + (i % st)
                IN [j \in 1..n |-> <<1, base + (j - 1) * st>>]
  IN IF dim(t) = 0 THEN WrittenAll(outs, LAMBDA m, i : << <<1, 0>> >>)
     ELSE WrittenAll(outs, LAMBDA m, i : row(i))

(* `memory': whether the temp allocator has room for a row.                *)
topk_values(t, k, d, memory, outs) ==
  LET nd == ET_NORMALIZE_IX(d, nonzero_dim(t))
      target == get_topk_target_size(t, k, nd)
  IN Check(check_topk_args(t, k, d, outs[1], outs[2]), outs,
       ResizeNth(outs, 1, target, LAMBDA o :
         ResizeNth(o, 2, target, LAMBDA os :
           IF numel(t) = 0 \/ (k = 0 /\ dim(t) > 0) THEN WrittenAll(os, LAMBDA m, i : <<>>)
           ELSE Switch(t.type, REALH, os,
                  IF memory THEN perform_topk(t, k, nd, os)
                  ELSE Outcome("MemoryAllocationFailed", os, <<>>)))))

-----------------------------------------------------------------------------
(* The kernels that move elements: copies, joins, permutations and views,  *)
(* slices and selections, pads, and those that pick elements by the values *)
(* of an index tensor.                                                     *)

(* The kernels that move elements: copies, joins, permutations and views,  *)
(* slices and selections, pads.                                            *)

(* The portable kernels that move elements without computing on them:      *)
(* copies, views, slices, concatenations, permutations and padding         *)
(* (kernels/portable/cpu/op_*.cpp with util/copy_ops_util, select_copy_util, *)
(* slice_util, transpose_util and repeat_util).                            *)

(* C++ integer remainder: the sign of the dividend.                        *)
Remainder(a, n) == IF a < 0 THEN -((-a) % n) ELSE a % n

Without(s, i) == SubSeq(s, 1, i - 1) \o SubSeq(s, i + 1, Len(s))

(* memcpy of the whole input to the start of the output.                   *)
CopyAll(t, out) == Outcome("Ok", out, [i \in Positions(t) |-> <<<<1, i>>>>])

(* Position i of a tensor whose dimension d has n elements, T elements     *)
(* after each, taken from a tensor with m elements in that dimension, the  *)
(* f(j)-th for the j-th.                                                   *)
Along(i, n, T, m, f(_)) == ((i \div (n * T)) * m + f((i \div T) % n)) * T + (i % T)

-----------------------------------------------------------------------------
coordinateToIndexWithDimOrder(t, coord) == calculate_linear_index(coord, strides(t))

check__to_dim_order_copy_args(t, non_blocking, dim_order, out) ==
  /\ ~non_blocking
  /\ IF dim_order # <<>>
     THEN /\ Len(dim_order[1]) = dim(t)
          /\ is_channels_last_dim_order(dim_order[1]) \/ is_contiguous_dim_order(dim_order[1])
          /\ out.order = dim_order[1]
     ELSE out.order = t.order

(* The coordinate is advanced before its element is copied; a whole turn   *)
(* of the counter visits every coordinate.  dim_order: at most one.        *)
_to_dim_order_copy_out(t, non_blocking, dim_order, out) ==
  LET coords(o) == {c \in [1..dim(o) -> 0..Max({0} \cup Range(o.sizes))] :
                      \A d \in DOMAIN c : c[d] < o.sizes[d]}
  IN Check(check__to_dim_order_copy_args(t, non_blocking, dim_order, out), out,
     Resize(out, t.sizes, LAMBDA o :
       Switch(t.type, REALHB, o, Switch(o.type, REALHB, o,
         Outcome("Ok", o,
           [p \in {coordinateToIndexWithDimOrder(o, c) : c \in coords(o)} |->
              <<<<1, coordinateToIndexWithDimOrder(t,
                       CHOOSE c \in coords(o) : coordinateToIndexWithDimOrder(o, c) = p)>>>>])))))

(* In elements of the input.                                               *)
as_strided_copy_compute_storage_nbytes(sizes, st) ==
  IF 0 \in Range(sizes) THEN 0
  ELSE 1 + Sum([i \in DOMAIN sizes |-> st[i] * (sizes[i] - 1)])

check_as_strided_copy_args(t, sizes, st, offset, out) ==
  /\ t.type = out.type
  /\ Len(sizes) = Len(st)
  /\ \A i \in DOMAIN st : st[i] >= 0
  /\ offset >= 0
  /\ LET storage == as_strided_copy_compute_storage_nbytes(sizes, st)
     IN storage = 0 \/ storage + offset <= numel(t)

as_strided_copy(t, sizes, st, offset, out) ==
  Written(out, LAMBDA i :
    <<<<1, offset + calculate_linear_index(delinearize_index(i, sizes), st)>>>>)

as_strided_copy_out(t, sizes, st, offset, out) ==
  Check(check_as_strided_copy_args(t, sizes, st, offset, out), out,
  Resize(out, sizes, LAMBDA o :
    Check(tensors_have_same_dim_order(<<t, o>>) /\ tensor_is_default_dim_order(t), o,
      IF numel(t) = 0 THEN Outcome("Ok", o, <<>>)
      ELSE as_strided_copy(t, sizes, st, offset, o))))

-----------------------------------------------------------------------------
FirstOr(S, default) == IF S = {} THEN default ELSE Min(S)

check_cat_args(ts, d, out) ==
  LET filled == {i \in DOMAIN ts : numel(ts[i]) > 0}
      ref == ts[FirstOr(filled, 1)]
  IN /\ ts # <<>>
     /\ \A i \in DOMAIN ts :
          /\ canCast(ts[i].type, out.type)
          /\ tensors_have_same_dim_order(<<ts[i], out>>)
          /\ i \in filled => /\ tensor_is_rank(ref, dim(ts[i]))
                             /\ \A e \in Dims(ts[i]) \ {d} :
                                  tensors_have_same_size_at_dims(ts[i], e, ref, e)
     /\ numel(ref) = 0 \/ dim(ref) > d
     /\ d >= 0

(* The reference shape comes from the last tensor that is not an empty     *)
(* one-dimensional one; empty tensors do not count along the dimension.    *)
get_cat_out_target_size(ts, d) ==
  LET real == {i \in DOMAIN ts : dim(ts[i]) # 1 \/ numel(ts[i]) # 0}
      ref == ts[IF real = {} THEN 1 ELSE Max(real)]
      length == Sum([i \in DOMAIN ts |-> IF numel(ts[i]) > 0 THEN size(ts[i], d) ELSE 0])
  IN [e \in 1..dim(ref) |-> IF e - 1 = d THEN length ELSE ref.sizes[e]]

cat_out(ts, dd, out) ==
  LET d == IF dd < 0 THEN dd + dim(out) ELSE dd
  IN Check(check_cat_args(ts, d, out), out,
     Resize(out, get_cat_out_target_size(ts, d), LAMBDA o :
       IF \A i \in DOMAIN ts : numel(ts[i]) = 0 /\ dim(ts[i]) = 1 THEN Outcome("Ok", o, <<>>)
       ELSE IF d >= dim(o) THEN Aborted(o)
       ELSE LET outer == getLeadingDims(o, d)
                inner == [j \in DOMAIN ts |->
                            IF numel(ts[j]) = 0 THEN 0 ELSE size(ts[j], d) * getTrailingDims(o, d)]
                before(j) == Sum(SubSeq(inner, 1, j - 1))
                all == Sum(inner)
                from(r) == CHOOSE j \in DOMAIN ts : before(j) <= r /\ r < before(j) + inner[j]
            IN Switch(o.type, REALHB, o,
                 IF outer > 0 /\ \E j \in DOMAIN ts : ts[j].type \notin REALHB THEN Aborted(o)
                 ELSE Outcome("Ok", o, [p \in 0..(outer * all - 1) |->
                   LET j == from(p % all)
                   IN <<<<j, (p \div all) * inner[j] + (p % all) - before(j)>>>>]))))

check_stack_args(ts, d, out) ==
  /\ ts # <<>>
  /\ \A i \in DOMAIN ts :
       /\ canCast(ts[i].type, out.type)
       /\ tensor_is_rank(ts[i], dim(ts[1]))
       /\ \A e \in Dims(ts[i]) : tensors_have_same_size_at_dims(ts[i], e, ts[1], e)
  /\ d >= 0 /\ d < dim(ts[1]) + 1

get_stack_out_target_size(ts, d) ==
  SubSeq(ts[1].sizes, 1, d) \o <<Len(ts)>> \o SubSeq(ts[1].sizes, d + 1, dim(ts[1]))

stack_out(ts, dd, out) ==
  LET d == IF dd < 0 THEN dd + dim(out) ELSE dd
  IN Check(/\ check_stack_args(ts, d, out)
           /\ \A i \in DOMAIN ts : tensors_have_same_dim_order(<<ts[i], out>>)
           /\ tensor_is_default_dim_order(out), out,
     Resize(out, get_stack_out_target_size(ts, d), LAMBDA o :
       LET inner == getTrailingDims(o, d)
       IN Switch(o.type, REALB, o,
            IF getLeadingDims(o, d) > 0 /\ \E i \in DOMAIN ts : ts[i].type \notin REALB
            THEN Aborted(o)
            ELSE Written(o, LAMBDA p :
                   <<<<((p \div inner) % Len(ts)) + 1,
                       (p \div (inner * Len(ts))) * inner + (p % inner)>>>>))))

-----------------------------------------------------------------------------
(* Repetition.                                                             *)
check_repeat_args(t, repeats, out) ==
  /\ Len(repeats) >= dim(t)
  /\ \A i \in DOMAIN repeats : repeats[i] >= 0
  /\ dim(out) = Len(repeats)
  /\ dim(out) <= kTensorDimensionLimit
  /\ t.type = out.type
  /\ LET skip == dim(out) - dim(t)
     IN \A i \in DOMAIN repeats :
          repeats[i] * (IF i <= skip THEN 1 ELSE t.sizes[i - skip]) = out.sizes[i]

(* The last dimensions of the output are covered with copies of the rows   *)
(* of the input, at multiples of its sizes; the block so filled is then    *)
(* copied over the dimensions in front.                                    *)
repeat_tensor(t, repeats, out) ==
  LET self == IF dim(t) = 0 THEN <<1>> ELSE t.sizes
      tail == SubSeq(out.sizes, dim(out) - Len(self) + 1, dim(out))
      block == Product(tail)
      at(p) == LET c == delinearize_index(p % block, tail)
               IN Sum([k \in DOMAIN self |->
                    (c[k] % self[k]) * Product(SubSeq(self, k + 1, Len(self)))])
  IN IF ~check_repeat_args(t, repeats, out) THEN Refused(out)
     ELSE Written(out, LAMBDA p : <<<<1, IF numel(out) = 1 THEN 0 ELSE at(p)>>>>)

calculate_output_size(sizes, repeats) ==
  LET skip == Len(repeats) - Len(sizes)
  IN [i \in DOMAIN repeats |-> repeats[i] * (IF i <= skip THEN 1 ELSE sizes[i - skip])]

repeat_out(t, repeats, out) ==
  Check(/\ Len(repeats) < kTensorDimensionLimit
        /\ Len(repeats) >= dim(t)
        /\ tensors_have_same_dim_order(<<t, out>>)
        /\ tensor_is_default_dim_order(t), out,
  Resize(out, calculate_output_size(t.sizes, repeats), LAMBDA o : repeat_tensor(t, repeats, o)))

check_expand_copy_args(t, sizes, implicit, out) ==
  /\ ~implicit
  /\ Len(sizes) >= dim(t)
  /\ Len(sizes) <= kTensorDimensionLimit
  /\ t.type = out.type

ExpandAccepts(sizes, expand) ==
  LET skip == Len(expand) - Len(sizes)
  IN \A j \in DOMAIN expand :
       IF j <= skip THEN expand[j] >= 0
       ELSE expand[j] = -1 \/ sizes[j - skip] = 1 \/ expand[j] = sizes[j - skip]

get_expand_copy_out_target_size(sizes, expand) ==
  [j \in DOMAIN expand |-> IF expand[j] = -1 THEN sizes[j - (Len(expand) - Len(sizes))] ELSE expand[j]]

map_expand_to_repeats(sizes, expand) ==
  LET skip == Len(expand) - Len(sizes)
  IN [j \in DOMAIN expand |->
        IF j > skip /\ expand[j] \in {-1, sizes[j - skip]} THEN 1 ELSE expand[j]]

expand_copy_out(t, expand, implicit, out) ==
  Check(check_expand_copy_args(t, expand, implicit, out) /\ ExpandAccepts(t.sizes, expand), out,
  Resize(out, get_expand_copy_out_target_size(t.sizes, expand), LAMBDA o :
    Check(tensors_have_same_dim_order(<<t, o>>) /\ tensor_is_default_dim_order(t), o,
      repeat_tensor(t, map_expand_to_repeats(t.sizes, expand), o))))

-----------------------------------------------------------------------------
(* Permutations of the elements.                                           *)
check_flip_args(t, dims, out) == t.type = out.type /\ check_dim_list_is_valid(t, dims)

unflip_flat_ix(i, t, flipped) ==
  LET c == indexToCoordinate(t, i)
  IN coordinateToIndex(t, [d \in 1..dim(t) |-> IF d - 1 \in flipped THEN t.sizes[d] - c[d] - 1 ELSE c[d]])

flip_out(t, dims, out) ==
  Resize(out, t.sizes, LAMBDA o :
    Check(tensors_have_same_dim_order(<<t, o>>) /\ check_flip_args(t, dims, o), o,
    Switch(t.type, REALHB, o,
      LET flipped == {IF dims[i] < 0 THEN dims[i] + nonzero_dim(t) ELSE dims[i] : i \in DOMAIN dims}
      IN Written(o, LAMBDA i : <<<<1, unflip_flat_ix(i, t, flipped)>>>>))))

check_roll_args(t, shifts, dims, out) ==
  /\ tensor_has_rank_greater_or_equal_to(t, 1)
  /\ numel(t) > 0 => \A i \in DOMAIN dims : dim_is_valid(dims[i], dim(t))
  /\ shifts # <<>>
  /\ Len(shifts) = Len(dims)
  /\ t.type = out.type

unshift_flat_ix(i, t, shifts) ==
  LET c == indexToCoordinate(t, i)
  IN coordinateToIndex(t, [d \in 1..dim(t) |->
       (c[d] + t.sizes[d] - Remainder(shifts[d], t.sizes[d])) % t.sizes[d]])

roll_out(t, shifts, dims, out) ==
  Resize(out, t.sizes, LAMBDA o :
    Check(check_roll_args(t, shifts, dims, o) /\ tensors_have_same_dim_order(<<t, o>>), o,
    IF numel(t) = 0 THEN Outcome("Ok", o, <<>>)
    ELSE LET by == [d \in 1..dim(t) |-> Sum([i \in DOMAIN dims |->
                      IF ET_NORMALIZE_IX(dims[i], dim(t)) = d - 1 THEN shifts[i] ELSE 0])]
         IN Switch(t.type, REALHB, o, Written(o, LAMBDA i : <<<<1, unshift_flat_ix(i, t, by)>>>>))))

check_permute_copy_args(t, dims, out) ==
  /\ tensor_is_rank(t, Len(dims))
  /\ t.type = out.type
  /\ \A i \in DOMAIN dims : tensor_has_dim(t, dims[i])
  /\ \A i, j \in DOMAIN dims :
       i # j => ET_NORMALIZE_IX(dims[i], dim(t)) # ET_NORMALIZE_IX(dims[j], dim(t))

get_permute_copy_out_target_size(t, dims) ==
  [i \in DOMAIN dims |-> size(t, ET_NORMALIZE_IX(dims[i], dim(t)))]

(* The coordinate counts in the order of the permuted dimensions.          *)
permute_copy_out(t, dims, out) ==
  Check(check_permute_copy_args(t, dims, out) /\ tensors_have_same_dim_order(<<t, out>>), out,
  Resize(out, get_permute_copy_out_target_size(t, dims), LAMBDA o :
    LET place(d) == CHOOSE i \in DOMAIN dims : ET_NORMALIZE_IX(dims[i], dim(t)) = d - 1
    IN Written(o, LAMBDA i :
         LET c == delinearize_index(i, o.sizes)
         IN <<<<1, coordinateToIndex(t, [d \in 1..dim(t) |-> c[place(d)]])>>>>)))

Swapped(s, a, b) == [s EXCEPT ![a + 1] = s[b + 1], ![b + 1] = s[a + 1]]

(* The input is walked with its own strides, swapped; the output is filled *)
(* from its first position on.                                             *)
transpose_tensors(t, d0, d1, out) ==
  Written(out, LAMBDA i :
    <<<<1, IF dim(t) = 0 THEN 0
           ELSE calculate_linear_index(delinearize_index(i, Swapped(t.sizes, d0, d1)),
                                       Swapped(strides(t), d0, d1))>>>>)

get_transpose_out_target_size(t, d0, d1) ==
  IF dim(t) = 0 THEN <<>> ELSE Swapped(t.sizes, d0, d1)

check_transpose_copy_args(t, d0, d1, out) ==
  t.type = out.type /\ tensor_has_dim(t, d0) /\ tensor_has_dim(t, d1)

transpose_copy_int_out(t, dd0, dd1, out) ==
  LET d0 == IF dd0 < 0 THEN dd0 + nonzero_dim(t) ELSE dd0
      d1 == IF dd1 < 0 THEN dd1 + nonzero_dim(t) ELSE dd1
  IN Check(check_transpose_copy_args(t, dd0, dd1, out), out,
     Resize(out, get_transpose_out_target_size(t, d0, d1), LAMBDA o :
       Check(tensors_have_same_dim_order(<<t, o>>), o, transpose_tensors(t, d0, d1, o))))

check_t_copy_args(t, out) == t.type = out.type /\ tensor_has_rank_smaller_or_equal_to(t, 2)

t_copy_out(t, out) ==
  Check(check_t_copy_args(t, out), out,
  IF dim(t) < 2 THEN Resize(out, t.sizes, LAMBDA o : CopyAll(t, o))
  ELSE Check(tensors_have_same_dim_order(<<t, out>>) /\ tensor_is_default_dim_order(t), out,
       Resize(out, get_transpose_out_target_size(t, 1, 0), LAMBDA o : transpose_tensors(t, 1, 0, o))))

-----------------------------------------------------------------------------
(* The portable kernels that take parts of a tensor, put parts into one,   *)
(* or change its shape (kernels/portable/cpu/op_*.cpp).  An optional       *)
(* integer is a sequence of at most one.                                   *)

check_select_copy_out_args(t, d, index, out) ==
  /\ tensor_has_rank_greater_or_equal_to(t, 1)
  /\ tensor_has_dim(t, d)
  /\ tensor_dim_has_index(t, d, index)
  /\ t.type = out.type

get_select_copy_out_target_size(t, d) == Without(t.sizes, d + 1)

select_copy_util(t, dd, ix, out) ==
  LET d == IF dd < 0 THEN dd + nonzero_dim(t) ELSE dd
      index == IF ix < 0 THEN ix + size(t, d) ELSE ix
  IN Check(check_select_copy_out_args(t, dd, ix, out), out,
     Resize(out, get_select_copy_out_target_size(t, d), LAMBDA o :
       Check(tensors_have_same_dim_order(<<t, o>>), o,
         Written(o, LAMBDA i : <<<<1, Along(i, 1, getTrailingDims(t, d), size(t, d), LAMBDA j : index)>>>>))))

select_copy_int_out(t, d, index, out) == select_copy_util(t, d, index, out)

(* The dimension is used before it                                         *)
(* is wrapped: TensorImpl::size aborts on a negative one.                  *)
check_narrow_copy_args(t, d, start, length) ==
  LET from == IF start < 0 THEN start + size(t, d) ELSE start
  IN -size(t, d) <= start /\ start <= size(t, d) /\ from + length <= size(t, d)

get_narrow_copy_out_target_size(t, d, length) == [t.sizes EXCEPT ![d + 1] = length]

compute_slice(t, d, start, length, step, out) ==
  LET T == getTrailingDims(t, d)
  IN Outcome("Ok", out, [i \in 0..(getLeadingDims(t, d) * length * T - 1) |->
       <<<<1, Along(i, length, T, size(t, d), LAMBDA j : start + j * step)>>>>])

(* The wrapped start is wrapped for the check only.                        *)
narrow_copy_out(t, d, start, length, out) ==
  Check(dim(t) > 0 /\ t.type = out.type /\ tensor_has_dim(t, d) /\ length >= 0, out,
  IF d < 0 THEN Aborted(out)
  ELSE Check(check_narrow_copy_args(t, d, start, length), out,
       Resize(out, get_narrow_copy_out_target_size(t, d, length), LAMBDA o :
         compute_slice(t, d, start, length, 1, o))))

check_slice_copy_args(t, d, step, out) ==
  dim(t) > 0 /\ t.type = out.type /\ tensor_has_dim(t, d) /\ step > 0

(* [start, end) with the ends counted from the back when negative and cut  *)
(* to the dimension; the number of values in it.                           *)
adjust_slice_indices(n, start, end, step) ==
  LET within(x) == Min({n, Max({0, IF x < 0 THEN x + n ELSE x})})
      s == within(start)
      e == within(end)
  IN [start |-> s,
      values |-> IF s >= n \/ e <= 0 \/ s >= e THEN 0 ELSE ((e - 1 - s) \div step) + 1]

get_slice_copy_out_target_size(t, d, length) == get_narrow_copy_out_target_size(t, d, length)

slice_copy_Tensor_out(t, dd, start, end, step, out) ==
  LET d == IF dd < 0 THEN dd + dim(t) ELSE dd
      at == adjust_slice_indices(size(t, d), IF start = <<>> THEN 0 ELSE start[1],
                                 IF end = <<>> THEN size(t, d) ELSE end[1], step)
  IN Check(check_slice_copy_args(t, dd, step, out) /\ tensors_have_same_dim_order(<<t, out>>), out,
     Resize(out, get_slice_copy_out_target_size(t, d, at.values), LAMBDA o :
       compute_slice(t, d, at.start, at.values, step, o)))

(* The last dimension is not compared.                                     *)
check_slice_scatter_args(t, src, d, values, step, out) ==
  /\ dim(t) > 0
  /\ dim_is_valid(d, dim(t))
  /\ tensors_have_same_shape_and_dtype(t, out)
  /\ tensors_have_same_rank(t, src)
  /\ step > 0
  /\ \A e \in 0..(dim(t) - 2) :
       IF e # d THEN tensors_have_same_size_at_dims(t, e, src, e) ELSE size(src, e) = values

(* Operand 1 is the input, operand 2 the source.                           *)
slice_scatter_out(t, src, dd, start, end, step, out) ==
  LET d == IF dd < 0 THEN dd + dim(t) ELSE dd
      n == size(t, d)
      at == adjust_slice_indices(n, IF start = <<>> THEN 0 ELSE start[1],
                                 IF end = <<>> THEN n ELSE end[1], step)
      T == getTrailingDims(t, d)
      place(i) == (i \div T) % n          \* index along d
      chosen(i) == /\ place(i) >= at.start
                   /\ (place(i) - at.start) % step = 0
                   /\ (place(i) - at.start) \div step < at.values
      from(i) == ((i \div (n * T)) * at.values + ((place(i) - at.start) \div step)) * T + (i % T)
  IN Resize(out, t.sizes, LAMBDA o :
       Check(tensors_have_same_dim_order(<<t, o>>), o,
       IF numel(t) = 0 THEN Outcome("Ok", o, <<>>)
       ELSE Check(d >= 0 /\ d < dim(t) /\ step > 0, o,
            Check(check_slice_scatter_args(t, src, d, at.values, step, o), o,
            Switch(t.type, REALHBBF16, o, Switch(src.type, REALHBBF16, o,
              Written(o, LAMBDA i : IF chosen(i) THEN <<<<2, from(i)>>>> ELSE <<<<1, i>>>>)))))))

check_select_scatter_args(t, src, d, index, out) ==
  /\ t.type = out.type
  /\ dim_is_valid(d, dim(t))
  /\ index >= 0 /\ index < size(t, d)
  /\ dim(t) = dim(src) + 1
  /\ \A e \in 0..(dim(t) - 2) :
       tensors_have_same_size_at_dims(t, IF e < d THEN e ELSE e + 1, src, e)

select_scatter_out(t, src, dd, ix, out) ==
  LET d == IF dd < 0 THEN dd + dim(t) ELSE dd
      index == IF ix < 0 THEN ix + size(t, d) ELSE ix
      T == getTrailingDims(t, d)
  IN Resize(out, t.sizes, LAMBDA o :
       Check(tensors_have_same_dim_order(<<t, src, o>>) /\ d >= 0 /\ d < dim(t), o,
       Check(check_select_scatter_args(t, src, d, index, o), o,
       IF numel(t) = 0 THEN Outcome("Ok", o, <<>>)
       ELSE Switch(t.type, REALB, o, Switch(src.type, REALB, o,
              Written(o, LAMBDA i :
                IF (i \div T) % size(t, d) = index
                THEN <<<<2, (i \div (size(t, d) * T)) * T + (i % T)>>>> ELSE <<<<1, i>>>>))))))

-----------------------------------------------------------------------------
(* Kernels with several outputs.                                           *)
check_split_copy_args(t, n, d, outs) ==
  /\ dim(t) > 0 /\ d >= 0 /\ d < dim(t)
  /\ n >= 0
  /\ n > 0 \/ size(t, d) = 0
  /\ LET len == size(t, d)
         expected == IF n >= len THEN 1 ELSE (len + n - 1) \div n
         last == IF n >= len THEN len ELSE IF len % n = 0 THEN n ELSE len % n
     IN /\ Len(outs) = expected
        /\ \A k \in DOMAIN outs :
             /\ outs[k].type = outs[1].type
             /\ dim(outs[k]) = dim(t)
             /\ \A e \in Dims(t) :
                  size(outs[k], e) = IF e # d THEN size(t, e) ELSE IF k < Len(outs) THEN n ELSE last

(* Chunk k of the input along d, the chunks before it skipped.             *)
Chunks(t, d, outs, length(_)) ==
  LET T == getTrailingDims(t, d)
      before(k) == Sum([j \in 1..(k - 1) |-> length(j)])
  IN Switch(t.type, REALB, outs, Switch(outs[1].type, REALB, outs,
       WrittenAll(outs, LAMBDA k, i :
         <<<<1, Along(i, length(k), T, size(t, d), LAMBDA j : before(k) + j)>>>>)))

split_copy_Tensor_out(t, n, dd, outs) ==
  LET d == IF dd < 0 THEN dd + dim(t) ELSE dd
  IN Check(/\ check_split_copy_args(t, n, d, outs)
           /\ \A k \in DOMAIN outs : tensors_have_same_dim_order(<<t, outs[k]>>), outs,
           Chunks(t, d, outs, LAMBDA k : size(outs[k], d)))

check_split_with_sizes_copy_args(t, ns, d, outs) ==
  /\ tensor_has_rank_greater_or_equal_to(t, 1)
  /\ tensor_has_dim(t, d)
  /\ Len(ns) = Len(outs)
  /\ \A k \in DOMAIN ns : ns[k] >= 0

get_split_with_sizes_copy_out_target_size(t, n, d) == [t.sizes EXCEPT ![d + 1] = n]

(* A dimension still negative after wrapping aborts in TensorImpl::size.   *)
split_with_sizes_copy_out(t, ns, dd, outs) ==
  LET d == IF dd < 0 THEN dd + dim(t) ELSE dd
  IN Check(check_split_with_sizes_copy_args(t, ns, d, outs), outs,
     IF d < 0 THEN Aborted(outs)
     ELSE Check(/\ Sum(ns) = size(t, d)
                /\ \A k \in DOMAIN outs : tensors_have_same_dim_order(<<t, outs[k]>>), outs,
          IF outs = <<>> THEN Outcome("Ok", outs, <<>>)
          ELSE ResizeEach(outs, LAMBDA k : get_split_with_sizes_copy_out_target_size(t, ns[k], d), LAMBDA os :
                 Chunks(t, d, os, LAMBDA k : ns[k]))))

check_unbind_copy_args(t, d, outs) ==
  /\ dim(t) > 0
  /\ dim_is_valid(d, dim(t))
  /\ size(t, d) = Len(outs)
  /\ \A k \in DOMAIN outs : outs[k].type = outs[1].type /\ outs[k].sizes = Without(t.sizes, d + 1)

unbind_copy_int_out(t, dd, outs) ==
  LET d == IF dd < 0 THEN dd + dim(t) ELSE dd
      T == getTrailingDims(t, d)
  IN IF dim(t) > 0 /\ d < 0 /\ dim_is_valid(d, dim(t)) THEN Aborted(outs)
     ELSE Check(/\ check_unbind_copy_args(t, d, outs)
                /\ \A k \in DOMAIN outs : tensors_have_same_dim_order(<<t, outs[k]>>)
                /\ tensor_is_default_dim_order(t), outs,
          IF numel(t) = 0 THEN WrittenAll(outs, LAMBDA k, i : <<>>)
          ELSE Switch(t.type, REALB, outs, Switch(outs[1].type, REALB, outs,
                 WrittenAll(outs, LAMBDA k, i : <<<<1, Along(i, 1, T, size(t, d), LAMBDA j : k - 1)>>>>))))

-----------------------------------------------------------------------------
(* Changes of shape that keep every element in place.                      *)
check_squeeze_copy_dim_args(t, d, out) == t.type = out.type /\ tensor_has_dim(t, d)

get_squeeze_copy_dim_out_target_size(t, d) ==
  IF dim(t) # 0 /\ size(t, d) = 1 THEN Without(t.sizes, d + 1) ELSE t.sizes

squeeze_copy_dim_out(t, dd, out) ==
  LET d == IF dd < 0 THEN dd + nonzero_dim(t) ELSE dd
  IN Check(/\ check_squeeze_copy_dim_args(t, dd, out)
           /\ tensors_have_same_dim_order(<<t, out>>)
           /\ tensor_is_default_dim_order(t), out,
     Resize(out, get_squeeze_copy_dim_out_target_size(t, d), LAMBDA o : CopyAll(t, o)))

check_squeeze_copy_dims_args(t, dims, out) ==
  LET norm(i) == IF dims[i] < 0 THEN dims[i] + nonzero_dim(t) ELSE dims[i]
  IN /\ t.type = out.type
     /\ \A i \in DOMAIN dims : tensor_has_dim(t, norm(i))
     /\ \A i, j \in DOMAIN dims : i # j => norm(i) # norm(j)

(* The rank and the sizes are computed apart.                              *)
get_squeeze_copy_dims_out_target_size(t, dims) ==
  LET gone == {IF dims[i] < 0 THEN dims[i] + nonzero_dim(t) ELSE dims[i] : i \in DOMAIN dims}
      upto[n \in 0..dim(t)] ==
        IF n = 0 THEN <<>>
        ELSE upto[n - 1] \o (IF n - 1 \notin gone \/ t.sizes[n] # 1 THEN <<t.sizes[n]>> ELSE <<>>)
  IN upto[dim(t)]

(* A wrapped dimension that is still negative aborts in TensorImpl::size.  *)
squeeze_copy_dims_out(t, dims, out) ==
  Check(/\ check_squeeze_copy_dims_args(t, dims, out)
        /\ tensors_have_same_dim_order(<<t, out>>)
        /\ tensor_is_default_dim_order(t), out,
  IF dim(t) > 0 /\ \E i \in DOMAIN dims : dims[i] + dim(t) < 0 THEN Aborted(out)
  ELSE Resize(out, get_squeeze_copy_dims_out_target_size(t, dims), LAMBDA o : CopyAll(t, o)))

check_unsqueeze_copy_args(t, d, out) ==
  /\ d >= 0
  /\ t.type = out.type
  /\ tensor_has_dim(out, d)
  /\ dim(t) = dim(out) - 1
  /\ \A e \in Dims(out) :
       size(out, e) = IF e < d THEN size(t, e) ELSE IF e > d THEN size(t, e - 1) ELSE 1

unsqueeze_copy_out(t, dd, out) ==
  LET d == IF dd < 0 THEN dd + dim(out) ELSE dd
  IN Check(d >= 0 /\ dim(t) + 1 = dim(out) /\ d <= dim(t), out,
     Resize(out, SubSeq(t.sizes, 1, d) \o <<1>> \o SubSeq(t.sizes, d + 1, dim(t)), LAMBDA o :
       Check(check_unsqueeze_copy_args(t, d, o), o, CopyAll(t, o))))

check_view_copy_args(t, sizes, out) ==
  /\ Len(sizes) = dim(out)
  /\ numel(t) = numel(out)
  /\ t.type = out.type
  /\ Cardinality({i \in DOMAIN sizes : sizes[i] = -1}) <= 1
  /\ \A i \in DOMAIN sizes : out.sizes[i] = sizes[i] \/ sizes[i] = -1

(* The size -1 stands for what is left of the elements.                    *)
get_view_copy_target_size(t, sizes) ==
  LET known == Product([i \in DOMAIN sizes |-> IF sizes[i] = -1 THEN 1 ELSE sizes[i]])
  IN [i \in DOMAIN sizes |-> IF sizes[i] = -1 THEN numel(t) \div known ELSE sizes[i]]

(* A zero beside the -1 is a division by zero, which ends the process.     *)
view_copy_out(t, sizes, out) ==
  Check(Len(sizes) = dim(out) /\ Cardinality({i \in DOMAIN sizes : sizes[i] = -1}) <= 1, out,
  IF {0, -1} \subseteq Range(sizes) THEN Aborted(out)
  ELSE Resize(out, get_view_copy_target_size(t, sizes), LAMBDA o :
         Check(/\ tensors_have_same_dim_order(<<t, o>>)
               /\ tensor_is_default_dim_order(t)
               /\ check_view_copy_args(t, sizes, o), o, CopyAll(t, o))))

-----------------------------------------------------------------------------
(* The portable kernels that pad a tensor, rearrange its planes, take its  *)
(* diagonals or triangles, gate one half of it by the other, or measure    *)
(* the distances of its rows (kernels/portable/cpu/op_*.cpp with           *)
(* util/padding_util and util/distance_util).                              *)

check_padding_args(n, t, padding, out, reflection) ==
  /\ Len(padding) = 2 * n
  /\ dim(t) \in {n + 1, n + 2}
  /\ t.type = out.type
  /\ \A i \in 1..n :
       LET length == size(t, dim(t) - i)
       IN /\ length + padding[2 * i - 1] + padding[2 * i] >= 0
          /\ reflection => padding[2 * i - 1] < length /\ padding[2 * i] < length

(* The pads are listed from the last dimension on.                         *)
get_padding_out_target_size(n, t, padding) ==
  [d \in 1..dim(t) |->
     LET i == dim(t) - d + 1
     IN IF i <= n THEN t.sizes[d] + padding[2 * i - 1] + padding[2 * i] ELSE t.sizes[d]]

replication_ix(j, length, pad) ==
  IF j < pad THEN 0 ELSE IF j < length + pad THEN j - pad ELSE length - 1

reflection_ix(j, length, pad) ==
  IF j < pad THEN pad - j ELSE IF j < length + pad THEN j - pad ELSE 2 * length + pad - j - 2

(* pad1d, pad2d and pad3d: the last n dimensions are mapped, each by its   *)
(* own pad; the ones in front are walked together.                         *)
PadLast(n, ix(_, _, _), t, out, padding) ==
  LET c(i) == indexToCoordinate(out, i)
      source(i) == [d \in 1..dim(t) |->
        LET k == dim(t) - d + 1
        IN IF k <= n THEN ix(c(i)[d], t.sizes[d], padding[2 * k - 1]) ELSE c(i)[d]]
  IN Written(out, LAMBDA i : <<<<1, coordinateToIndex(t, source(i))>>>>)

ReflectionPad(n, t, padding, out) ==
  Check(/\ check_padding_args(n, t, padding, out, TRUE)
        /\ tensors_have_same_dim_order(<<t, out>>)
        /\ tensor_is_default_dim_order(t), out,
  Resize(out, get_padding_out_target_size(n, t, padding), LAMBDA o :
    PadLast(n, reflection_ix, t, o, padding)))

reflection_pad1d_out(t, padding, out) == ReflectionPad(1, t, padding, out)
reflection_pad2d_out(t, padding, out) == ReflectionPad(2, t, padding, out)
reflection_pad3d_out(t, padding, out) == ReflectionPad(3, t, padding, out)

(* No dimension order is asked for.                                        *)
ReplicationPad(n, t, padding, out) ==
  Check(check_padding_args(n, t, padding, out, FALSE), out,
  Resize(out, get_padding_out_target_size(n, t, padding), LAMBDA o :
    PadLast(n, replication_ix, t, o, padding)))

replication_pad1d_out(t, padding, out) == ReplicationPad(1, t, padding, out)
replication_pad2d_out(t, padding, out) == ReplicationPad(2, t, padding, out)
replication_pad3d_out(t, padding, out) == ReplicationPad(3, t, padding, out)

check_constant_pad_args(t, pad, out) ==
  /\ t.type = out.type
  /\ tensors_have_same_rank(t, out)
  /\ Len(pad) % 2 = 0
  /\ Len(pad) \div 2 <= dim(t)

(* The pad in front of and behind dimension d - 1.                         *)
PadsOf(t, pad, d) ==
  LET i == dim(t) - d
  IN IF i < Len(pad) \div 2 THEN <<pad[2 * i + 1], pad[2 * i + 2]>> ELSE <<0, 0>>

resize_constant_pad_output(t, pad, out, rest(_)) ==
  Resize(out, [d \in 1..dim(t) |-> t.sizes[d] + PadsOf(t, pad, d)[1] + PadsOf(t, pad, d)[2]], rest)

(* Down to the last padded dimension, counted from 1, an output coordinate *)
(* in front of or behind the input's is the constant; below it the rows    *)
(* are copied whole.  Pads are not negative: the loops count them in       *)
(* size_t.                                                                 *)
apply_padding_to_dim(t, pad, last, out, i) ==
  LET c == indexToCoordinate(out, i)
      inside(d) == PadsOf(t, pad, d)[1] <= c[d] /\ c[d] < PadsOf(t, pad, d)[1] + t.sizes[d]
  IN IF \A d \in 1..last : inside(d)
     THEN <<<<1, coordinateToIndex(t, [d \in 1..dim(t) |->
                   IF d <= last THEN c[d] - PadsOf(t, pad, d)[1] ELSE c[d]])>>>>
     ELSE <<>>

constant_pad_nd_out(t, pad, out) ==
  Check(check_constant_pad_args(t, pad, out) /\ tensors_have_same_dim_order(<<t, out>>), out,
  resize_constant_pad_output(t, pad, out, LAMBDA o :
    Switch(t.type, REALB, o,
      LET last == Max({1} \cup {d \in 1..dim(t) : PadsOf(t, pad, d)[1] + PadsOf(t, pad, d)[2] > 0})
      IN Written(o, LAMBDA i :
           IF dim(t) = 0 THEN <<<<1, 0>>>> ELSE apply_padding_to_dim(t, pad, last, o, i)))))

-----------------------------------------------------------------------------
check_pixel_shuffle_args(t, s, out) ==
  /\ t.type = out.type
  /\ tensor_has_rank_greater_or_equal_to(t, 3)
  /\ tensor_has_rank_greater_or_equal_to(out, 3)
  /\ s > 0
  /\ size(t, dim(t) - 3) % (s * s) = 0

get_pixel_shuffle_out_target_size(t, s) ==
  LET n == dim(t)
  IN [t.sizes EXCEPT ![n - 2] = @ \div (s * s), ![n - 1] = @ * s, ![n] = @ * s]

(* The output is written in order: the loops nest as n, c, h, s1, w, s2.   *)
pixel_shuffle_impl(t, s, i) ==
  LET H == size(t, dim(t) - 2)
      W == size(t, dim(t) - 1)
      s2 == i % s
      w == (i \div s) % W
      s1 == (i \div (s * W)) % s
      h == (i \div (s * W * s)) % H
      nc == i \div (s * W * s * H)   \* n * sub_channels + c
  IN (((nc * s + s1) * s + s2) * H + h) * W + w

pixel_shuffle_out(t, s, out) ==
  Check(/\ check_pixel_shuffle_args(t, s, out)
        /\ tensors_have_same_dim_order(<<t, out>>)
        /\ tensor_is_default_dim_order(t), out,
  Resize(out, get_pixel_shuffle_out_target_size(t, s), LAMBDA o :
    Written(o, LAMBDA i : <<<<1, pixel_shuffle_impl(t, s, i)>>>>)))

check_pixel_unshuffle_args(t, s, out) ==
  /\ t.type = out.type
  /\ tensor_has_rank_greater_or_equal_to(t, 3)
  /\ tensor_has_rank_greater_or_equal_to(out, 3)
  /\ s > 0
  /\ size(t, dim(t) - 1) % s = 0
  /\ size(t, dim(t) - 2) % s = 0

get_pixel_unshuffle_out_target_size(t, s) ==
  LET n == dim(t)
  IN [t.sizes EXCEPT ![n - 2] = @ * s * s, ![n - 1] = @ \div s, ![n] = @ \div s]

(* The input is read in order; output_offset is where element i goes.      *)
pixel_unshuffle_impl(out, s, i) ==
  LET H == size(out, dim(out) - 2)
      W == size(out, dim(out) - 1)
      s2 == i % s
      w == (i \div s) % W
      s1 == (i \div (s * W)) % s
      h == (i \div (s * W * s)) % H
      nc == i \div (s * W * s * H)
  IN (((nc * s + s1) * s + s2) * H + h) * W + w

pixel_unshuffle_out(t, s, out) ==
  Check(check_pixel_unshuffle_args(t, s, out), out,
  Resize(out, get_pixel_unshuffle_out_target_size(t, s), LAMBDA o :
    Outcome("Ok", o, [p \in {pixel_unshuffle_impl(o, s, i) : i \in Positions(t)} |->
      <<<<1, CHOOSE i \in Positions(t) : pixel_unshuffle_impl(o, s, i) = p>>>>])))

check_diagonal_copy_args(t, d1, d2, out) ==
  /\ t.type = out.type
  /\ tensor_has_rank_greater_or_equal_to(t, 2)
  /\ tensor_has_dim(t, d1) /\ tensor_has_dim(t, d2)
  /\ ET_NORMALIZE_IX(d1, nonzero_dim(t)) # ET_NORMALIZE_IX(d2, nonzero_dim(t))

(* What is left of the sequence s without its entries d1 and d2.           *)
WithoutTwo(s, d1, d2) ==
  Without(Without(s, Max({d1, d2}) + 1), Min({d1, d2}) + 1)

get_diagonal_copy_out_target_size(t, offset, d1, d2) ==
  LET length == IF offset >= 0
                THEN IF size(t, d2) <= offset THEN 0 ELSE Min({size(t, d1), size(t, d2) - offset})
                ELSE IF size(t, d1) <= -offset THEN 0 ELSE Min({size(t, d1) + offset, size(t, d2)})
  IN WithoutTwo(t.sizes, d1, d2) \o <<length>>

diagonal_copy_impl(t, offset, d1, d2, out) ==
  LET st == strides(t)
      from == IF offset >= 0 THEN offset * st[d2 + 1] ELSE -offset * st[d1 + 1]
  IN as_strided_copy(t, out.sizes, WithoutTwo(st, d1, d2) \o <<st[d1 + 1] + st[d2 + 1]>>, from, out)

diagonal_copy_out(t, offset, dd1, dd2, out) ==
  LET d1 == ET_NORMALIZE_IX(dd1, nonzero_dim(t))
      d2 == ET_NORMALIZE_IX(dd2, nonzero_dim(t))
  IN Check(/\ check_diagonal_copy_args(t, dd1, dd2, out)
           /\ tensors_have_same_dim_order(<<t, out>>)
           /\ tensor_is_default_dim_order(t), out,
     Resize(out, get_diagonal_copy_out_target_size(t, offset, d1, d2), LAMBDA o :
       Switch(t.type, REALHB, o, diagonal_copy_impl(t, offset, d1, d2, o))))

check_tril_args(t, out) == t.type = out.type /\ tensor_has_rank_greater_or_equal_to(t, 2)

(* clear_out zeroes everything first.                                      *)
apply_tril(t, diagonal, i) ==
  LET rows == size(t, dim(t) - 2)
      cols == size(t, dim(t) - 1)
  IN i % cols < Min({cols, ((i \div cols) % rows) + diagonal + 1})

tril_out(t, diagonal, out) ==
  Check(check_tril_args(t, out), out,
  Resize(out, t.sizes, LAMBDA o :
    Check(tensors_have_same_dim_order(<<t, o>>) /\ tensor_is_default_dim_order(t), o,
    IF numel(t) = 0 THEN Outcome("Ok", o, <<>>)
    ELSE Switch(o.type, REALB, o,
           Check(dim(t) < kTensorDimensionLimit, o,
             Written(o, LAMBDA i : IF apply_tril(t, diagonal, i) THEN <<<<1, i>>>> ELSE <<>>))))))

-----------------------------------------------------------------------------
check_glu_args(t, d, out) ==
  LET dd == IF d < 0 THEN d + dim(t) ELSE d
  IN /\ dim_is_valid(d, dim(t))
     /\ tensor_is_floating_type(t)
     /\ size(t, dd) % 2 = 0
     /\ tensor_is_floating_type(out)
     /\ tensors_have_same_rank(t, out)
     /\ size(out, dd) = size(t, dd) \div 2
     /\ \A e \in Dims(t) \ {dd} : size(out, e) = size(t, e)

(* As many sizes as the output has dimensions are taken from the computed  *)
(* ones; instances give the output no more dimensions than the input.      *)
resize_glu_out(t, d, out, rest(_)) ==
  LET dd == IF d < 0 THEN d + dim(t) ELSE d
  IN Resize(out, [e \in 1..dim(out) |-> IF e - 1 = dd THEN t.sizes[e] \div 2 ELSE t.sizes[e]], rest)

(* Every output type but Float is written as Double: each element of a two *)
(* byte type stands for a quarter of what is written.                      *)
glu_out(t, d, out) ==
  resize_glu_out(t, d, out, LAMBDA o :
    Check(tensors_have_same_dim_order(<<t, o>>) /\ check_glu_args(t, d, o), o,
    Switch(t.type, FloatTypes, o,
      LET dd == IF d < 0 THEN d + dim(t) ELSE d
          n == size(o, dd)
          T == getTrailingDims(t, dd)
          width == IF o.type \in FloatTypes THEN 1 ELSE 4
          half(i, k) == Along(i, n, T, 2 * n, LAMBDA j : j + k * n)
      IN Outcome("Ok", o, [p \in 0..(width * numel(o) - 1) |->
           << <<1, half(p \div width, 0)>>, <<1, half(p \div width, 1)>> >>]))))

check_pdist_args(t, p, out) == t.type = out.type /\ tensor_is_rank(t, 2) /\ p >= 0

get_pdist_out_target_size(t) == <<(size(t, 0) * (size(t, 0) - 1)) \div 2>>

(* The elements two rows of m elements contribute, pair by pair.           *)
RowPair(x, y, a, b, m) == [k \in 1..(2 * m) |->
  IF k % 2 = 1 THEN <<x, a + k \div 2>> ELSE <<y, b + k \div 2 - 1>>]

(* The pairs i < j in order.                                               *)
pdist(t, out) ==
  LET n == size(t, 0)
      m == size(t, 1)
      at(i, j) == Sum([k \in 1..i |-> n - k]) + (j - i - 1)
      pairs == {<<i, j>> \in (0..(n - 1)) \X (0..(n - 1)) : i < j}
  IN Outcome("Ok", out, [o \in {at(q[1], q[2]) : q \in pairs} |->
       LET q == CHOOSE r \in pairs : at(r[1], r[2]) = o
       IN RowPair(1, 1, q[1] * m, q[2] * m, m)])

_pdist_forward_out(t, p, out) ==
  Check(/\ check_pdist_args(t, p, out)
        /\ tensors_have_same_dim_order(<<t, out>>)
        /\ tensor_is_default_dim_order(t), out,
  Resize(out, get_pdist_out_target_size(t), LAMBDA o : Switch(t.type, FloatTypes, o, pdist(t, o))))

check_cdist_args(a, b, p, mode, out) ==
  /\ a.type = b.type /\ a.type = out.type
  /\ tensor_has_rank_greater_or_equal_to(a, 2) /\ tensor_has_rank_greater_or_equal_to(b, 2)
  /\ tensors_have_same_size_at_dims(a, dim(a) - 1, b, dim(b) - 1)
  /\ p >= 0
  /\ mode # <<>> => mode[1] \in 0..2

get_batch_sizes(t) == SubSeq(t.sizes, 1, dim(t) - 2)

cdist(a, b, out) ==
  LET P == size(a, dim(a) - 2)
      R == size(b, dim(b) - 2)
      M == size(a, dim(a) - 1)
      base(t, rows, batch) ==
        IF get_batch_sizes(t) = get_batch_sizes(out) THEN batch * rows * M
        ELSE linearize_access_indexes(delinearize_index(batch * P * R, out.sizes), t.sizes, strides(t))
  IN Written(out, LAMBDA i :
       IF numel(a) = 0 THEN <<>>
       ELSE LET batch == i \div (P * R)
            IN RowPair(1, 2, base(a, P, batch) + ((i \div R) % P) * M, base(b, R, batch) + (i % R) * M, M))

_cdist_forward_out(a, b, p, mode, out) ==
  Check(/\ tensors_have_same_dim_order(<<a, b, out>>)
        /\ tensor_is_default_dim_order(a)
        /\ check_cdist_args(a, b, p, mode, out)
        /\ tensors_are_broadcastable_between(get_batch_sizes(a), get_batch_sizes(b)), out,
  Resize(out, get_broadcast_target_size(get_batch_sizes(a), get_batch_sizes(b))
              \o <<size(a, dim(a) - 2), size(b, dim(b) - 2)>>, LAMBDA o :
    Switch(o.type, FloatTypes, o, cdist(a, b, o))))

-----------------------------------------------------------------------------
(* The portable kernels that pick elements by the values of an index       *)
(* tensor (kernels/portable/cpu/util/index_util.cpp,                       *)
(* advanced_index_util.cpp and op_*.cpp).  An index tensor has a further   *)
(* field, data: the sequence of its elements, 0 and 1 for a mask.  A list  *)
(* of optional indices is a sequence of sequences of at most one tensor.   *)

Value(t, p) == t.data[p + 1]
InRange(t, n) == \A p \in Positions(t) : 0 <= Value(t, p) /\ Value(t, p) < n

(* size(d) aborts beyond the last dimension; an empty index may have fewer *)
(* dimensions than the input.                                              *)
SizesOfIndexExist(in, d, index) ==
  dim(index) = 0 \/ \A e \in 0..(nonzero_dim(in) - 1) : e = d \/ e < dim(index)

check_gather_args(in, d0, index, out) ==
  LET d == IF d0 < 0 THEN d0 + nonzero_dim(in) ELSE d0
  IN /\ in.type = out.type
     /\ tensor_has_dim(in, d0)
     /\ index.type = "Long"
     /\ numel(index) # 0 => nonzero_dim(in) = nonzero_dim(index)
     /\ SizesOfIndexExist(in, d, index) =>
          /\ \A e \in 0..(nonzero_dim(in) - 1) : e # d => nonempty_size(index, e) <= nonempty_size(in, e)
          /\ InRange(index, nonempty_size(in, d))

GatherAborts(in, d0, index) ==
  ~SizesOfIndexExist(in, IF d0 < 0 THEN d0 + nonzero_dim(in) ELSE d0, index)

(* The coordinate of index element p in a tensor of n dimensions, with its *)
(* value in dimension d.                                                   *)
Redirected(index, p, d, n) ==
  [e \in 1..n |-> IF e = d + 1 THEN Value(index, p) ELSE indexToCoordinate(index, p)[e]]

gather_helper(in, index, out, d) ==
  Written(out, LAMBDA p :
    IF dim(index) = 0 THEN <<<<1, Value(index, 0)>>>>
    ELSE <<<<1, coordinateToIndex(in, Redirected(index, p, d, dim(in)))>>>>)

gather_out(in, d0, index, out) ==
  LET d == IF d0 < 0 THEN d0 + nonzero_dim(in) ELSE d0
  IN Check(check_gather_args(in, d0, index, out), out,
     IF GatherAborts(in, d0, index) THEN Aborted(out)
     ELSE Resize(out, index.sizes, LAMBDA o :
            Switch(in.type, REALHB, o, gather_helper(in, index, o, d))))

-----------------------------------------------------------------------------
check_scatter_add_args(self, d0, index, src, out) ==
  LET d == IF d0 < 0 THEN d0 + nonzero_dim(self) ELSE d0
      Ds == 0..(nonzero_dim(self) - 1)
  IN /\ self.type = out.type /\ self.type = src.type
     /\ index.type = "Long"
     /\ tensor_has_dim(self, d0)
     /\ \/ numel(index) = 0
        \/ /\ nonzero_dim(self) = nonzero_dim(src) /\ nonzero_dim(self) = nonzero_dim(index)
           /\ \A e \in Ds : nonempty_size(index, e) <= nonempty_size(src, e)
           /\ \A e \in Ds : e # d => nonempty_size(index, e) <= nonempty_size(self, e)
           /\ InRange(index, nonempty_size(self, d))

check_scatter_src_args(self, d0, index, src, out) == check_scatter_add_args(self, d0, index, src, out)
check_scatter_value_args(self, d0, index, out) == check_gather_args(self, d0, index, out)

(* The output starts as a copy of the input; the elements of the index are *)
(* handled in order, each at to(p).  A later one overwrites an earlier one *)
(* or adds to it.                                                          *)
Hits(index, to(_), q) == {p \in Positions(index) : to(p) = q}

ScatterTo(index, out, d, p) == coordinateToIndex(out, Redirected(index, p, d, dim(out)))

(* The first element of the index that names a position wins.              *)
scatter_src_first(in, d, index, src, out) ==
  Written(out, LAMBDA q :
    LET hits == Hits(index, LAMBDA p : ScatterTo(index, out, d, p), q)
    IN IF hits = {} THEN <<<<1, q>>>>
       ELSE <<<<3, coordinateToIndex(src, indexToCoordinate(index, Min(hits)))>>>>)

scatter_src_helper(in, d, index, src, out) ==
  Written(out, LAMBDA q :
    LET hits == Hits(index, LAMBDA p : ScatterTo(index, out, d, p), q)
    IN IF hits = {} THEN <<<<1, q>>>>
       ELSE <<<<3, coordinateToIndex(src, indexToCoordinate(index, Max(hits)))>>>>)

scatter_value_helper(in, d, index, out) ==
  Written(out, LAMBDA q :
    IF Hits(index, LAMBDA p : ScatterTo(index, out, d, p), q) = {} THEN <<<<1, q>>>> ELSE <<>>)

scatter_add_helper(in, d, index, src, out) ==
  Written(out, LAMBDA q :
    LET hits == SetToSortSeq(Hits(index, LAMBDA p : ScatterTo(index, out, d, p), q), <)
    IN <<<<1, q>>>> \o [i \in DOMAIN hits |-> <<3, coordinateToIndex(src, indexToCoordinate(index, hits[i]))>>])

scatter_src_out(in, d0, index, src, out) ==
  LET d == IF d0 < 0 THEN d0 + nonzero_dim(in) ELSE d0
  IN Check(check_scatter_src_args(in, d0, index, src, out), out,
       Resize(out, in.sizes, LAMBDA o :
         Switch(in.type, REALHB, o, scatter_src_helper(in, d, index, src, o))))

scatter_value_out(in, d0, index, out) ==
  LET d == IF d0 < 0 THEN d0 + nonzero_dim(in) ELSE d0
  IN Check(check_scatter_value_args(in, d0, index, out), out,
     IF GatherAborts(in, d0, index) THEN Aborted(out)
     ELSE Resize(out, in.sizes, LAMBDA o :
            Switch(in.type, REALHB, o, scatter_value_helper(in, d, index, o))))

scatter_add_out(self, d0, index, src, out) ==
  LET d == IF d0 < 0 THEN d0 + nonzero_dim(self) ELSE d0
  IN Check(/\ check_scatter_add_args(self, d0, index, src, out)
           /\ tensors_have_same_dim_order(<<self, src, out>>)
           /\ tensor_is_default_dim_order(index), out,
       Resize(out, self.sizes, LAMBDA o :
         Switch(self.type, REALB, o,
           IF dim(self) = 0
           THEN Written(o, LAMBDA q : <<<<1, 0>>>> \o [i \in 1..(IF numel(index) = 0 THEN 0 ELSE nonempty_size(index, 0)) |-> <<3, 0>>])
           ELSE scatter_add_helper(self, d, index, src, o))))

-----------------------------------------------------------------------------
check_index_select_args(in, d0, index, out) ==
  LET d == IF d0 < 0 THEN d0 + nonzero_dim(in) ELSE d0
  IN /\ tensor_has_dim(in, d0)
     /\ nonempty_size(in, d) > 0
     /\ in.type = out.type
     /\ index.type \in {"Long", "Int"}
     /\ tensor_has_rank_smaller_or_equal_to(index, 1)
     /\ dim(index) > 0 /\ dim(in) = 0 => numel(index) = 1
     /\ InRange(index, nonempty_size(in, d))

get_index_select_out_target_size(in, d, index) ==
  [i \in 1..dim(in) |-> IF i = d + 1 THEN numel(index) ELSE in.sizes[i]]

index_select_out(in, d0, index, out) ==
  LET d == IF d0 < 0 THEN d0 + nonzero_dim(in) ELSE d0
  IN Check(/\ check_index_select_args(in, d0, index, out)
           /\ tensors_have_same_dim_order(<<in, out>>)
           /\ tensor_is_default_dim_order(in), out,
       Resize(out, get_index_select_out_target_size(in, d, index), LAMBDA o :
         IF dim(in) = 0 THEN CopyAll(in, o)
         ELSE Written(o, LAMBDA i :
                <<<<1, Along(i, size(o, d), getTrailingDims(in, d), size(in, d), LAMBDA j : Value(index, j))>>>>)))

check_nonzero_args(out) == out.type = "Long" /\ dim(out) = 2

(* Row r of the output holds the coordinate of the r-th element that is    *)
(* not zero; what is recorded is that element's position.                  *)
nonzero(in, out) ==
  LET found == SetToSortSeq({p \in Positions(in) : Value(in, p) # 0}, <)
  IN Resize(out, <<Len(found), dim(in)>>, LAMBDA o :
       Written(o, LAMBDA i : <<<<1, found[(i \div dim(in)) + 1]>>>>))

nonzero_out(in, out) == Check(check_nonzero_args(out), out, Switch(in.type, REALB, out, nonzero(in, out)))

-----------------------------------------------------------------------------
(* Advanced indexing.                                                      *)
Given(indices) == {i \in DOMAIN indices : indices[i] # <<>>}
Ix(indices, i) == indices[i][1]

check_indices_dtypes(indices) ==
  \A i \in Given(indices) : Ix(indices, i).type \in {"Long", "Int", "Byte", "Bool"}

is_mask_index(index) == index.type \in {"Bool", "Byte"}

(* How many dimensions of the input an index of the list stands for, and   *)
(* the dimension (from 0) at which index i begins.                         *)
Width(indices, i) ==
  IF indices[i] = <<>> \/ ~is_mask_index(Ix(indices, i)) THEN 1 ELSE dim(Ix(indices, i))
At0(indices, i) == Sum([j \in 1..(i - 1) |-> Width(indices, j)])

check_mask_indices(in, indices) ==
  \A i \in Given(indices) : is_mask_index(Ix(indices, i)) =>
    /\ dim(Ix(indices, i)) > 0
    /\ \A j \in Dims(Ix(indices, i)) :
         At0(indices, i) + j < dim(in) => size(Ix(indices, i), j) = size(in, At0(indices, i) + j)

(* in.size() aborts on a mask that reaches beyond the last dimension.      *)
MaskTooWide(in, indices) ==
  \E i \in Given(indices) : is_mask_index(Ix(indices, i)) /\ At0(indices, i) + Width(indices, i) > dim(in)

Trues(index) == SetToSortSeq({p \in Positions(index) : Value(index, p) # 0}, <)
count_trues_in_mask_index(index) == Len(Trues(index))

(* A mask with one element is the same for every query.                    *)
query_mask_index(index, query_idx) ==
  delinearize_index(Trues(index)[IF count_trues_in_mask_index(index) = 1 THEN 1 ELSE query_idx + 1], index.sizes)

query_integral_index(index, ix_coord) ==
  Value(index, linearize_access_indexes(ix_coord, index.sizes, strides(index)))

check_index_args(in, indices, out) ==
  /\ in.type = out.type
  /\ check_indices_dtypes(indices)
  /\ Len(indices) <= dim(in)
  /\ check_mask_indices(in, indices)

count_index_blocks(indices) ==
  Cardinality({i \in Given(indices) : i = 1 \/ indices[i - 1] = <<>>})

get_indices_broadcast_ndim(indices) ==
  Max({0} \cup {IF is_mask_index(Ix(indices, i)) THEN 1 ELSE dim(Ix(indices, i)) : i \in Given(indices)})

(* The sizes each index brings to the broadcast.                           *)
IxSizes(index) == IF is_mask_index(index) THEN <<count_trues_in_mask_index(index)>> ELSE index.sizes

(* Sizes are collected from the last one backwards; one that is 1 gives    *)
(* way to a later index, any other must agree.                             *)
get_indices_broadcast_shape(indices) ==
  LET n == get_indices_broadcast_ndim(indices)
      at(i, j) == LET s == IxSizes(Ix(indices, i)) IN s[Len(s) - j]       \* j from the end
      having(j) == {i \in Given(indices) : Len(IxSizes(Ix(indices, i))) > j}
      others(j) == {at(i, j) : i \in having(j)} \ {1}
  IN [ok |-> \A j \in 0..(n - 1) : Cardinality(others(j)) <= 1,
      sizes |-> [d \in 1..n |-> IF others(n - d) = {} THEN 1 ELSE CHOOSE x \in others(n - d) : TRUE]]

get_num_indexed_dims(indices) ==
  Sum([i \in DOMAIN indices |-> IF i \in Given(indices) THEN Width(indices, i) ELSE 0])
get_num_null_indices(indices) == Cardinality(DOMAIN indices \ Given(indices))
get_num_leading_null_indices(indices) == Min(Given(indices)) - 1

(* The dimensions of the input that no index stands for, in order.         *)
Unindexed(in, indices) ==
  SetToSortSeq({d \in Dims(in) : \A i \in Given(indices) :
                  d \notin At0(indices, i)..(At0(indices, i) + Width(indices, i) - 1)}, <)

IndexTargetFits(in, indices) ==
  /\ get_indices_broadcast_shape(indices).ok
  /\ get_num_null_indices(indices) + get_num_indexed_dims(indices) <= dim(in)
  /\ dim(in) + get_indices_broadcast_ndim(indices) - get_num_indexed_dims(indices) <= kTensorDimensionLimit

get_index_out_target_size(in, indices, adjacent) ==
  LET shape == get_indices_broadcast_shape(indices).sizes
      start == get_num_leading_null_indices(indices)
      rest == Unindexed(in, indices)
      kept == [i \in DOMAIN rest |-> size(in, rest[i])]
  IN IF adjacent THEN SubSeq(kept, 1, start) \o shape \o SubSeq(kept, start + 1, Len(kept))
     ELSE shape \o kept

(* The dimension of the output that dimension d of the input comes from,   *)
(* or -1.                                                                  *)
compute_dim_map(in, indices, adjacent) ==
  LET n == get_indices_broadcast_ndim(indices)
      start == get_num_leading_null_indices(indices)
      rest == Unindexed(in, indices)
      place(d) == CHOOSE i \in DOMAIN rest : rest[i] = d
  IN [d \in Dims(in) |->
        IF d \notin Range(rest) THEN -1
        ELSE IF adjacent /\ d < start THEN d ELSE place(d) - 1 + n]

compute_index_map(in, indices) ==
  [d \in Dims(in) |->
     LET of == {i \in Given(indices) : d \in At0(indices, i)..(At0(indices, i) + Width(indices, i) - 1)}
     IN IF of = {} THEN -1 ELSE Max(of)]

(* The coordinates in the input of coordinate c of the output; -1 for an   *)
(* index out of range.                                                     *)
get_in_coord(in, indices, start, n, dim_map, ix_map, c) ==
  [e \in 1..dim(in) |->
     LET d == e - 1
         i == ix_map[d]
         index == Ix(indices, i)
         ix_coord == SubSeq(c, start + 1, start + n)
         v == query_integral_index(index, ix_coord)
         w == IF v < 0 THEN v + size(in, d) ELSE v
     IN IF dim_map[d] >= 0 THEN c[dim_map[d] + 1]
        ELSE IF is_mask_index(index)
        THEN query_mask_index(index, ix_coord[n])[d - At0(indices, i) + 1]
        ELSE IF 0 <= w /\ w < size(in, d) THEN w ELSE -1]

BlockStart(indices, adjacent) == IF adjacent THEN get_num_leading_null_indices(indices) ELSE 0

(* get_in_ix: the input coordinate of every element of the indexed shape   *)
InCoords(in, indices, shape, adjacent) ==
  [x \in 0..(Product(shape) - 1) |->
     get_in_coord(in, indices, BlockStart(indices, adjacent), get_indices_broadcast_ndim(indices),
                  compute_dim_map(in, indices, adjacent), compute_index_map(in, indices),
                  delinearize_index(x, shape))] @@ <<>>

AllInRange(coords) == \A x \in DOMAIN coords : -1 \notin Range(coords[x])

ReadAt(in, coords, o) ==
  Check(AllInRange(coords), o, Written(o, LAMBDA i : <<<<1, coordinateToIndex(in, coords[i])>>>>))

index_Tensor_out(in, indices, out) ==
  LET adjacent == count_index_blocks(indices) = 1
  IN Check(check_index_args(in, indices, out), out,
     IF MaskTooWide(in, indices) THEN Aborted(out)
     ELSE Check(tensors_have_same_dim_order(<<in, out>>) /\ tensor_is_default_dim_order(in), out,
     IF count_index_blocks(indices) = 0
     THEN Resize(out, in.sizes, LAMBDA o : Switch(in.type, REALHB, o, CopyAll(in, o)))
     ELSE Check(IndexTargetFits(in, indices), out,
          Resize(out, get_index_out_target_size(in, indices, adjacent), LAMBDA o :
            IF numel(o) = 0 THEN Written(o, LAMBDA i : <<>>)
            ELSE Switch(in.type, REALHBBF16, o, ReadAt(in, InCoords(in, indices, o.sizes, adjacent), o))))))

(* Element x of the indexed shape is written to the input position its     *)
(* indices name, in order.                                                 *)
PutOnto(q, accumulate, added) ==
  CASE added = <<>> -> <<<<1, q>>>>
    [] added # <<>> /\ accumulate -> <<<<1, q>>>> \o added
    [] OTHER -> <<Last(added)>>

ValuesOf(xs, values, shape) ==
  [i \in DOMAIN xs |->
     <<2, linearize_access_indexes(delinearize_index(xs[i], shape), values.sizes, strides(values))>>]

PutInOrder(in, values, accumulate, shape, coords, o) ==
  LET hits(q) == SetToSortSeq({x \in DOMAIN coords : coordinateToIndex(in, coords[x]) = q}, <)
  IN Check(AllInRange(coords), o, Written(o, LAMBDA q : PutOnto(q, accumulate, ValuesOf(hits(q), values, shape))))

PutBroadcast(in, indices, values, accumulate, shape, out) ==
  Check(IndexTargetFits(in, indices) /\ tensor_is_broadcastable_to(values.sizes, shape), out,
    Resize(out, in.sizes, LAMBDA o :
      IF numel(in) = 0 THEN Written(o, LAMBDA q : <<>>)
      ELSE Switch(in.type, REALHBBF16, o,
             PutInOrder(in, values, accumulate, shape,
                        InCoords(in, indices, shape, count_index_blocks(indices) = 1), o))))

index_put_out(in, indices, values, accumulate, out) ==
  Check(check_index_args(in, indices, out), out,
    IF MaskTooWide(in, indices) THEN Aborted(out)
    ELSE Check(/\ in.type = values.type
               /\ tensors_have_same_dim_order(<<in, out>>) /\ tensor_is_default_dim_order(in), out,
    IF count_index_blocks(indices) = 0
    THEN Resize(out, in.sizes, LAMBDA o : Check(tensor_is_broadcastable_to(values.sizes, o.sizes), o,
           Switch(in.type, REALHBBF16, o,
             Written(o, LAMBDA q : <<<<1, q>>, <<2, broadcast_position(values, o.sizes, q)>>>>))))
    ELSE PutBroadcast(in, indices, values, accumulate,
                      get_index_out_target_size(in, indices, count_index_blocks(indices) = 1), out)))
=============================================================================
