---------------------------- MODULE LibraryKernels ----------------------------
(***************************************************************************)
(* The kernels of network layers, portable ones included (products,        *)
(* pooling and embedding, convolution, normalization), and the kernels     *)
(* outside kernels/portable: the vectorised code of kernels/optimized, the *)
(* custom operators for language models, the quantized kernels of          *)
(* kernels/quantized and those of the Cadence backend.                     *)
(***************************************************************************)
EXTENDS Tensors, ElementwiseKernels, ShapeKernels, SequencesExt

(* The kernels of network layers: products, pooling and embedding,         *)
(* convolution, normalization.                                             *)

(* The portable kernels of neural network layers (kernels/portable/cpu/    *)
(* op_*.cpp with util/kernel_ops_util, matmul_ops_util and                 *)
(* normalization_ops_util).  What is recorded for an output position is    *)
(* the set of the products that are summed up in it, a product being the   *)
(* sequence of <<operand, position>> that are multiplied.  An optional     *)
(* tensor is a sequence of at most one.                                    *)

One(k, p) == <<<<k, p>>>>
Two(k, p, l, q) == <<<<k, p>>, <<l, q>>>>

(* vec_matmul: m x n times n x p, with the offsets of the batch.           *)
vec_matmul(i, x0, y0, n, p, x, y) ==
  {Two(x, x0 + (i \div p) * n + k, y, y0 + k * p + (i % p)) : k \in 0..(n - 1)}

check_mm_args(in, mat2, out) ==
  /\ tensor_is_rank(in, 2) /\ tensor_is_rank(mat2, 2) /\ tensor_is_rank(out, 2)
  /\ tensors_have_same_dtype(<<in, mat2, out>>)
  /\ tensors_have_same_size_at_dims(in, 1, mat2, 0)
check_addmm_args(in, mat1, mat2, out) ==
  /\ tensor_is_rank(mat1, 2) /\ tensor_is_rank(mat2, 2) /\ tensor_is_rank(out, 2)
  /\ tensors_have_same_dtype(<<in, mat1, mat2, out>>)
  /\ tensors_have_same_size_at_dims(mat1, 1, mat2, 0)
check_bmm_args(in, mat2, out) ==
  /\ tensor_is_rank(in, 3) /\ tensor_is_rank(mat2, 3) /\ tensor_is_rank(out, 3)
  /\ tensors_have_same_dtype(<<in, mat2, out>>)
  /\ tensors_have_same_size_at_dims(in, 0, mat2, 0)
  /\ tensors_have_same_size_at_dims(in, 2, mat2, 1)

get_mm_out_target_size(a, b) == <<size(a, 0), size(b, 1)>>
get_bmm_out_target_size(a, b) == <<size(a, 0), size(a, 1), size(b, 2)>>

mm_out(in, mat2, out) ==
  Check(check_mm_args(in, mat2, out), out,
    Resize(out, get_mm_out_target_size(in, mat2), LAMBDA o :
      Check(tensors_have_same_dim_order(<<in, mat2, o>>) /\ tensor_is_default_dim_order(in), o,
        Switch(in.type, REALHBF16, o,
          Written(o, LAMBDA i : vec_matmul(i, 0, 0, size(in, 1), size(mat2, 1), 1, 2))))))

bmm_loop(in, mat2, o) ==
  LET m == size(in, 1)
      n == size(in, 2)
      p == size(mat2, 2)
  IN Written(o, LAMBDA i :
       vec_matmul(i % (m * p), (i \div (m * p)) * m * n, (i \div (m * p)) * n * p, n, p, 1, 2))

bmm_out(in, mat2, out) ==
  Check(/\ check_bmm_args(in, mat2, out)
        /\ tensors_have_same_dim_order(<<in, mat2, out>>) /\ tensor_is_default_dim_order(in), out,
    Resize(out, get_bmm_out_target_size(in, mat2), LAMBDA o :
      Switch(in.type, REALH, o, bmm_loop(in, mat2, o))))

addmm_out(in, mat1, mat2, out) ==
  Check(check_addmm_args(in, mat1, mat2, out), out,
    Resize(out, get_mm_out_target_size(mat1, mat2), LAMBDA o :
      Check(/\ tensor_is_broadcastable_to(in.sizes, o.sizes)
            /\ tensors_have_same_dim_order(<<in, mat1, mat2, o>>) /\ tensor_is_default_dim_order(in), o,
        Switch(in.type, REALHBF16, o,
          Written(o, LAMBDA i :
            {One(1, broadcast_position(in, o.sizes, i))}
              \cup vec_matmul(i, 0, 0, size(mat1, 1), size(mat2, 1), 2, 3))))))

(* ET_CHECK aborts; the result without a bias stays in scratch.            *)
check_linear_scratch_example_args(in, weight, scratch) ==
  size(in, 1) = size(weight, 1) /\ size(scratch, 0) = size(in, 0) /\ size(scratch, 1) = size(weight, 0)
linear_scratch_example(in, weight, bias, os) ==
  LET M == size(in, 0)
      N == size(in, 1)
      K == size(weight, 0)
      sums == [i \in 0..(M * K - 1) |-> {Two(1, (i \div K) * N + k, 2, (i % K) * N + k) : k \in 0..(N - 1)}]
  IN CASE dim(in) # 2 \/ dim(weight) # 2 \/ dim(os[2]) # 2 -> Aborted(os)
       [] dim(in) = 2 /\ dim(weight) = 2 /\ dim(os[2]) = 2 ->
            IF ~check_linear_scratch_example_args(in, weight, os[2]) THEN Aborted(os)
            ELSE IF in.type # "Float" THEN Outcome("Ok", os, <<<<>>, <<>>>>)
            ELSE IF bias = <<>> THEN Outcome("Ok", os, <<<<>>, sums>>)
            ELSE IF K # numel(bias[1]) THEN Aborted(os)
            ELSE Outcome("Ok", os, <<[i \in DOMAIN sums |-> sums[i] \cup {One(3, i % K)}], sums>>)

-----------------------------------------------------------------------------
(* Windows.  A parameter list has one entry per dimension or one for all.  *)
val_at(array, i, default) ==
  IF Len(array) = 1 THEN array[1] ELSE IF Len(array) > 1 THEN array[i + 1] ELSE default

int_array_all_ge(array, val) == \A i \in DOMAIN array : array[i] >= val
param_array_is_valid(array, min_val, length, allow_empty) ==
  /\ Len(array) \in {1, length} \/ (allow_empty /\ array = <<>>)
  /\ int_array_all_ge(array, min_val)
kernel_size_is_valid(k, n) == param_array_is_valid(k, 1, n, FALSE)
stride_is_valid(s, n, allow_empty) == param_array_is_valid(s, 1, n, allow_empty)
dilation_is_valid(d, n) == param_array_is_valid(d, 1, n, FALSE)
padding_is_valid(padding, k, n, enforce_half_kernel) ==
  /\ param_array_is_valid(padding, 0, n, FALSE)
  /\ enforce_half_kernel =>
       \A i \in DOMAIN padding : padding[i] <= val_at(k, i - 1, 1) \div 2
output_padding_is_valid(op, s, d, n) ==
  /\ param_array_is_valid(op, 0, n, FALSE)
  /\ \A i \in 0..(n - 1) : val_at(op, i, 1) < val_at(s, i, 1) \/ val_at(op, i, 1) < val_at(d, i, 1)

output_size_is_valid(sizes, n) ==
  \A i \in DOMAIN sizes : IF i <= Len(sizes) - n THEN sizes[i] >= 0 ELSE sizes[i] > 0

(* C++ division rounds towards zero.                                       *)
Quotient(a, b) == IF a >= 0 THEN a \div b ELSE -((-a) \div b)

(* The comparison in ceil mode is made on unsigned numbers.                *)
_kernel_output_size_helper(n, k, pad, s, d, ceil_mode, transposed, output_padding) ==
  LET numerator == n + 2 * pad - d * (k - 1) - 1 + (IF ceil_mode THEN s - 1 ELSE 0)
      windows == Quotient(numerator, s) + 1
      last == (windows - 1) * s
  IN IF transposed THEN (n - 1) * s - 2 * pad + d * (k - 1) + output_padding + 1
     ELSE IF ceil_mode /\ (last < 0 \/ last >= n + pad) THEN windows - 1 ELSE windows

(* The last n sizes; the ones before come from the caller.                 *)
calculate_kernel_output_sizes(in, n, k, s, p, d, ceil_mode, transposed, op) ==
  [i \in 1..n |->
     LET ki == val_at(k, i - 1, 1)
     IN _kernel_output_size_helper(size(in, dim(in) - n + i - 1), ki, val_at(p, i - 1, 0), val_at(s, i - 1, ki),
          val_at(d, i - 1, 1), ceil_mode, transposed, IF transposed THEN val_at(op, i - 1, 0) ELSE 0)]

(* The input coordinate of tap w of the window at y, in one dimension.     *)
Tap(y, w, s, p, d) == s * y + d * w - p

(* One plane.  A window without any element is skipped; count is what an   *)
(* average divides by.                                                     *)
kernel_reduction_then_map_2d(in, c, k, s, p, d, include_pad) ==
  LET n == Len(c)
      in_H == in.sizes[n - 1]
      in_W == in.sizes[n]
      kH == val_at(k, 0, 1)
      kW == val_at(k, 1, 1)
      sH == val_at(s, 0, kH)
      sW == val_at(s, 1, kW)
      pH == val_at(p, 0, 0)
      pW == val_at(p, 1, 0)
      ih0 == c[n - 1] * sH - pH
      iw0 == c[n] * sW - pW
      ih1 == Min({ih0 + kH, in_H + pH})
      iw1 == Min({iw0 + kW, in_W + pW})
      inside == (Min({ih1, in_H}) - Max({ih0, 0})) * (Min({iw1, in_W}) - Max({iw0, 0}))
      at(y, x) == [c EXCEPT ![n - 1] = y, ![n] = x]
      taps == {<<Tap(c[n - 1], wy, sH, pH, val_at(d, 0, 1)), Tap(c[n], wx, sW, pW, val_at(d, 1, 1))>> :
                 wy \in 0..(kH - 1), wx \in 0..(kW - 1)}
  IN [skipped |-> Max({ih0, 0}) >= Min({ih1, in_H}) \/ Max({iw0, 0}) >= Min({iw1, in_W}),
      count |-> IF include_pad THEN (ih1 - ih0) * (iw1 - iw0) ELSE inside,
      terms |-> {One(1, calculate_linear_index(at(t[1], t[2]), strides(in))) :
                   t \in {u \in taps : u[1] \in 0..(in_H - 1) /\ u[2] \in 0..(in_W - 1)}}]

(* Coordinates of a position of a buffer with the tensor's own layout.     *)
CoordAt(t, p) == LET st == strides(t) IN [d \in 1..dim(t) |-> (p \div st[d]) % t.sizes[d]]

Unskipped(windows) == [q \in {r \in DOMAIN windows : ~windows[r].skipped} |-> windows[q]]

apply_kernel_2d_reduce_then_map_fn(in, k, s, p, d, include_pad, o) ==
  Unskipped([q \in Positions(o) |-> kernel_reduction_then_map_2d(in, CoordAt(o, q), k, s, p, d, include_pad)])

PoolInput(in) ==
  \/ dim(in) = 3 /\ \A e \in 0..2 : size(in, e) > 0
  \/ dim(in) = 4 /\ \A e \in 1..3 : size(in, e) > 0

check_avg_pool2d_args(in, k, s, p, divisor, out) ==
  /\ in.type = out.type
  /\ tensor_is_default_or_channels_last_dim_order(in) /\ tensor_is_default_or_channels_last_dim_order(out)
  /\ PoolInput(in)
  /\ kernel_size_is_valid(k, 2) /\ stride_is_valid(k, 2, TRUE) /\ padding_is_valid(p, k, 2, TRUE)
  /\ divisor # <<0>>
check_max_pool2d_with_indices_args(in, k, s, p, d, out, indices) ==
  /\ in.type = out.type
  /\ indices.type = "Long"
  /\ tensor_is_default_or_channels_last_dim_order(in) /\ tensor_is_default_or_channels_last_dim_order(out)
  /\ PoolInput(in)
  /\ kernel_size_is_valid(k, 2) /\ stride_is_valid(k, 2, TRUE) /\ padding_is_valid(p, k, 2, TRUE)
  /\ dilation_is_valid(k, 2)

get_avg_pool2d_out_target_size(in, k, s, p, ceil_mode) ==
  SubSeq(in.sizes, 1, dim(in) - 2)
    \o calculate_kernel_output_sizes(in, 2, k, s, p, <<>>, ceil_mode, FALSE, <<>>)
get_max_pool2d_with_indices_out_target_size(in, k, s, p, d, ceil_mode) ==
  SubSeq(in.sizes, 1, dim(in) - 2)
    \o calculate_kernel_output_sizes(in, 2, k, s, p, d, ceil_mode, FALSE, <<>>)

avg_pool2d_out(in, k, s, p, ceil_mode, count_include_pad, divisor, out) ==
  LET sizes == get_avg_pool2d_out_target_size(in, k, s, p, ceil_mode)
  IN Check(/\ check_avg_pool2d_args(in, k, s, p, divisor, out)
           /\ tensors_have_same_dim_order(<<in, out>>) /\ tensor_is_default_dim_order(in)
           /\ output_size_is_valid(sizes, 2), out,
       Resize(out, sizes, LAMBDA o : Switch(in.type, FloatTypes \cup {"Long"}, o,
         Outcome("Ok", o, apply_kernel_2d_reduce_then_map_fn(in, k, s, p, <<>>, count_include_pad, o)))))

(* The maximum and its index are read from the same window.                *)
Twice(windows) == <<windows, windows>>

max_pool2d_to(in, k, s, p, d, sizes, os) ==
  Check(/\ check_max_pool2d_with_indices_args(in, k, s, p, d, os[1], os[2])
        /\ output_size_is_valid(sizes, 2), os,
    ResizeEach(os, LAMBDA j : sizes, LAMBDA o : Switch(in.type, REAL, o,
      Outcome("Ok", o, Twice(apply_kernel_2d_reduce_then_map_fn(in, k, s, p, d, FALSE, o[1]))))))

max_pool2d_with_indices_out(in, k, s, p, d, ceil_mode, os) ==
  max_pool2d_to(in, k, s, p, d, get_max_pool2d_with_indices_out_target_size(in, k, s, p, d, ceil_mode), os)

-----------------------------------------------------------------------------
(* convolution, its transpose and its gradient (kernels/portable/cpu/      *)
(* op_convolution.cpp, op_convolution_backward.cpp, util/kernel_ops_util). *)
(* The parameters are a record [stride, padding, dilation, transposed,     *)
(* output_padding, groups].  Coordinates that the code computes as size_t  *)
(* wrap around when negative and then fail the upper bound.                *)

KernelSize(weight) == SubSeq(weight.sizes, 3, dim(weight))

(* The bias test compares the size with the flag, which picks the value    *)
(* that is then tested for being nonzero.                                  *)
check_convolution_args(in, weight, bias, a, out) ==
  LET n == dim(weight) - 2
  IN /\ tensors_have_same_dtype(<<in, weight, out>>)
     /\ tensor_is_default_or_channels_last_dim_order(in)
     /\ tensor_is_default_or_channels_last_dim_order(weight)
     /\ tensor_is_default_or_channels_last_dim_order(out)
     /\ dim(in) \in {3, 4} /\ tensor_is_rank(weight, dim(in)) /\ tensor_is_rank(out, dim(in))
     /\ bias # <<>> =>
          /\ tensor_is_rank(bias[1], 1)
          /\ (IF size(bias[1], 0) = (IF a.transposed THEN 1 ELSE 0)
              THEN a.groups * size(weight, 1) ELSE size(weight, 0)) # 0
     /\ stride_is_valid(a.stride, n, FALSE)
     /\ padding_is_valid(a.padding, KernelSize(weight), n, FALSE)
     /\ dilation_is_valid(a.dilation, n)
     /\ a.transposed => output_padding_is_valid(a.output_padding, a.stride, a.dilation, n)
     /\ size(weight, 0) >= a.groups /\ size(weight, 0) % a.groups = 0
     /\ size(in, 1) = IF a.transposed THEN size(weight, 0) ELSE a.groups * size(weight, 1)

get_convolution_out_target_size(in, weight, a) ==
  <<size(in, 0),
    IF size(in, 1) = 0 THEN 0 ELSE IF a.transposed THEN a.groups * size(weight, 1) ELSE size(weight, 0)>>
  \o calculate_kernel_output_sizes(in, dim(weight) - 2, KernelSize(weight), a.stride, a.padding, a.dilation,
       FALSE, a.transposed, a.output_padding)

-----------------------------------------------------------------------------
(* A dimension of size 1 is inserted before the last one, in the sizes and *)
(* in the dimension order.                                                 *)
get_unsqueezed_sizes(t, at) == SubSeq(t.sizes, 1, at) \o <<1>> \o SubSeq(t.sizes, at + 1, dim(t))
get_unsqueezed_dim_order(t, at) ==
  LET place == CHOOSE i \in DOMAIN t.order : t.order[i] = at
      moved(x) == IF x > at THEN x + 1 ELSE x
  IN [i \in 1..(dim(t) + 1) |->
        IF i <= place THEN moved(t.order[i]) ELSE IF i = place + 1 THEN at + 1 ELSE moved(t.order[i - 1])]
Planar(t) ==
  IF dim(t) = 3 THEN [t EXCEPT !.sizes = get_unsqueezed_sizes(t, 2), !.order = get_unsqueezed_dim_order(t, 2)]
  ELSE t
PlanarArgs(in, a) ==
  IF dim(in) = 3
  THEN [a EXCEPT !.stride = <<1, a.stride[1]>>, !.padding = <<0, a.padding[1]>>, !.dilation = <<1, a.dilation[1]>>]
  ELSE a

Y(a, y, w) == Tap(y, w, val_at(a.stride, 0, 1), val_at(a.padding, 0, 0), val_at(a.dilation, 0, 1))
X(a, x, w) == Tap(x, w, val_at(a.stride, 1, 1), val_at(a.padding, 1, 0), val_at(a.dilation, 1, 1))
Taps(weight) == (0..(size(weight, 2) - 1)) \X (0..(size(weight, 3) - 1))

(* The products of the output element at coordinate c.                     *)
conv2d_direct(in, weight, a, c, out_C) ==
  LET per_group == size(in, 1) \div a.groups
      start == (c[2] \div (out_C \div a.groups)) * per_group
      in_strides == strides(in)
      w_strides == strides(weight)
  IN {Two(1, calculate_linear_index(<<c[1], start + ic, Y(a, c[3], w[1]), X(a, c[4], w[2])>>, in_strides),
          2, calculate_linear_index(<<c[2], ic, w[1], w[2]>>, w_strides)) :
        ic \in 0..(per_group - 1),
        w \in {v \in Taps(weight) : Y(a, c[3], v[1]) \in 0..(size(in, 2) - 1) /\ X(a, c[4], v[2]) \in 0..(size(in, 3) - 1)}}

(* The transposed loops go over the input and add to the output.           *)
conv2d_transposed(in, weight, a, c, out_C) ==
  LET per_group == size(in, 1) \div a.groups
      group == c[2] \div (out_C \div a.groups)
      in_strides == strides(in)
      w_strides == strides(weight)
  IN {Two(1, calculate_linear_index(<<c[1], ic, s[1], s[2]>>, in_strides),
          2, calculate_linear_index(<<ic, c[2] - group * (out_C \div a.groups), s[3], s[4]>>, w_strides)) :
        ic \in (group * per_group)..(group * per_group + per_group - 1),
        s \in {v \in (0..(size(in, 2) - 1)) \X (0..(size(in, 3) - 1))
                       \X (0..(size(weight, 2) - 1)) \X (0..(size(weight, 3) - 1)) :
                 Y(a, v[1], v[3]) = c[3] /\ X(a, v[2], v[4]) = c[4]}}

conv2d_impl(in, weight, a, c, out_C) ==
  IF a.transposed THEN conv2d_transposed(in, weight, a, c, out_C)
  ELSE conv2d_direct(in, weight, a, c, out_C)

convolution_wrapper(in, weight, bias, a, out) ==
  LET o == Planar(out)
  IN Written(out, LAMBDA p :
       LET c == CoordAt(o, p)
       IN conv2d_impl(Planar(in), Planar(weight), PlanarArgs(in, a), c, size(out, 1))
            \cup (IF bias = <<>> THEN {} ELSE {One(3, c[2])}))

convolution_out(in, weight, bias, a, out) ==
  LET sizes == get_convolution_out_target_size(in, weight, a)
  IN Check(/\ check_convolution_args(in, weight, bias, a, out)
           /\ tensors_have_same_dim_order(<<in, out>>)
           /\ output_size_is_valid(sizes, dim(in) - 2), out,
       Resize(out, sizes, LAMBDA o :
         IF numel(o) = 0 THEN Written(o, LAMBDA p : {})
         ELSE Switch(in.type, REALH, o,
              IF bias # <<>> /\ bias[1].type \notin REALHBF16 THEN Aborted(o)
              ELSE convolution_wrapper(in, weight, bias, a, o))))

-----------------------------------------------------------------------------
check_convolution_backward_args(grad, in, weight, a, os) ==
  LET sizes == get_convolution_out_target_size(in, weight, a)
  IN /\ ~a.transposed
     /\ dim(weight) = 4
     /\ tensors_have_same_dtype(<<in, weight, grad>> \o os)
     /\ check_convolution_args(in, weight, <<>>, a, grad)
     /\ output_size_is_valid(sizes, dim(in) - 2)
     /\ dim(grad) = dim(in)
     /\ tensor_has_expected_size(grad, sizes)

(* One pass over the output: every tap adds to the gradient of the input   *)
(* and of the weight.                                                      *)
conv2d_backward_impl(grad, in, weight, a, mask, os) ==
  LET ocs == size(weight, 0) \div a.groups
      ics == size(in, 1) \div a.groups
      steps == {s \in [b : 0..(size(in, 0) - 1), oc : 0..(size(weight, 0) - 1), ic : 0..(ics - 1),
                       h : 0..(size(grad, 2) - 1), w : 0..(size(grad, 3) - 1),
                       kh : 0..(size(weight, 2) - 1), kw : 0..(size(weight, 3) - 1)] :
                  Y(a, s.h, s.kh) \in 0..(size(in, 2) - 1) /\ X(a, s.w, s.kw) \in 0..(size(in, 3) - 1)}
      out_strides == strides(grad)
      in_strides == strides(in)
      w_strides == strides(weight)
      hits == {[out |-> calculate_linear_index(<<s.b, s.oc, s.h, s.w>>, out_strides),
                in |-> calculate_linear_index(<<s.b, s.ic + (s.oc \div ocs) * ics, Y(a, s.h, s.kh), X(a, s.w, s.kw)>>, in_strides),
                weight |-> calculate_linear_index(<<s.oc, s.ic, s.kh, s.kw>>, w_strides)] : s \in steps}
      channel(q) == CoordAt(grad, q)[2]
  IN Outcome("Ok", os,
       <<[p \in IF mask[1] THEN Positions(os[1]) ELSE {} |->
            {Two(1, h.out, 3, h.weight) : h \in {x \in hits : x.in = p}}],
         [p \in IF mask[2] THEN Positions(os[2]) ELSE {} |->
            {Two(1, h.out, 2, h.in) : h \in {x \in hits : x.weight = p}}],
         [p \in IF mask[3] THEN Positions(os[3]) ELSE {} |->
            {One(1, q) : q \in {r \in Positions(grad) : channel(r) = p}}]>>)

convolution_backward_out(grad, in, weight, bias_sizes, a, mask, os) ==
  Check(check_convolution_backward_args(grad, in, weight, a, os), os,
    ResizeNth(os, 1, in.sizes, LAMBDA o1 :
      ResizeNth(o1, 2, weight.sizes, LAMBDA o2 :
        LET rest(o) == Switch(in.type, FLOATH, o, conv2d_backward_impl(grad, in, weight, a, mask, o))
        IN IF bias_sizes = <<>> THEN rest(o2) ELSE ResizeNth(o2, 3, bias_sizes[1], rest))))

-----------------------------------------------------------------------------
(* embedding and the normalization layers (kernels/portable/cpu/           *)
(* op_embedding.cpp, op_native_{batch,group,layer}_norm.cpp,               *)
(* util/normalization_ops_util.cpp).  The elements a mean and a deviation  *)
(* are taken of are terms of operand 1; weight is operand 2, bias 3, and   *)
(* the running statistics 4 and 5.                                         *)

Opt(k, t, p) == IF t = <<>> THEN {} ELSE {One(k, p)}
SameType(in, ts) == \A i \in DOMAIN ts : ts[i] # <<>> => ts[i][1].type = in.type
SameOrder(in, ts) == \A i \in DOMAIN ts : ts[i] # <<>> => tensors_have_same_dim_order(<<in, ts[i][1]>>)

check_embedding_args(weight, indices, out) ==
  dim(weight) = 2 /\ dim(out) = dim(indices) + 1 /\ weight.type = out.type

resize_embedding_output(weight, indices, out, rest(_)) == Resize(out, indices.sizes \o <<size(weight, 1)>>, rest)

(* The first index out of range ends the loop.                             *)
embedding_kernel(weight, indices, o) ==
  LET row(p) == indices.data[(p \div size(weight, 1)) + 1]
  IN Check(\A i \in DOMAIN indices.data : 0 <= indices.data[i] /\ indices.data[i] < size(weight, 0), o,
       Written(o, LAMBDA p : {One(1, row(p) * size(weight, 1) + (p % size(weight, 1)))}))

embedding_out(weight, indices, out) ==
  Check(check_embedding_args(weight, indices, out), out,
    resize_embedding_output(weight, indices, out, LAMBDA o :
      Check(tensors_have_same_dim_order(<<weight, indices, o>>) /\ tensor_is_default_dim_order(weight), o,
        Switch(indices.type, {"Long", "Int"}, o, embedding_kernel(weight, indices, o)))))

-----------------------------------------------------------------------------
check_batch_norm_args(in, weight, bias, mean, var, os) ==
  LET C_dim == IF dim(in) >= 1 THEN 1 ELSE 0
      channels(t) == tensor_is_rank(t, 1) /\ tensors_have_same_size_at_dims(t, 0, in, C_dim)
  IN /\ tensors_have_same_dtype(<<in, mean, var>> \o os)
     /\ SameType(in, <<weight, bias>>)
     /\ channels(mean) /\ channels(var)
     /\ \A t \in {weight, bias} : t # <<>> => channels(t[1])

_native_batch_norm_legit_no_training_out(in, weight, bias, mean, var, os) ==
  ResizeNth(os, 1, in.sizes, LAMBDA o1 : ResizeNth(o1, 2, <<0>>, LAMBDA o2 : ResizeNth(o2, 3, <<0>>, LAMBDA o :
    Check(/\ check_batch_norm_args(in, weight, bias, mean, var, o)
          /\ tensor_is_default_dim_order(in)
          /\ tensors_have_same_dim_order(<<in>> \o o)
          /\ SameOrder(in, <<weight, bias>>), o,
      Switch(in.type, FloatTypes, o,
        LET inner == getTrailingDims(in, 1)
            c(p) == (p \div inner) % size(in, 1)
        IN WrittenAll(o, LAMBDA k, p :
             {One(1, p), One(4, c(p)), One(5, c(p))} \cup Opt(2, weight, c(p)) \cup Opt(3, bias, c(p))))))))

_native_batch_norm_legit_out(in, weight, bias, mean, var, training, os) ==
  Check(~training, os, _native_batch_norm_legit_no_training_out(in, weight, bias, mean, var, os))
_native_batch_norm_legit_no_stats_out(training, os) == Refused(os)

(* size() aborts beyond the last dimension.                                *)
GroupNormAborts(in, N) == dim(in) = 0 \/ (dim(in) = 1 /\ size(in, 0) = N)

check_group_norm_args(in, weight, bias, N, C, HxW, group, os) ==
  /\ size(in, 0) = N /\ size(in, 1) = C /\ numel(in) = N * C * HxW
  /\ group > 0 /\ C % group = 0
  /\ \A t \in {weight, bias} : t # <<>> => t[1].sizes = <<C>>
  /\ SameType(in, <<weight, bias>>)
  /\ tensors_have_same_dtype(<<in>> \o os)

group_norm(in, weight, bias, N, C, HxW, G, o) ==
  LET D == C \div G
      inner == D * HxW
      ch(p) == ((p \div inner) % G) * D + (p % inner) \div HxW
      block(i) == {One(1, i * inner + j) : j \in 0..(inner - 1)}
  IN WrittenAll(o, LAMBDA k, p :
       IF k > 1 THEN block(p) ELSE block(p \div inner) \cup Opt(2, weight, ch(p)) \cup Opt(3, bias, ch(p)))

native_group_norm_out(in, weight, bias, N, C, HxW, group, os) ==
  IF GroupNormAborts(in, N) THEN Aborted(os)
  ELSE Check(dim(in) >= 2 /\ check_group_norm_args(in, weight, bias, N, C, HxW, group, os), os,
    ResizeEach(os, LAMBDA k : IF k = 1 THEN in.sizes ELSE <<N, group>>, LAMBDA o :
      Check(/\ tensor_is_default_dim_order(in) /\ tensors_have_same_dim_order(<<in>> \o o)
            /\ SameOrder(in, <<weight, bias>>), o,
        Switch(in.type, FloatTypes, o, group_norm(in, weight, bias, N, C, HxW, group, o)))))

check_layer_norm_args(in, shape, weight, bias, os) ==
  /\ Len(shape) >= 1 /\ dim(in) >= Len(shape)
  /\ SubSeq(in.sizes, dim(in) - Len(shape) + 1, dim(in)) = shape
  /\ SameType(in, <<weight, bias>>)
  /\ \A t \in {weight, bias} : t # <<>> => tensor_has_expected_size(t[1], shape)
  /\ tensors_have_same_dtype(<<in>> \o os)

get_layer_norm_out_target_size(in, shape) ==
  [d \in 1..dim(in) |-> IF d <= dim(in) - Len(shape) THEN in.sizes[d] ELSE 1]

layer_norm(in, shape, weight, bias, o) ==
  LET n == Product(shape)
      block(i) == {One(1, i * n + j) : j \in 0..(n - 1)}
  IN WrittenAll(o, LAMBDA k, p :
       IF k > 1 THEN block(p) ELSE block(p \div n) \cup Opt(2, weight, p % n) \cup Opt(3, bias, p % n))

native_layer_norm_out(in, shape, weight, bias, os) ==
  Check(/\ check_layer_norm_args(in, shape, weight, bias, os)
        /\ tensor_is_default_dim_order(in) /\ tensors_have_same_dim_order(<<in>> \o os)
        /\ SameOrder(in, <<weight, bias>>), os,
    ResizeEach(os, LAMBDA k : IF k = 1 THEN in.sizes ELSE get_layer_norm_out_target_size(in, shape), LAMBDA o :
      Switch(in.type, FloatTypes, o, layer_norm(in, shape, weight, bias, o))))

-----------------------------------------------------------------------------
(* The kernels outside kernels/portable: the vectorised code of            *)
(* kernels/optimized, the custom operators for language models, the        *)
(* quantized kernels of kernels/quantized and those of the Cadence         *)
(* backend.                                                                *)

(* The vectorised code: the loops of kernels/optimized, the optimized      *)
(* kernels built on them, and the custom operators for language models.    *)

(* The loops the optimized kernels are built from: the vectorised maps and *)
(* reductions of kernels/optimized/vec/functional_base.h, the matrix       *)
(* product of kernels/optimized/blas and the row statistics of             *)
(* kernels/optimized/cpu/moments_utils.h.  A loop is the set of positions  *)
(* it stores, or for each stored position the positions it combines.       *)

CONSTANTS
  VecSize,     \* lanes of Vectorized<T>, Vec::size()
  ChunkSize    \* kChunkSize, vectors summed before they enter the stack

ASSUME LoopConstants == VecSize \in Nat \ {0} /\ ChunkSize \in Nat \ {0}

-----------------------------------------------------------------------------
(* map, map2, map3, map4: whole vectors, then a partial one for the rest.  *)
Rest(length) == length - (length % VecSize)

whole_vectors(length) ==
  UNION {d..(d + VecSize - 1) : d \in {d \in 0..(Rest(length) - 1) : d % VecSize = 0}}

mapped(length) == whole_vectors(length) \cup Rest(length)..(length - 1)

(* The rows of a matrix against one vector: <<output, matrix, vector>>.    *)
broadcasting_map_2d_by_1d(rows, cols) ==
  {<<r * cols + c, r * cols + c, c>> : r \in 0..(rows - 1), c \in mapped(cols)}

(* reduce_all: lane l gathers every VecSize-th element; the last partial   *)
(* vector only changes the lanes it fills.  Fewer elements than lanes are  *)
(* folded lane by lane.                                                    *)
Lane(length, l) ==
  {d \in 0..(length - 1) : d % VecSize = l /\ d < Rest(length)}
    \cup {d \in 0..(length - 1) : d >= Rest(length) /\ d - Rest(length) = l}

vec_reduce_all(lane(_), lanes) == UNION {lane(l) : l \in 0..(lanes - 1)}

reduce_all(length) ==
  IF length < VecSize THEN vec_reduce_all(LAMBDA l : {l}, length)
  ELSE vec_reduce_all(LAMBDA l : Lane(length, l), VecSize)

-----------------------------------------------------------------------------
(* cpublas::gemm on column-major matrices: for every element of c, the     *)
(* pairs of positions of a and b whose products it sums.                   *)

(* Four partial sums, the rest into the first.                             *)
sum(N) ==
  LET ilp == 4
      body == N - (N % ilp)
  IN UNION {{i \in 0..(body - 1) : i % ilp = k} : k \in 0..(ilp - 1)} \cup body..(N - 1)

Product2(m, n, k, ldc, a(_, _), b(_, _)) ==
  [q \in {j * ldc + i : i \in 0..(m - 1), j \in 0..(n - 1)} |->
     LET ij == CHOOSE ij \in (0..(m - 1)) \X (0..(n - 1)) : ij[2] * ldc + ij[1] = q
     IN {<<a(ij[1], l), b(l, ij[2])>> : l \in sum(k)}]

gemm_notrans_(m, n, k, lda, ldb, ldc) ==
  Product2(m, n, k, ldc, LAMBDA i, l : i + l * lda, LAMBDA l, j : l + j * ldb)

gemm_transa_(m, n, k, lda, ldb, ldc) ==
  Product2(m, n, k, ldc, LAMBDA i, l : i * lda + l, LAMBDA l, j : j * ldb + l)

gemm_transb_(m, n, k, lda, ldb, ldc) ==
  Product2(m, n, k, ldc, LAMBDA i, l : i + l * lda, LAMBDA l, j : j + l * ldb)

gemm_transab_(m, n, k, lda, ldb, ldc) ==
  Product2(m, n, k, ldc, LAMBDA i, l : i * lda + l, LAMBDA l, j : l * ldb + j)

gemm_impl(transa, transb, m, n, k, lda, ldb, ldc) ==
  CASE ~transa /\ ~transb -> gemm_notrans_(m, n, k, lda, ldb, ldc)
    [] transa /\ ~transb -> gemm_transa_(m, n, k, lda, ldb, ldc)
    [] ~transa /\ transb -> gemm_transb_(m, n, k, lda, ldb, ldc)
    [] transa /\ transb -> gemm_transab_(m, n, k, lda, ldb, ldc)

(* The leading dimension of b is reset on the wrong extent.                *)
normalize_by_rows(transa, transb, m, n, k, lda, ldb, ldc) ==
  [a |-> IF transa THEN (IF m = 1 THEN k ELSE lda) ELSE IF k = 1 THEN m ELSE lda,
   b |-> IF transb THEN (IF k = 1 THEN n ELSE ldb) ELSE IF k = 1 THEN n ELSE ldb,
   c |-> IF n = 1 THEN m ELSE ldc]

(* BLAS refuses a leading dimension smaller than the rows, even of a       *)
(* matrix whose leading dimension is never used.                           *)
normalize_last_dims(transa, transb, m, n, k, lda, ldb, ldc) ==
  [a |-> IF transa THEN (IF m = 1 THEN k ELSE lda) ELSE IF k = 1 THEN m ELSE lda,
   b |-> IF transb THEN (IF k = 1 THEN n ELSE ldb) ELSE IF n = 1 THEN k ELSE ldb,
   c |-> IF n = 1 THEN m ELSE ldc]

gemm(transa, transb, m, n, k, lda, ldb, ldc) ==
  LET ld == normalize_last_dims(transa, transb, m, n, k, lda, ldb, ldc)
  IN gemm_impl(transa, transb, m, n, k, ld.a, ld.b, ld.c)

-----------------------------------------------------------------------------
(* RowwiseMoments: the mean and variance of a row are combined in pairs, a *)
(* stack holding at depth j the moments of 2^j chunks.  A partial result   *)
(* is how many vectors it counts and which ones it has seen.               *)
divup(x, y) == (x + y - 1) \div y

CeilLog2(x) == IF x <= 2 THEN 1 ELSE Min({b \in 1..x : 2^b >= x})

NoMoments == [m0 |-> 0, seen |-> <<>>]

AddMomentsVec(add, m) == [m0 |-> m.m0 + add.m0, seen |-> m.seen \o add.seen]

UpdateMomentsVec(first, m0, m) ==
  AddMomentsVec([m0 |-> m0, seen |-> [j \in 1..m0 |-> first + j - 1]], m)

(* Level j - 1 is pushed up whenever it has been filled twice.             *)
PushUp(stk, i, depth) ==
  FoldLeft(LAMBDA s, j :
             IF (i + 1) % (2^j) = 0
             THEN [s EXCEPT ![j] = AddMomentsVec(s[j - 1], @), ![j - 1] = NoMoments]
             ELSE s,
           stk, [j \in 1..(depth - 1) |-> j])

(* The levels are then added into the bottom, the elements after the last  *)
(* whole vector are taken one by one, and the lanes added with weight n.   *)
RowwiseMoments(N) ==
  LET n == N \div VecSize
      m == divup(n, ChunkSize)
      depth == CeilLog2(m)
      stk == FoldLeft(LAMBDA s, i :
               PushUp([s EXCEPT ![0] = UpdateMomentsVec(i * ChunkSize, Min({ChunkSize, n - i * ChunkSize}), @)],
                      i, depth),
               [j \in 0..(depth - 1) |-> NoMoments], [i \in 1..m |-> i - 1])
      all == FoldLeft(LAMBDA s, j : AddMomentsVec(stk[j], s), stk[0], [j \in 1..(depth - 1) |-> j])
  IN [m0 |-> n, weight |-> all.m0, seen |-> all.seen,
      tail |-> (n * VecSize)..(N - 1)]

(* The elements of the row the statistics take in.                         *)
Moments(N) ==
  UNION {UNION {{v * VecSize + l : l \in 0..(VecSize - 1)} : v \in ToSet(r.seen)} \cup r.tail :
           r \in {RowwiseMoments(N)}}

-----------------------------------------------------------------------------
(* The kernels of kernels/optimized/cpu, which replace portable kernels of *)
(* the same operators.  What an output element reads is written as in the  *)
(* module of the portable kernel it replaces: an elementwise kernel pairs  *)
(* its two operands in the order of the formula.                           *)

Reduced == {"Half", "BFloat16"}

Pair(k, p, l, q) == << <<k, p>>, <<l, q>> >>

vec_map(o, n, read(_)) == Outcome("Ok", o, [p \in mapped(n) |-> read(p)])

-----------------------------------------------------------------------------
(* binary_ops.h: which loop two operands can take.                         *)
ignoring_leading_1s(sizes) ==
  LET first == {i \in DOMAIN sizes : sizes[i] # 1}
  IN IF first = {} THEN <<>> ELSE SubSeq(sizes, Min(first), Len(sizes))

sizes_match_ignoring_leading_1s(a, b) == ignoring_leading_1s(a) = ignoring_leading_1s(b)

select_broadcast_2d_by_1d_optimized_path(a, b) ==
  LET l == ignoring_leading_1s(a.sizes)
      r == ignoring_leading_1s(b.sizes)
  IN CASE Len(l) = 2 /\ Len(r) = 1 /\ l[2] = r[1] -> "kBroadcast2dBy1d"
       [] Len(l) = 1 /\ Len(r) = 2 /\ r[2] = l[1] -> "kBroadcast2dBy1dReverseArguments"
       [] OTHER -> "kNone"

SameTypes(a, b, out) == a.type = b.type /\ a.type = out.type

(* out has not been resized yet: its size is what the last call left.      *)
select_optimized_path(a, b, out) ==
  IF ~SameTypes(a, b, out) \/ a.type \in Reduced THEN "kNone"
  ELSE IF \/ a.sizes = b.sizes
          \/ /\ numel(a) = numel(b)
             /\ numel(a) = numel(out) \/ sizes_match_ignoring_leading_1s(a.sizes, b.sizes)
       THEN "kTreatAs1d"
       ELSE select_broadcast_2d_by_1d_optimized_path(a, b)

(* A matrix with a row: turned says that the row is the first operand of   *)
(* a formula that does not commute                                         *)
by_rows(lhs, kl, kr, turned, out, types, alpha(_)) ==
  LET cols == lhs.sizes[dim(lhs)]
  IN Resize(out, lhs.sizes, LAMBDA o :
       Switch(o.type, types, o, Check(alpha(o.type), o,
         Outcome("Ok", o,
           [p \in {t[1] : t \in broadcasting_map_2d_by_1d(lhs.sizes[dim(lhs) - 1], cols)} |->
              IF turned THEN Pair(kr, p % cols, kl, p) ELSE Pair(kl, p, kr, p % cols)]))))

on_path(path, a, ka, b, kb, out, types, alpha(_), commutes, general) ==
  CASE path = "kNone" -> general
    [] path = "kTreatAs1d" ->
         Resize(out, a.sizes, LAMBDA o :
           Switch(a.type, types, o, Check(alpha(a.type), o,
             vec_map(o, numel(o), LAMBDA p : Pair(ka, p, kb, p)))))
    [] path = "kBroadcast2dBy1dReverseArguments" -> by_rows(b, kb, ka, ~commutes, out, types, alpha)
    [] OTHER -> by_rows(a, ka, kb, FALSE, out, types, alpha)

(* What follows the tests on one-element operands.  ka and kb number the   *)
(* operands; a kernel that "commutes" writes matrix before vector.         *)
by_optimized_path(a, ka, b, kb, out, types, alpha(_), commutes, general) ==
  on_path(select_optimized_path(a, b, out), a, ka, b, kb, out, types, alpha, commutes, general)

half_to_float(t) == IF t \in Reduced THEN "Float" ELSE t

(* kNone: every element is converted; types are switched on one by one.    *)
any_types(a, ka, b, kb, common, alpha(_), types, out) ==
  Check(canCast(common, out.type), out,
    resize_to_broadcast_target_size(a, b, out, LAMBDA o :
      Switch(a.type, types, o, Switch(b.type, types, o, Switch(o.type, types, o,
        Check(alpha(common), o,
          Written(o, LAMBDA i : Pair(ka, broadcast_position(a, o.sizes, i),
                                     kb, broadcast_position(b, o.sizes, i)))))))))

PromotedToFloat(a, b) == promoteTypes(half_to_float(a.type), half_to_float(b.type))

(* add and mul: only a one-element second operand is looked for, so the    *)
(* operands are exchanged when the first has one element.                  *)
commuting_out(a, ka, b, kb, alpha(_), out) ==
  IF numel(b) = 1 /\ SameTypes(a, b, out) /\ a.type \notin Reduced
  THEN resize_to_broadcast_target_size(a, b, out, LAMBDA o :
         Switch(a.type, REALB, o, Check(alpha(a.type), o,
           vec_map(o, numel(o), LAMBDA p : Pair(ka, p, kb, 0)))))
  ELSE by_optimized_path(a, ka, b, kb, out, REALB, alpha, TRUE,
         any_types(a, ka, b, kb, PromotedToFloat(a, b), alpha, REALHBBF16, out))

opt_add_out(a, b, alpha, out) ==
  IF numel(b) # 1 /\ numel(a) = 1
  THEN commuting_out(b, 2, a, 1, LAMBDA t : extract_scalar(alpha, t), out)
  ELSE commuting_out(a, 1, b, 2, LAMBDA t : extract_scalar(alpha, t), out)

opt_mul_out(a, b, out) ==
  IF numel(b) # 1 /\ numel(a) = 1
  THEN commuting_out(b, 2, a, 1, LAMBDA t : TRUE, out)
  ELSE commuting_out(a, 1, b, 2, LAMBDA t : TRUE, out)

(* sub and div look for one element on either side.                        *)
one_element(a, b, out, types, alpha(_)) ==
  resize_to_broadcast_target_size(a, b, out, LAMBDA o :
    Switch(a.type, types, o, Check(alpha(a.type), o,
      vec_map(o, numel(o), LAMBDA p : IF numel(a) = 1 THEN Pair(1, 0, 2, p) ELSE Pair(1, p, 2, 0)))))

HasOneElement(a, b, out) == (numel(a) = 1 \/ numel(b) = 1) /\ SameTypes(a, b, out) /\ a.type # "Half"

opt_sub_out(a, b, alpha, out) ==
  LET extracted(t) == extract_scalar(alpha, t)
  IN Check(out.type \in REALH, out,
       IF HasOneElement(a, b, out) THEN one_element(a, b, out, REAL, extracted)
       ELSE by_optimized_path(a, 1, b, 2, out, REAL, extracted, FALSE,
              any_types(a, 1, b, 2, PromotedToFloat(a, b), extracted, REALH, out)))

div_compute_type(a, b) ==
  CASE isFloatingType(a) /\ isFloatingType(b) -> promoteTypes(a, b)
    [] isFloatingType(a) /\ ~isFloatingType(b) -> a
    [] ~isFloatingType(a) /\ isFloatingType(b) -> b
    [] OTHER -> "Float"

opt_div_out(a, b, out) ==
  LET any(t) == TRUE
  IN IF HasOneElement(a, b, out) THEN one_element(a, b, out, REALB, any)
     ELSE by_optimized_path(a, 1, b, 2, out, REALB, any, FALSE,
            IF {a.type, b.type} \subseteq REALHBBF16
            THEN any_types(a, 1, b, 2, div_compute_type(a.type, b.type), any, REALB, out)
            ELSE Aborted(out))

(* A scalar operand: failures abort.                                       *)
with_scalar(a, common, out, fast, slow, alphas(_)) ==
  IF common # out.type THEN Aborted(out)
  ELSE LET r == Resize(out, a.sizes, LAMBDA o :
                  IF a.type = common /\ a.type \notin Reduced
                  THEN Switch(a.type, fast, o, Switch(TRUE, {alphas(a.type)}, o,
                         vec_map(o, numel(o), LAMBDA p : << <<1, p>> >>)))
                  ELSE Switch(a.type, slow, o, Switch(o.type, slow, o,
                         Switch(get_compute_type(common), fast, o,
                           Switch(TRUE, {alphas(get_compute_type(common))}, o, Map(a, o))))))
       IN IF r.status = "InvalidArgument" THEN Aborted(r.out) ELSE r

opt_add_scalar_out(a, b, alpha, out) ==
  with_scalar(a, promote_type_with_scalar(a.type, b), out, REALB, REALHBBF16,
              LAMBDA t : extract_scalar(alpha, t))

opt_mul_scalar_out(a, b, out) ==
  with_scalar(a, promote_type_with_scalar(a.type, b), out, REALB, REALHBBF16, LAMBDA t : TRUE)

opt_sub_scalar_out(a, b, alpha, out) ==
  with_scalar(a, promote_type_with_scalar(a.type, b), out, REAL, REALH,
              LAMBDA t : b # "Bool" /\ extract_scalar(alpha, t))

opt_div_scalar_out(a, b, out) ==
  with_scalar(a, IF isFloatingType(a.type) THEN a.type ELSE "Float", out, REAL, REALB, LAMBDA t : TRUE)

-----------------------------------------------------------------------------
opt_exp_out(a, out) ==
  Resize(out, a.sizes, LAMBDA o :
    Check(tensor_is_floating_type(o), o,
      Switch(a.type, REALHBBF16, o,
        IF a.type = o.type /\ a.type \notin Reduced
        THEN vec_map(o, numel(a), LAMBDA p : << <<1, p>> >>)
        ELSE Map(a, o))))

opt_neg_out(a, out) ==
  Resize(out, a.sizes, LAMBDA o :
    Switch(a.type, REAL, o, vec_map(o, numel(a), LAMBDA p : << <<1, p>> >>)))

opt_gelu_out(a, approximate, out) ==
  Check(/\ tensors_have_same_shape_and_dtype(a, out)
        /\ a.type = "Float"
        /\ approximate \in {"tanh", "none"}, out,
    Outcome("Ok", out, [p \in Positions(a) |-> << <<1, p>> >>]))

opt_le_tensor_out(a, b, out) ==
  Check(tensors_have_same_shape(a, b), out,
    Resize(out, a.sizes, LAMBDA o :
      IF SameTypes(a, b, o)
      THEN Switch(o.type, REALB, o, vec_map(o, numel(a), LAMBDA p : Pair(1, p, 2, p)))
      ELSE Switch(a.type, REALB, o, Switch(b.type, REALB, o, Switch(o.type, REALB, o,
             Written(o, LAMBDA p : Pair(1, p, 2, p)))))))

opt_le_scalar_out(a, b, out) ==
  Resize(out, a.sizes, LAMBDA o :
    IF a.type = promoteTypes(a.type, b) /\ a.type = o.type
    THEN Switch(a.type, REALB, o, vec_map(o, numel(a), LAMBDA p : << <<1, p>> >>))
    ELSE Switch(a.type, REALB, o, Switch(o.type, REALB, o, Map(a, o))))

-----------------------------------------------------------------------------
(* Matrix products: gemm is column major, so the operands change places    *)
(* and its first matrix is the kernel's second input.                      *)
multiplied(o, g) == Outcome("Ok", o, [q \in DOMAIN g |-> {Two(1, t[2], 2, t[1]) : t \in g[q]}])

opt_mm_out(in, mat2, out) ==
  Check(check_mm_args(in, mat2, out), out,
    Resize(out, get_mm_out_target_size(in, mat2), LAMBDA o :
      IF numel(o) = 0 THEN Outcome("Ok", o, <<>>)
      ELSE Switch(in.type, REALHBF16, o,
             LET n == size(in, 0)
                 k == size(in, 1)
                 m == size(mat2, 1)
             IN multiplied(o, gemm(FALSE, FALSE, m, n, k, m, k, m)))))

check_linear_args(in, mat2, out) ==
  /\ dim(in) = dim(out) /\ dim(in) >= 2
  /\ tensor_is_rank(mat2, 2)
  /\ tensors_have_same_dtype(<<in, mat2, out>>)
  /\ tensors_have_same_size_at_dims(in, dim(in) - 1, mat2, 1)

get_linear_out_target_size(in, mat2) == [in.sizes EXCEPT ![dim(in)] = size(mat2, 0)]

opt_linear_out(in, mat2, bias, out) ==
  Check(bias = <<>> /\ check_linear_args(in, mat2, out), out,
    Resize(out, get_linear_out_target_size(in, mat2), LAMBDA o :
      IF numel(o) = 0 THEN Outcome("Ok", o, <<>>)
      ELSE Switch(in.type, REALHBF16, o,
             LET n == getLeadingDims(in, dim(in) - 1)
                 k == in.sizes[dim(in)]
                 m == size(mat2, 0)
             IN multiplied(o, gemm(TRUE, FALSE, m, n, k, k, k, m)))))

(* The inner dimensions are not compared.                                  *)
check_bmm_out_args(in, mat2, out) ==
  /\ dim(in) = dim(mat2) /\ dim(in) = dim(out) /\ dim(in) = 3
  /\ size(in, 0) = size(mat2, 0) /\ size(in, 0) = size(out, 0)
  /\ size(mat2, 2) = size(out, 2) /\ size(in, 1) = size(out, 1)
  /\ tensors_have_same_dtype(<<in, mat2, out>>)

bmm_kernel(in, mat2, o) ==
  LET n == size(in, 1)
      k == size(in, 2)
      m == size(mat2, 2)
      g == gemm(FALSE, FALSE, m, n, k, m, k, m)
  IN IF 0 \in {numel(in), numel(mat2), numel(o)} THEN Outcome("Ok", o, <<>>)
     ELSE Written(o, LAMBDA q :
            LET i == q \div (m * n)
            IN {Two(1, i * k * n + t[2], 2, i * m * k + t[1]) : t \in g[q % (m * n)]})

opt_bmm_out(in, mat2, out) ==
  LET n == dim(in) - 1
  IN Check(n < dim(mat2), out,
       Resize(out, [in.sizes EXCEPT ![n + 1] = size(mat2, n)], LAMBDA o :
         Check(check_bmm_out_args(in, mat2, o), o,
           Switch(in.type, REALH, o, bmm_kernel(in, mat2, o)))))

-----------------------------------------------------------------------------
(* The build without NEON.  A row is the elements one dim_stride apart.    *)
log_softmax_kernel(t, d, o) ==
  LET n == size(t, d)
      inner == getTrailingDims(t, d)
      row(p) == (p \div (n * inner)) * n * inner + (p % inner)
  IN IF dim(t) = 0 THEN Written(o, LAMBDA p : Visited(<<0>>))
     ELSE Written(o, LAMBDA p : Visited([j \in 1..n |-> row(p) + (j - 1) * inner]))

opt_log_softmax_out(t, d, to_float, out) ==
  Check(check_log_softmax_args(t, d, to_float, out), out,
    Resize(out, t.sizes, LAMBDA o :
      Switch(o.type, {"Float"}, o, log_softmax_kernel(t, ET_NORMALIZE_IX(d, nonzero_dim(t)), o))))

(* Nothing but the statistics is written for rows without elements.        *)
NormRows(M, N, block, scaled, weight, bias, o) ==
  LET stats == [i \in 0..(M - 1) |-> IF N = 0 THEN {} ELSE block[i]]
  IN Outcome("Ok", o,
       <<[p \in {i * N + j : i \in 0..(M - 1), j \in scaled} |->
            block[p \div N] \cup {One(1, p)} \cup Opt(2, weight, p % N) \cup Opt(3, bias, p % N)],
         stats, stats>>)

opt_layer_norm(in, M, N, weight, bias, o) ==
  NormRows(M, N, [i \in 0..(M - 1) |-> {One(1, i * N + j) : j \in Moments(N)}],
           IF weight # <<>> /\ bias # <<>> THEN mapped(N) ELSE 0..(N - 1), weight, bias, o)

opt_native_layer_norm_out(in, shape, weight, bias, os) ==
  Check(check_layer_norm_args(in, shape, weight, bias, os), os,
    ResizeEach(os, LAMBDA k : IF k = 1 THEN in.sizes ELSE get_layer_norm_out_target_size(in, shape), LAMBDA o :
      Switch(in.type, FloatTypes, o,
        opt_layer_norm(in, getLeadingDims(in, dim(in) - Len(shape)), Product(shape), weight, bias, o))))

-----------------------------------------------------------------------------
(* The custom operators of extension/llm/custom_ops.  Attention takes the  *)
(* queries in blocks of QSplit rows and the keys in blocks of KVSplit      *)
(* columns (32, 64 or 256 by 512 in the code).                             *)

CONSTANTS QSplit, KVSplit

(* cpu_flash_attention has a static_assert.                                *)
ASSUME SplitSizes == QSplit \in Nat \ {0} /\ KVSplit \in Nat /\ KVSplit > QSplit

Least(a, b) == IF a < b THEN a ELSE b

(* One column too many is kept.                                            *)
causal_fill_late(first, n, qBlock, kvBlock) ==
  UNION {(row * kvBlock + (first + row - n) + 2)..((row + 1) * kvBlock - 1) : row \in 0..(qBlock - 1)}

(* Buffer positions of a block of scores, qBlock rows by kvBlock columns,  *)
(* that are filled with -inf: from one past the last column of each row    *)
(* to the end of the row.  The start lies before the row when last_col is  *)
(* less than -1.                                                           *)
causal_fill(first, n, qBlock, kvBlock) ==
  UNION {(row * kvBlock + (first + row - n) + 1)..((row + 1) * kvBlock - 1) : row \in 0..(qBlock - 1)}

(* The loop over the blocks of keys of compute_lambda for the query block  *)
(* that starts at row m: for each row the keys whose score takes part in   *)
(* its softmax and is not -inf.  Only the block with the last key is       *)
(* masked.                                                                 *)
keys_of_block(m, qSize, kvSize, is_causal, start_pos) ==
  LET qSplitSize == Least(QSplit, qSize)
      kvSplitSize == Least(KVSplit, kvSize)
      qBlock == Least(qSplitSize, qSize - m)
      num_keys == IF is_causal THEN Least(m + start_pos + qBlock, kvSize) ELSE kvSize
      blocks == {n \in 0..(num_keys - 1) : n % kvSplitSize = 0}
      width(n) == Least(kvSplitSize, kvSize - n)
      filled(n) == IF is_causal /\ num_keys - n <= kvSplitSize
                   THEN causal_fill(m + start_pos, n, qBlock, width(n)) ELSE {}
  IN [row \in 0..(qBlock - 1) |->
        UNION {{n + c : c \in {c \in reduce_all(width(n)) : row * width(n) + c \notin filled(n)}} : n \in blocks}]

(* compute_lambda over all query blocks, in any division among threads.    *)
attended(qSize, kvSize, is_causal, start_pos) ==
  LET qSplitSize == Least(QSplit, qSize)
  IN [r \in 0..(qSize - 1) |->
        LET m == (r \div qSplitSize) * qSplitSize
        IN keys_of_block(m, qSize, kvSize, is_causal, start_pos)[r - m]]

(* q, k and v with their strides; seq and head are the dimensions of the   *)
(* sequence and of the heads.  An output element reads a query row, the    *)
(* key rows and one element of the value rows attended to.                 *)
cpu_flash_attention(q, k, v, is_causal, mask, seq, head, start_pos, o) ==
  LET heads == size(q, head)
      kv_heads == size(k, head)
      qSize == size(q, seq)
      kvSize == size(v, seq)
      reps == heads \div kv_heads
      keys == attended(qSize, kvSize, is_causal, start_pos)
      sq == q.strides
      sk == k.strides
      sv == v.strides
      so == strides(o)
  IN IF \/ kv_heads > heads \/ heads % kv_heads # 0
        \/ mask # <<>> /\ numel(mask[1]) > 0 /\ mask[1].sizes # <<qSize, kvSize>>
     THEN Aborted(o)
     ELSE Written(o, LAMBDA p :
            LET c == [d \in 1..4 |-> (p \div so[d]) % o.sizes[d]]
                b == c[1]
                h == c[head + 1]
                s == c[seq + 1]
            IN [query |-> b * sq[1] + h * sq[head + 1] + s * sq[seq + 1],
                keys |-> {b * sk[1] + (h \div reps) * sk[head + 1] + n * sk[seq + 1] : n \in keys[s]},
                values |-> {b * sv[1] + (h \div reps) * sv[head + 1] + n * sv[seq + 1] + c[4] : n \in keys[s]}])

WithStrides(t) == [type |-> t.type, sizes |-> t.sizes, strides |-> strides(t)]

is_default(t) == is_contiguous_dim_order(t.order)

validate_flash_attention_args(q, k, v, mask) ==
  /\ dim(q) = 4 /\ dim(k) = 4 /\ dim(v) = 4
  /\ size(q, 3) = size(v, 3) /\ size(k, 3) = size(v, 3)
  /\ q.type = "Float" /\ k.type = "Float" /\ v.type = "Float"
  /\ mask # <<>> => dim(mask[1]) = 2 /\ mask[1].type = q.type
  /\ is_default(q) /\ is_default(k) /\ is_default(v)

flash_attention_kernel_out(q, k, v, mask, is_causal, out) ==
  Check(validate_flash_attention_args(q, k, v, mask), out,
    Resize(out, q.sizes, LAMBDA o :
      cpu_flash_attention(WithStrides(q), WithStrides(k), WithStrides(v), is_causal, mask, 2, 1, 0, o)))

(* The first start_pos + seq_len positions of a cache, as a tensor with    *)
(* the strides of its new sizes but the cache's stride between batches.    *)
sliced_own_strides(c, n) ==
  LET sizes == [c.sizes EXCEPT ![2] = n]
  IN [type |-> c.type, sizes |-> sizes, strides |-> dim_order_to_stride(sizes, <<0, 1, 2, 3>>)]

sliced_cache(c, n) == [sliced_own_strides(c, n) EXCEPT !.strides[1] = strides(c)[1]]

custom_sdpa_out(q, k, v, start_pos, mask, is_causal, out) ==
  Check(mask = <<>> \/ ~is_causal, out,
    IF dim(q) # 4 THEN Aborted(out)
    ELSE LET n == start_pos + size(q, 1)
         IN Resize(out, q.sizes, LAMBDA o :
              Switch(q.type, FloatTypes, o,
                cpu_flash_attention(WithStrides(q), sliced_cache(k, n), sliced_cache(v, n),
                                    is_causal, mask, 1, 2, start_pos, o))))

-----------------------------------------------------------------------------
(* The key and value caches: [batch, position, head, element].             *)
validate_cache_params(k_cache, v_cache, start_pos, seq_len) ==
  \A c \in {k_cache, v_cache} :
    /\ dim(c) = 4
    /\ start_pos < size(c, 1)
    /\ start_pos + seq_len <= size(c, 1)
    /\ is_default(c)

element_size(t) ==
  CASE t.type \in {"Byte", "Char", "Bool"} -> 1
    [] t.type \in {"Short", "Half", "BFloat16"} -> 2
    [] t.type \in {"Int", "Float"} -> 4
    [] OTHER -> 8

CanUpdate(value, cache) ==
  /\ size(value, 0) = size(cache, 0) /\ size(value, 2) = size(cache, 2) /\ size(value, 3) = size(cache, 3)
  /\ element_size(value) = element_size(cache)
  /\ is_default(value)

(* One memcpy per batch line; the cache positions it fills, each with the  *)
(* position of the value copied there.                                     *)
update_cache(value, cache, start_pos) ==
  LET line == numel(value) \div size(value, 0)
  IN {<<b * strides(cache)[1] + start_pos * strides(cache)[2] + i, b * strides(value)[1] + i>> :
        b \in 0..(size(value, 0) - 1), i \in 0..(line - 1)}

(* The fills of the caches are part of the outcome.                        *)
sdpa_with_kv_cache_out(q, k, v, k_cache, v_cache, start_pos, seq_len, mask, is_causal, out) ==
  IF ~validate_cache_params(k_cache, v_cache, start_pos, seq_len) THEN Refused(out)
  ELSE IF ~(dim(q) = 4 /\ CanUpdate(k, k_cache) /\ CanUpdate(v, v_cache)) THEN Aborted(out)
  ELSE custom_sdpa_out(q, k_cache, v_cache, start_pos, mask, is_causal, out)

update_quantized_cache_out(value, cache, start_pos, out) ==
  IF ~(/\ dim(cache) = 4 /\ dim(value) = 4
       /\ start_pos < size(cache, 1) /\ start_pos + size(value, 1) <= size(cache, 1)
       /\ is_default(cache) /\ is_default(value))
  THEN Refused(out)
  ELSE IF ~CanUpdate(value, cache) THEN Aborted(out)
  ELSE Outcome("Ok", out, update_cache(value, cache, start_pos))

-----------------------------------------------------------------------------
fallback_out(t, out) ==
  Resize(out, t.sizes, LAMBDA o :
    Check(tensors_have_same_shape_and_dtype(t, o), o, Written(o, LAMBDA p : p)))

tile_crop_out_impl(t, tile, out) ==
  Check(/\ t.type = out.type /\ dim(t) = 3 /\ dim(out) = 4 /\ tile > 0
        /\ size(t, 2) % tile = 0 /\ size(t, 1) % tile = 0, out,
    LET across == size(t, 2) \div tile
    IN Resize(out, <<(size(t, 1) * size(t, 2)) \div (tile * tile), size(t, 0), tile, tile>>, LAMBDA o :
         Switch(o.type, ALL, o, Written(o, LAMBDA p :
           LET w == p % tile
               h == (p \div tile) % tile
               c == (p \div (tile * tile)) % size(t, 0)
               block == p \div (tile * tile * size(t, 0))
           IN c * size(t, 1) * size(t, 2)
                + ((block \div across) * tile + h) * size(t, 2) + (block % across) * tile + w))))

(* One butterfly: each pair of elements `step' apart becomes its sum and   *)
(* its difference.  An element is its coefficients over the input.         *)
butterfly(vec, step) ==
  LET n == DOMAIN vec
  IN [j \in n |-> [x \in n |->
        IF (j \div step) % 2 = 0 THEN vec[j][x] + vec[j + step][x] ELSE vec[j - step][x] - vec[j][x]]]

fast_hadamard_transform_unnormalized_simple_impl(log2) ==
  LET n == 0..(2 ^ log2 - 1)
      after[i \in 0..log2] ==
        IF i = 0 THEN [j \in n |-> [x \in n |-> IF x = j THEN 1 ELSE 0]] ELSE butterfly(after[i - 1], 2 ^ (i - 1))
  IN after[log2]

(* Rows whose length is a power of two.  The rows of 28 * 2^n elements,    *)
(* which a generated 28 by 28 matrix finishes, are left out.               *)
fast_hadamard_transform_out(t, out) ==
  Resize(out, t.sizes, LAMBDA o :
    Check(t.type = o.type, o,
      IF dim(t) = 0 \/ numel(t) = 0 THEN Outcome("Ok", o, <<>>)
      ELSE LET n == t.sizes[dim(t)]
           IN Check(is_default(t) /\ is_default(o) /\ strides(t)[dim(t)] = 1, o,
                Check(\E i \in 0..n : n = 2 ^ i, o,
                  Switch(t.type, FLOATH, o,
                    LET log2 == CHOOSE i \in 0..n : n = 2 ^ i
                        h == fast_hadamard_transform_unnormalized_simple_impl(log2)
                    IN Written(o, LAMBDA p : [x \in 0..(n - 1) |-> <<(p \div n) * n + x, h[p % n][x]>>]))))))

-----------------------------------------------------------------------------
(* The quantized kernels, those of kernels/quantized and those of the      *)
(* Cadence backend.                                                        *)

(* The kernels of kernels/quantized/cpu.  Nearly every test is an ET_CHECK *)
(* and aborts.  An output element reads <<operand, position>> pairs:       *)
(* operand 1 holds the values, 2 the scales, 3 the zero points.            *)

Require(ok, out, rest) == IF ok THEN rest ELSE Aborted(out)

ResizeOrAbort(out, sizes, rest(_)) ==
  LET r == Resize(out, sizes, rest) IN IF resize_tensor(out, sizes) = "Ok" THEN r ELSE Aborted(r.out)

FLOAT_OR_HALF == {"Float", "Half"}
Quantizable == {"Byte", "Char", "Bits16", "Short", "Int"}

OptRead(k, t, p) == IF t = <<>> THEN {} ELSE {<<k, p>>}

-----------------------------------------------------------------------------
(* Embedding tables of bytes, or of 2 or 4 bit values packed into bytes.   *)
get_embedding_dim(packed, nbit) == packed * (8 \div nbit)

(* Byte and shift of value j of a row; the low nibble comes first.         *)
weight_value_low_first(j, nbit) ==
  CASE nbit = 8 -> <<j, 0>>
    [] nbit = 2 -> <<j \div 4, 2 * (j % 4)>>
    [] nbit = 4 -> <<j \div 2, 4 * (j % 2)>>

weight_value(j, nbit) ==
  CASE nbit = 8 -> <<j, 0>>
    [] nbit = 2 -> <<j \div 4, 2 * (j % 4)>>
    [] nbit = 4 -> <<j \div 2, IF j % 2 = 1 THEN 0 ELSE 4>>

check_embedding_xbit_args(w, scales, zps, qmin, qmax, indices, dtype, out, nbit) ==
  /\ dim(w) = 2 /\ dim(scales) \in {1, 2}
  /\ size(scales, 0) = size(w, 0)
  /\ dim(scales) = 2 => get_embedding_dim(size(w, 1), nbit) % size(scales, 1) = 0
  /\ w.type = "Byte" \/ (nbit = 8 /\ w.type = "Char")
  /\ out.type \in FLOAT_OR_HALF /\ scales.type \in FLOAT_OR_HALF
  /\ zps # <<>> => zps[1].type = out.type /\ zps[1].sizes = scales.sizes
  /\ indices.type = "Long"
  /\ qmin <= qmax
  /\ dtype # "None" => out.type = dtype

embedding_xbit_per_channel(w, scales, zps, indices, nbit, o) ==
  LET n == get_embedding_dim(size(w, 1), nbit)
      groups == IF dim(scales) = 2 THEN size(scales, 1) ELSE 1
      group_size == n \div groups
  IN Written(o, LAMBDA p :
       LET index == indices.data[(p \div n) + 1]
           v == weight_value(p % n, nbit)
           qparam == index * groups + (p % n) \div group_size
       IN {<<1, index * size(w, 1) + v[1], v[2]>>, <<2, qparam>>} \cup OptRead(3, zps, qparam))

(* The sizes of the indices, the last one of out replaced.                 *)
resize_out_tensor(w, indices, nbit, out, rest(_)) ==
  ResizeOrAbort(out,
    [i \in 1..dim(out) |-> IF i = dim(out) THEN get_embedding_dim(size(w, 1), nbit) ELSE indices.sizes[i]], rest)

quantized_embedding_xbit_dtype_out(w, scales, zps, qmin, qmax, indices, dtype, nbit, out) ==
  resize_out_tensor(w, indices, nbit, out, LAMBDA o :
    Require(check_embedding_xbit_args(w, scales, zps, qmin, qmax, indices, dtype, o, nbit), o,
      embedding_xbit_per_channel(w, scales, zps, indices, nbit, o)))

(* Without a dtype the scales are read as elements of the output's type.   *)
quantized_embedding_xbit_out(w, scales, zps, qmin, qmax, indices, nbit, out) ==
  resize_out_tensor(w, indices, nbit, out, LAMBDA o :
    Require(check_embedding_xbit_args(w, scales, zps, qmin, qmax, indices, o.type, o, nbit), o,
      embedding_xbit_per_channel(w, scales, zps, indices, nbit, o)))

quantized_embedding_byte_out(w, scales, zps, qmin, qmax, indices, out) ==
  quantized_embedding_xbit_out(w, scales, zps, qmin, qmax, indices, 8, out)
quantized_embedding_byte_dtype_out(w, scales, zps, qmin, qmax, indices, dtype, out) ==
  quantized_embedding_xbit_dtype_out(w, scales, zps, qmin, qmax, indices, dtype, 8, out)
quantized_embedding_2bit_out(w, scales, zps, qmin, qmax, indices, out) ==
  quantized_embedding_xbit_out(w, scales, zps, qmin, qmax, indices, 2, out)
quantized_embedding_2bit_dtype_out(w, scales, zps, qmin, qmax, indices, dtype, out) ==
  quantized_embedding_xbit_dtype_out(w, scales, zps, qmin, qmax, indices, dtype, 2, out)
quantized_embedding_4bit_out(w, scales, zps, qmin, qmax, indices, out) ==
  quantized_embedding_xbit_out(w, scales, zps, qmin, qmax, indices, 4, out)
quantized_embedding_4bit_dtype_out(w, scales, zps, qmin, qmax, indices, dtype, out) ==
  quantized_embedding_xbit_dtype_out(w, scales, zps, qmin, qmax, indices, dtype, 4, out)

-----------------------------------------------------------------------------
quantized_add_out(a, b, ranges, out) ==
  Require(/\ tensors_have_same_shape_and_dtype(a, b) /\ tensors_have_same_shape_and_dtype(b, out)
          /\ \A r \in ranges : 0 <= r[1] /\ r[2] <= 255 /\ r[1] <= r[2], out,
    Switch(a.type, IntTypes, out,
      Outcome("Ok", out, [p \in Positions(a) |-> {<<1, p>>, <<2, p>>}])))

-----------------------------------------------------------------------------
(* Matrix products with integer weights.                                   *)
check_quantized_mixed_linear_args(in, w, scales, zps, dtype, out) ==
  /\ tensor_is_rank(in, 2) /\ tensor_is_rank(w, 2) /\ tensor_is_rank(out, 2)
  /\ dim(scales) \in {1, 2}
  /\ tensors_have_same_size_at_dims(in, 1, w, 1)
  /\ tensors_have_same_size_at_dims(scales, 0, w, 0)
  /\ in.type = scales.type
  /\ dtype # "None" => out.type = dtype /\ dtype \in FLOAT_OR_HALF
  /\ w.type = "Char" /\ in.type \in FLOAT_OR_HALF
  /\ zps = <<>>

(* Products of in[i][k], w[j][k] and the scale of k's group in row j.      *)
vec_quantized_matmul_transb_int8(i, j, n, g) ==
  LET n_over_g == (n + g - 1) \div g
  IN {<<<<1, i * n + k>>, <<4, j * n + k>>, <<2, j * n_over_g + k \div g>>>> : k \in 0..(n - 1)}

quantized_mixed_linear_out(in, w, scales, zps, dtype, out) ==
  Require(check_quantized_mixed_linear_args(in, w, scales, zps, dtype, out), out,
    ResizeOrAbort(out, <<size(in, 0), size(w, 0)>>, LAMBDA o :
      LET n == size(in, 1)
          p == size(w, 0)
          g == IF dim(scales) = 2 THEN (n + size(scales, 1) - 1) \div size(scales, 1) ELSE n
      IN Switch(IF dtype = "None" THEN o.type ELSE dtype, FLOATH, o,
           Written(o, LAMBDA q : vec_quantized_matmul_transb_int8(q \div p, q % p, n, g)))))

check_quantized_mixed_mm_args(in, w, scales, zps, out) ==
  /\ tensor_is_rank(in, 2) /\ tensor_is_rank(w, 2) /\ tensor_is_rank(scales, 1) /\ tensor_is_rank(out, 2)
  /\ tensors_have_same_size_at_dims(in, 1, w, 0)
  /\ tensors_have_same_size_at_dims(scales, 0, w, 0)
  /\ tensors_have_same_dtype(<<in, scales, out>>)
  /\ w.type = "Char" /\ in.type \in FLOAT_OR_HALF
  /\ zps = <<>>

vec_quantized_matmul_int8(i, j, n, p) ==
  {<<<<1, i * n + k>>, <<4, k * p + j>>, <<2, k>>>> : k \in 0..(n - 1)}

quantized_mixed_mm_out(in, w, scales, zps, out) ==
  Require(check_quantized_mixed_mm_args(in, w, scales, zps, out), out,
    ResizeOrAbort(out, <<size(in, 0), size(w, 1)>>, LAMBDA o :
      LET p == size(w, 1)
      IN Written(o, LAMBDA q : vec_quantized_matmul_int8(q \div p, q % p, size(in, 1), p))))

-----------------------------------------------------------------------------
(* One scale and one zero point for the whole tensor, or one per channel.  *)
check_dequantize_per_tensor_args(t, qmin, qmax, dtype, out_dtype, out) ==
  /\ t.type \in Quantizable /\ t.type = dtype
  /\ DtypeIs(out_dtype, out)
  /\ qmin <= qmax

LowerBound(type) == CASE type \in {"Byte", "Bits16"} -> 0 [] type = "Char" -> -128 [] OTHER -> -32768
UpperBound(type) == CASE type = "Byte" -> 255 [] type = "Char" -> 127 [] type = "Short" -> 32767 [] OTHER -> 65535

(* The bounds of Int are beyond every range the models use.                *)
check_quantize_per_tensor_args(t, qmin, qmax, dtype, out) ==
  /\ isFloatingType(t.type)
  /\ out.type = dtype /\ dtype \in Quantizable
  /\ dtype # "Int" => qmin >= LowerBound(dtype) /\ qmax <= UpperBound(dtype)

Each(k, p, c) == {<<1, p>>, <<2, c>>} \cup (IF k = 3 THEN {<<3, c>>} ELSE {})

dequantize_per_tensor_out(t, qmin, qmax, dtype, out_dtype, out) ==
  ResizeOrAbort(out, t.sizes, LAMBDA o :
    Require(check_dequantize_per_tensor_args(t, qmin, qmax, dtype, out_dtype, o), o,
      Switch(o.type, FloatTypes, o, Written(o, LAMBDA p : Each(3, p, 0)))))

quantize_per_tensor_out(t, qmin, qmax, dtype, out) ==
  ResizeOrAbort(out, t.sizes, LAMBDA o :
    Require(check_quantize_per_tensor_args(t, qmin, qmax, dtype, o), o,
      Switch(t.type, FloatTypes, o, Written(o, LAMBDA p : Each(3, p, 0)))))

OneEach(scale, zp) == scale.type = "Double" /\ zp.type = "Long" /\ numel(scale) = 1 /\ numel(zp) = 1

dequantize_per_tensor_tensor_args_out(t, scale, zp, qmin, qmax, dtype, out_dtype, out) ==
  Require(OneEach(scale, zp), out, dequantize_per_tensor_out(t, qmin, qmax, dtype, out_dtype, out))

quantize_per_tensor_tensor_args_out(t, scale, zp, qmin, qmax, dtype, out) ==
  Check(scale.type = "Double", out,
    Require(OneEach(scale, zp), out, quantize_per_tensor_out(t, qmin, qmax, dtype, out)))

(* apply_over_dim_list for every channel in turn; the last one that visits *)
(* an element decides its value.                                           *)
ChannelSections(t, axis, dims) ==
  [c \in 0..(size(t, axis) - 1) |->
     IF numel(t) = 0 THEN {} ELSE {get_init_index(t, dims, c)} \cup ToSet(apply_over_dim_list(t, dims, c))] @@ <<>>

WrittenByLast(k, section, o) ==
  LET writers(p) == {c \in DOMAIN section : p \in section[c]}
  IN Written(o, LAMBDA p : IF writers(p) = {} THEN {} ELSE Each(k, p, Max(writers(p))))

OverChannels(t, axis, dims, k, o) ==
  Require(size(t, axis) > 0 => check_dim_list_is_valid(t, dims) /\ size(t, axis) <= get_out_numel(t, dims), o,
    WrittenByLast(k, ChannelSections(t, axis, dims), o))

(* The dimensions of t other than axis.                                    *)
dequantize_dims(t, axis) == [i \in 1..(dim(t) - 1) |-> IF i - 1 < axis THEN i - 1 ELSE i]

(* From the axis on, the dimension before i.                               *)
quantize_dims(t, axis) == [i \in 1..(dim(t) - 1) |-> IF i - 1 < axis THEN i - 1 ELSE i - 2]

ChannelAxis(t, axis) == IF axis < 0 THEN axis + nonzero_dim(t) ELSE axis

dequantize_channels(t, scale, zps, axis, qmin, qmax, dtype, out_dtype, out) ==
  LET a == ChannelAxis(t, axis)
      k == IF zps = <<>> THEN 2 ELSE 3
  IN Require(/\ tensor_has_dim(t, axis)
             /\ numel(scale) = size(t, a)
             /\ zps # <<>> => zps[1].type = "Long" /\ numel(zps[1]) = size(t, a)
             /\ check_dequantize_per_tensor_args(t, qmin, qmax, dtype, out_dtype, out), out,
       Switch(out.type, FloatTypes, out,
         IF numel(scale) > 0 /\ scale.type \notin FloatTypes THEN Aborted(out)
         ELSE IF dim(t) = 1 THEN Written(out, LAMBDA p : Each(k, p, p))
         ELSE OverChannels(t, a, dequantize_dims(t, a), k, out)))

quantize_channels(t, scale, zp, axis, qmin, qmax, dtype, out) ==
  LET a == ChannelAxis(t, axis)
  IN Require(/\ tensor_has_dim(t, axis)
             /\ scale.type = "Double" /\ numel(scale) = size(t, a)
             /\ zp.type = "Long" /\ numel(zp) = size(t, a)
             /\ check_quantize_per_tensor_args(t, qmin, qmax, dtype, out), out,
       Switch(t.type, FloatTypes, out, OverChannels(t, a, quantize_dims(t, a), 3, out)))

dequantize_per_channel_out(t, scale, zps, axis, qmin, qmax, dtype, out_dtype, out) ==
  ResizeOrAbort(out, t.sizes, LAMBDA o : dequantize_channels(t, scale, zps, axis, qmin, qmax, dtype, out_dtype, o))

quantize_per_channel_out(t, scale, zp, axis, qmin, qmax, dtype, out) ==
  ResizeOrAbort(out, t.sizes, LAMBDA o : quantize_channels(t, scale, zp, axis, qmin, qmax, dtype, o))

(* A token is a row along the last dimension; a matrix of tokens stands in *)
(* for the input.                                                          *)
tokens(t) ==
  [t EXCEPT !.sizes = <<Product(Front(t.sizes)), t.sizes[dim(t)]>>, !.order = <<0, 1>>]

dequantize_per_token_out(t, scale, zp, qmin, qmax, dtype, out_dtype, out) ==
  ResizeOrAbort(out, t.sizes, LAMBDA o :
    dequantize_channels(tokens(t), scale, <<zp>>, 0, qmin, qmax, dtype, out_dtype, o))

quantize_per_token_out(t, scale, zp, qmin, qmax, dtype, out) ==
  ResizeOrAbort(out, t.sizes, LAMBDA o : quantize_channels(tokens(t), scale, zp, 0, qmin, qmax, dtype, o))

-----------------------------------------------------------------------------
(* The choice of a scale and a zero point.  Reals are quotients of         *)
(* integers; the floor of a scale rescales min, max and the scale alike,   *)
(* which leaves min / scale and max / scale as they were.                  *)
Round(n, d) ==       \* nearbyint(n / d): ties go to the even integer
  LET q == n \div d
      r == 2 * (n % d)
  IN IF r > d \/ (r = d /\ q % 2 = 1) THEN q + 1 ELSE q

Abs(n) == IF n < 0 THEN -n ELSE n

calculate_scale_and_zero_point(min, max, qmin, qmax) ==
  LET lo == IF min < 0 THEN min ELSE 0
      hi == IF max > 0 THEN max ELSE 0
      span == hi - lo                        \* scale = span / steps
      steps == qmax - qmin
      from_min == qmin * span - lo * steps   \* times span
      from_max == qmax * span - hi * steps
      initial == IF Abs(qmin) * span - Abs(lo) * steps < Abs(qmax) * span - Abs(hi) * steps
                 THEN from_min ELSE from_max
      zp == IF span = 0 THEN (IF Abs(qmin) < Abs(qmax) THEN qmin ELSE qmax)
            ELSE IF initial < qmin * span THEN qmin
            ELSE IF initial > qmax * span THEN qmax
            ELSE Round(initial, span)
  IN [span |-> span, zero_point |-> zp]

check_choose_args(t, qmin, qmax, os) ==
  /\ qmin < qmax
  /\ t.type = "Float" /\ os[1].type = "Double" /\ os[2].type = "Long"

choose_qparams(t, n, qmin, qmax, os) ==
  WrittenAll(os, LAMBDA k, i :
    LET token == {t.data[i * n + j] : j \in 1..n}
    IN calculate_scale_and_zero_point(Min(token), Max(token), qmin, qmax))

choose_qparams_tensor_out(t, qmin, qmax, os) ==
  Require(check_choose_args(t, qmin, qmax, os) /\ numel(os[1]) = 1 /\ numel(os[2]) = 1, os,
    choose_qparams(t, numel(t), qmin, qmax, os))

OrAbort(r) == IF r.status \in {"Ok", "abort"} THEN r ELSE [r EXCEPT !.status = "abort"]

choose_qparams_per_token_asymmetric_out(t, os) ==
  OrAbort(ResizeEach(os, LAMBDA k : [t.sizes EXCEPT ![dim(t)] = 1], LAMBDA new :
            Require(check_choose_args(t, -128, 127, new), new,
              choose_qparams(t, t.sizes[dim(t)], -128, 127, new))))

-----------------------------------------------------------------------------
(* The quantized kernels of backends/cadence: the reference ones, and the  *)
(* HiFi ones where they differ.  They test no shape and resize no output   *)
(* (full is the exception): a call has the shapes the exporter gave it.    *)
(* Operand 1 is the input, 4 the weight, 5 the bias, 2 the scales; the     *)
(* terms of a sum are a set of pairs.                                      *)

CadenceTypes == {"Byte", "Char"}

(* Two elements at a time, then the odd one (HiFi kernels.cpp).            *)
vector_pairs(n) ==
  LET e == (n \div 2) * 2
  IN UNION {{i, i + 1} : i \in {j \in 0..(n - 1) : j % 2 = 0 /\ j < e}} \cup (IF e < n THEN {e} ELSE {})

EachElement(t, o, visited) ==
  Outcome("Ok", o, [p \in Positions(o) |-> IF p \in visited THEN {<<1, p>>} ELSE {}])

cadence_quantize_per_tensor_out(t, out) ==
  Switch(out.type, {"Byte", "Char", "Int"}, out, EachElement(t, out, Positions(out)))

cadence_dequantize_per_tensor_out(t, out) ==
  Switch(t.type, {"Byte", "Char", "Int"}, out, EachElement(t, out, Positions(out)))

(* Char goes to a library function, the other types to the vector loop.    *)
hifi_quantize_per_tensor_out(t, out) ==
  Switch(out.type, {"Byte", "Char", "Short", "Int"}, out,
    EachElement(t, out, IF out.type = "Char" THEN Positions(out) ELSE vector_pairs(numel(out))))

hifi_dequantize_per_tensor_out(t, out) ==
  Switch(t.type, {"Byte", "Char", "Short", "Int"}, out,
    EachElement(t, out, IF t.type = "Char" THEN Positions(out) ELSE vector_pairs(numel(out))))

quantized_relu_out(t, out) == Switch(t.type, CadenceTypes, out, EachElement(t, out, Positions(t)))

cadence_view_copy_out(t, out) == EachElement(t, out, Positions(t))

cadence_full_out(sizes, value, out) ==
  ResizeOrAbort(out, sizes, LAMBDA o : Switch(o.type, REALB, o, Written(o, LAMBDA p : {})))

-----------------------------------------------------------------------------
_typed_quantized_linear(t, w, one, out) ==
  LET m == size(w, 0)
      n == size(w, 1)
  IN Require(one, out, Written(out, LAMBDA p :
       {<<<<5, p % m>>>>} \cup {<<<<1, (p \div m) * n + k>>, <<4, (p % m) * n + k>>>> : k \in 0..(n - 1)}))

cadence_quantized_linear_out(t, w, out_multiplier, out_shift, out) ==
  Switch(out.type, CadenceTypes, out,
    _typed_quantized_linear(t, w, numel(out_multiplier) = 1 /\ numel(out_shift) = 1, out))

(* Rows of `weight' against rows of `in' in the HiFi library; nothing is   *)
(* asked of the multiplier.                                                *)
hifi_quantized_linear_out(t, w, out) ==
  Switch(out.type, CadenceTypes, out, _typed_quantized_linear(t, w, TRUE, out))

qmatmul(i, j, n, p, transposed, x, y) ==
  {<<<<1, x + i * n + k>>, <<4, y + (IF transposed THEN j * n + k ELSE k * p + j)>>>> : k \in 0..(n - 1)}

_typed_quantized_matmul(lhs, rhs, transposed, out) ==
  LET rows == size(lhs, dim(lhs) - 2)
      cols == size(rhs, dim(rhs) - 1 - (IF transposed THEN 1 ELSE 0))
      n == size(lhs, dim(lhs) - 1)
  IN Written(out, LAMBDA q :
       LET b == q \div (rows * cols)
       IN qmatmul((q \div cols) % rows, q % cols, n, cols, transposed, b * rows * n, b * n * cols))

quantized_matmul_out(lhs, rhs, transposed, out) ==
  Switch(out.type, CadenceTypes, out, _typed_quantized_matmul(lhs, rhs, transposed, out))

(* Sums over the group's channels and the kernel window; the short path    *)
(* for unit dilation without padding tests no border.                      *)
conv2d_nchw_core_generic(g, st, pad, dil, s, per_tensor, out) ==
  LET ocpg == s.oc \div g
      icpg == s.c \div g
      plain == dil = <<1, 1>> /\ pad = <<0, 0>>
      row(oh, kh) == IF plain THEN oh * st[1] + kh ELSE oh * st[1] + dil[1] * kh - pad[1]
      col(ow, kw) == IF plain THEN ow * st[2] + kw ELSE ow * st[2] + dil[2] * kw - pad[2]
  IN Written(out, LAMBDA q :
       LET ow == q % s.ow
           oh == (q \div s.ow) % s.oh
           oc == (q \div (s.ow * s.oh)) % s.oc
           b == q \div (s.ow * s.oh * s.oc)
           sic == (oc \div ocpg) * icpg
           window == {<<kh, kw>> \in (0..(s.wh - 1)) \X (0..(s.ww - 1)) :
                        \/ plain
                        \/ /\ 0 <= row(oh, kh) /\ row(oh, kh) < s.h
                           /\ 0 <= col(ow, kw) /\ col(ow, kw) < s.w}
       IN {<<<<5, oc>>>>, <<<<2, IF per_tensor THEN 0 ELSE oc>>>>}
            \cup {<<<<1, ((b * s.c + ic) * s.h + row(oh, k[1])) * s.w + col(ow, k[2])>>,
                    <<4, ((oc * s.wc + ic - sic) * s.wh + k[1]) * s.ww + k[2]>>>> :
                   ic \in sic..(sic + icpg - 1), k \in window})

(* One dimension is two with a height of one; the stride, the padding and  *)
(* the dilation stay as they are.                                          *)
quantized_conv_out(t, w, st, pad, dil, g, scales, out) ==
  LET conv1d == dim(t) = 3
      high(x) == IF conv1d THEN 1 ELSE size(x, 2)
      wide(x) == IF conv1d THEN size(x, 2) ELSE size(x, 3)
      s == [c |-> size(t, 1), h |-> high(t), w |-> wide(t), oc |-> size(w, 0), wc |-> size(w, 1),
            wh |-> high(w), ww |-> wide(w), oh |-> high(out), ow |-> wide(out)]
  IN Switch(out.type, CadenceTypes, out,
       conv2d_nchw_core_generic(g, st, pad, dil, s, numel(scales) = 1, out))

(* The sums of x - zp and of its square, from the sums of x and of its     *)
(* square.                                                                 *)
shifted_moments(x, zp) ==
  LET s == Sum(x)
  IN [sum |-> s - Len(x) * zp,
      sq_sum |-> Len(x) * zp * zp + Sum([j \in DOMAIN x |-> x[j] * x[j]]) - 2 * s * zp]

quantized_layer_norm_(t, zp, out) ==
  LET n == t.sizes[dim(t)]
  IN Written(out, LAMBDA p :
       [at |-> p, affine |-> p % n, moments |-> shifted_moments(SubSeq(t.data, (p \div n) * n + 1, (p \div n + 1) * n), zp)])

cadence_layer_norm_out(t, zp, out) == Switch(t.type, CadenceTypes, out, quantized_layer_norm_(t, zp, out))

(* Nothing is written for another type where debug checks are off.         *)
hifi_layer_norm_out(t, zp, out) ==
  IF t.type \in CadenceTypes THEN quantized_layer_norm_(t, zp, out) ELSE Outcome("Ok", out, <<>>)

(* The portable loop over floats; the output is not resized.               *)
cadence_add_out(a, b, out) ==
  Require(a.type = "Float" /\ b.type = "Float" /\ out.type = "Float", out,
    Written(out, LAMBDA p :
      {<<1, broadcast_position(a, out.sizes, p)>>, <<4, broadcast_position(b, out.sizes, p)>>}))
=============================================================================
