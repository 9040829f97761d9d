------------------------- MODULE ElementwiseKernels -------------------------
(***************************************************************************)
(* The portable kernels that compute every output element from the         *)
(* elements of the inputs at the same place, after broadcasting            *)
(* (kernels/portable/cpu/op_*.cpp with pattern/ and util/elementwise_util).*)
(* One definition per kernel, named after it.  The arithmetic on values is *)
(* left out; the argument checks, their order relative to the resize of    *)
(* the output, the type dispatch and the element loop are kept.  A         *)
(* parameter `zero' says that an integer divisor holds a zero.             *)
(***************************************************************************)
EXTENDS Tensors

(* apply_unary_map_fn and memcpy of the whole input.                       *)
Map(a, out) == Written(out, LAMBDA i : << <<1, i>> >>)

(* The element loops of elementwise_util.h: a type not on the list is      *)
(* refused, a type the loader or the storer does not handle aborts.        *)
apply_unitensor_elementwise_fn(compute, a, as, out, os) ==
  Check(check_tensor_dtype(a, as, compute) /\ check_tensor_dtype(out, os, compute), out,
    Switch(a.type, LoadTypes(as, compute), out,
      Switch(out.type, StoreTypes(os, compute), out, Map(a, out))))

apply_bitensor_elementwise_fn(compute, a, as, b, bs, out, os) ==
  LET read(i) == << <<1, broadcast_position(a, out.sizes, i)>>,
                    <<2, broadcast_position(b, out.sizes, i)>> >>
  IN Check(/\ check_tensor_dtype(a, as, compute)
           /\ check_tensor_dtype(b, bs, compute)
           /\ check_tensor_dtype(out, os, compute), out,
       Switch(a.type, LoadTypes(as, compute), out,
         Switch(b.type, LoadTypes(bs, compute), out,
           Switch(out.type, StoreTypes(os, compute), out, Written(out, read)))))

apply_tritensor_elementwise_fn(compute, a, as, b, bs, c, cs, out, os) ==
  LET read(i) == << <<1, broadcast_position(a, out.sizes, i)>>,
                    <<2, broadcast_position(b, out.sizes, i)>>,
                    <<3, broadcast_position(c, out.sizes, i)>> >>
  IN Check(/\ check_tensor_dtype(a, as, compute)
           /\ check_tensor_dtype(b, bs, compute)
           /\ check_tensor_dtype(c, cs, compute)
           /\ check_tensor_dtype(out, os, compute), out,
       Switch(a.type, LoadTypes(as, compute), out,
         Switch(b.type, LoadTypes(bs, compute), out,
           Switch(c.type, LoadTypes(cs, compute), out,
             Switch(out.type, StoreTypes(os, compute), out, Written(out, read))))))

apply_binary_elementwise_fn(a, b, out) ==
  Written(out, LAMBDA i : << <<1, broadcast_position(a, out.sizes, i)>>,
                             <<2, broadcast_position(b, out.sizes, i)>> >>)

(* The body most kernels share once they know their common type: check,    *)
(* compare dimension orders, resize, switch on the compute type, loop.     *)
Unitensor(a, out, ok, compute, types, as, os) ==
  Check(ok, out, Check(tensors_have_same_dim_order(<<a, out>>), out,
    Resize(out, a.sizes, LAMBDA o :
      Switch(compute, types, o, apply_unitensor_elementwise_fn(compute, a, as, o, os)))))

Bitensor(a, b, out, ok, compute, types, s, os) ==
  Check(ok, out, Check(tensors_have_same_dim_order(<<a, b, out>>), out,
    resize_to_broadcast_target_size(a, b, out, LAMBDA o :
      Switch(compute, types, o, apply_bitensor_elementwise_fn(compute, a, s, b, s, o, os)))))

(* The loop has written every element when the kernel reports the zero.    *)
UnlessDividedByZero(r, compute, zero) ==
  IF /\ r.status = "Ok" /\ zero
     /\ compute \in IntTypes
     /\ numel(r.out) > 0
  THEN [r EXCEPT !.status = "InvalidArgument"]
  ELSE r

-----------------------------------------------------------------------------
(* Unary kernels.                                                          *)
unary_ufunc_realh(a, out) ==
  Resize(out, a.sizes, LAMBDA o :
    Check(tensors_have_same_shape_and_dtype(a, o), o,
      Check(tensors_have_same_dim_order(<<a, o>>), o, Switch(a.type, REALH, o, Map(a, o)))))

unary_ufunc_realhb_to_bool(a, out) ==
  Resize(out, a.sizes, LAMBDA o :
    Check(o.type = "Bool", o,
      Check(tensors_have_same_dim_order(<<a, o>>), o, Switch(a.type, REALHBBF16, o, Map(a, o)))))

unary_ufunc_realhbbf16_to_floathbf16(a, out) ==
  Check(isFloatingType(out.type), out,
    Resize(out, a.sizes, LAMBDA o :
      Check(tensors_have_same_dim_order(<<a, o>>), o,
        Switch(a.type, REALHBBF16, o, Switch(o.type, FLOATHBF16, o, Map(a, o))))))

acos_out(a, out) == unary_ufunc_realhbbf16_to_floathbf16(a, out)
acosh_out(a, out) == unary_ufunc_realhbbf16_to_floathbf16(a, out)
asin_out(a, out) == unary_ufunc_realhbbf16_to_floathbf16(a, out)
asinh_out(a, out) == unary_ufunc_realhbbf16_to_floathbf16(a, out)
atan_out(a, out) == unary_ufunc_realhbbf16_to_floathbf16(a, out)
atanh_out(a, out) == unary_ufunc_realhbbf16_to_floathbf16(a, out)
cos_out(a, out) == unary_ufunc_realhbbf16_to_floathbf16(a, out)
cosh_out(a, out) == unary_ufunc_realhbbf16_to_floathbf16(a, out)
erf_out(a, out) == unary_ufunc_realhbbf16_to_floathbf16(a, out)
exp_out(a, out) == unary_ufunc_realhbbf16_to_floathbf16(a, out)
expm1_out(a, out) == unary_ufunc_realhbbf16_to_floathbf16(a, out)
log_out(a, out) == unary_ufunc_realhbbf16_to_floathbf16(a, out)
log10_out(a, out) == unary_ufunc_realhbbf16_to_floathbf16(a, out)
log1p_out(a, out) == unary_ufunc_realhbbf16_to_floathbf16(a, out)
log2_out(a, out) == unary_ufunc_realhbbf16_to_floathbf16(a, out)
reciprocal_out(a, out) == unary_ufunc_realhbbf16_to_floathbf16(a, out)
rsqrt_out(a, out) == unary_ufunc_realhbbf16_to_floathbf16(a, out)
sin_out(a, out) == unary_ufunc_realhbbf16_to_floathbf16(a, out)
sinh_out(a, out) == unary_ufunc_realhbbf16_to_floathbf16(a, out)
sqrt_out(a, out) == unary_ufunc_realhbbf16_to_floathbf16(a, out)
tan_out(a, out) == unary_ufunc_realhbbf16_to_floathbf16(a, out)
tanh_out(a, out) == unary_ufunc_realhbbf16_to_floathbf16(a, out)

ceil_out(a, out) == unary_ufunc_realh(a, out)
floor_out(a, out) == unary_ufunc_realh(a, out)
trunc_out(a, out) == unary_ufunc_realh(a, out)
isinf_out(a, out) == unary_ufunc_realhb_to_bool(a, out)
isnan_out(a, out) == unary_ufunc_realhb_to_bool(a, out)

abs_out(a, out) ==
  Resize(out, a.sizes, LAMBDA o :
    Check(a.type = o.type /\ tensors_have_same_dim_order(<<a, o>>), o,
      Switch(a.type, REAL, o, Map(a, o))))

neg_out(a, out) ==
  Resize(out, a.sizes, LAMBDA o :
    Check(tensors_have_same_shape_and_dtype(a, o) /\ tensors_have_same_dim_order(<<a, o>>), o,
      Switch(a.type, REAL, o, Map(a, o))))

relu_out(a, out) ==
  Resize(out, a.sizes, LAMBDA o :
    Check(/\ tensors_have_same_shape_and_dtype(a, o)
          /\ isRealType(o.type)
          /\ tensors_have_same_dim_order(<<a, o>>), o,
      Switch(a.type, REAL, o, Map(a, o))))

round_out(a, out) ==
  Resize(out, a.sizes, LAMBDA o :
    Check(/\ tensors_have_same_shape_and_dtype(a, o)
          /\ isRealType(o.type)
          /\ tensors_have_same_dim_order(<<a, o>>), o,
      Switch(a.type, REAL, o, Map(a, o))))

sign_out(a, out) ==
  Resize(out, a.sizes, LAMBDA o :
    Check(/\ tensors_have_same_dim_order(<<a, o>>)
          /\ tensors_have_same_shape_and_dtype(a, o), o,
      IF a.type = "Bool" THEN Map(a, o) ELSE Switch(a.type, REAL, o, Map(a, o))))

bitwise_not_out(a, out) ==
  Resize(out, a.sizes, LAMBDA o :
    Check(a.type = o.type /\ tensors_have_same_dim_order(<<a, o>>), o,
      Check(isIntegralType(a.type, TRUE), o, Map(a, o))))

logical_not_out(a, out) ==
  Resize(out, a.sizes, LAMBDA o :
    Check(tensors_have_same_dim_order(<<a, o>>) /\ tensors_have_same_shape(a, o), o,
      Switch(a.type, REALB, o, Switch(o.type, REALB, o, Map(a, o)))))

logit_out(a, out) ==
  Resize(out, a.sizes, LAMBDA o :
    Check(tensors_have_same_dim_order(<<a, o>>) /\ isFloatingType(o.type), o,
      Switch(a.type, REALB, o, Switch(o.type, FloatTypes, o, Map(a, o)))))

sigmoid_out(a, out) ==
  Check(/\ a.type # "Bool"
        /\ isFloatingType(out.type)
        /\ tensors_have_same_dim_order(<<a, out>>), out,
    Resize(out, a.sizes, LAMBDA o :
      Switch(a.type, REALHB, o, Switch(o.type, FLOATH, o, Map(a, o)))))

check_gelu_args(a, approximate, out) ==
  /\ a.type = out.type
  /\ a.type # "Bool"
  /\ approximate \in {"tanh", "none"}

gelu_out(a, approximate, out) ==
  Check(check_gelu_args(a, approximate, out), out,
    Resize(out, a.sizes, LAMBDA o :
      Check(tensors_have_same_dim_order(<<a, o>>), o,
        Switch(a.type, FloatTypes, o, Map(a, o)))))

hardtanh_out(a, min, max, out) ==
  Resize(out, a.sizes, LAMBDA o :
    Check(tensors_have_same_dim_order(<<a, o>>) /\ a.type = o.type, o,
      Switch(a.type, REAL, o, Map(a, o))))

leaky_relu_out(a, slope, out) ==
  Resize(out, a.sizes, LAMBDA o :
    Check(tensors_have_same_dim_order(<<a, o>>) /\ a.type = o.type, o,
      Switch(a.type, FloatTypes, o, Map(a, o))))

-----------------------------------------------------------------------------
(* Copies.                                                                 *)
alias_copy_out(a, out) ==
  Resize(out, a.sizes, LAMBDA o :
    Check(a.type = o.type /\ tensors_have_same_dim_order(<<a, o>>), o, Map(a, o)))

clone_out(a, memory_format, out) ==
  Resize(out, a.sizes, LAMBDA o :
    Check(/\ tensors_have_same_shape_and_dtype(a, o)
          /\ tensors_have_same_dim_order(<<a, o>>)
          /\ memory_format \in {"None", "Contiguous"}, o, Map(a, o)))

detach_copy_out(a, out) ==
  Resize(out, a.sizes, LAMBDA o :
    Check(/\ tensors_have_same_dim_order(<<a, o>>)
          /\ tensors_have_same_shape_and_dtype(a, o), o, Map(a, o)))

lift_fresh_copy_out(a, out) ==
  Check(a.type = out.type, out,
    Resize(out, a.sizes, LAMBDA o :
      Check(tensors_have_same_dim_order(<<a, o>>), o, Map(a, o))))

check_to_copy_args(non_blocking, memory_format) ==
  ~non_blocking /\ memory_format \in {"None", "Contiguous"}

to_copy_out(a, non_blocking, memory_format, out) ==
  Check(check_to_copy_args(non_blocking, memory_format), out,
    Resize(out, a.sizes, LAMBDA o :
      Check(tensors_have_same_dim_order(<<a, o>>) /\ tensor_is_default_dim_order(a), o,
        Switch(a.type, REALHBBF16, o, Switch(o.type, REALHBBF16, o, Map(a, o))))))

(* The loop loads the element of in as well as that of src.                *)
copy_out(a, src, non_blocking, out) ==
  Check(/\ ~non_blocking
        /\ a.type = out.type
        /\ tensor_is_broadcastable_to(src.sizes, a.sizes), out,
    Resize(out, a.sizes, LAMBDA o :
      Check(tensors_have_same_dim_order(<<a, o>>), o,
        Switch(a.type, REALHBBF16, o,
          apply_bitensor_elementwise_fn(a.type, a, "REALHBBF16", src, "REALHBBF16", o, "REALHBBF16")))))

copy_(a, src, non_blocking) ==
  Check(/\ ~non_blocking
        /\ tensor_is_broadcastable_to(src.sizes, a.sizes)
        /\ tensors_have_same_dim_order(<<a, src>>), a,
    Switch(a.type, REALHBBF16, a,
      apply_bitensor_elementwise_fn(a.type, a, "REALHBBF16", src, "REALHBBF16", a, "REALHBBF16")))

fill_scalar_out(a, b, out) ==
  Check(a.type = out.type /\ tensors_have_same_dim_order(<<a, out>>), out,
    Resize(out, a.sizes, LAMBDA o : Switch(a.type, REALB, o, Map(a, o))))

fill_tensor_out(a, b, out) ==
  Check(/\ b.sizes = <<>>
        /\ tensors_have_same_dim_order(<<a, out>>)
        /\ a.type = out.type, out,
    Resize(out, a.sizes, LAMBDA o :
      Switch(a.type, REALB, o, Switch(b.type, REALB, o,
        Written(o, LAMBDA i : << <<1, i>>, <<2, 0>> >>)))))

-----------------------------------------------------------------------------
(* Kernels on two tensors, or a tensor and a scalar.                       *)
Common(a, b) == promoteTypes(a.type, b.type)

check_alpha_type(alpha, common) ==
  canCast(alpha, common) \/ (common = "Bool" /\ isIntegralType(alpha, TRUE))

(* The check that the result fits the output type is dropped.              *)
add_out_unchecked(a, b, alpha, out) ==
  LET c == Common(a, b)
  IN Bitensor(a, b, out, check_alpha_type(alpha, c),
              get_compute_type(c), REALB, "REALHBBF16", "REALHBBF16")

add_out(a, b, alpha, out) ==
  LET c == Common(a, b)
  IN Bitensor(a, b, out, canCast(c, out.type) /\ check_alpha_type(alpha, c),
              get_compute_type(c), REALB, "REALHBBF16", "REALHBBF16")

add_scalar_out(a, b, alpha, out) ==
  LET c == promote_type_with_scalar(a.type, b)
  IN Unitensor(a, out, c = out.type /\ check_alpha_type(alpha, c),
               get_compute_type(c), REALB, "REALHBBF16", "SAME_AS_COMMON")

sub_out(a, b, alpha, out) ==
  LET c == Common(a, b)
  IN Bitensor(a, b, out, alpha # "Bool" /\ canCast(c, out.type) /\ canCast(alpha, c),
              get_compute_type(c), REAL, "REALHBF16", "REALHBF16")

sub_scalar_out(a, b, alpha, out) ==
  LET c == promote_type_with_scalar(a.type, b)
  IN Unitensor(a, out, alpha # "Bool" /\ c = out.type /\ canCast(alpha, c),
               get_compute_type(c), REAL, "REALHBF16", "SAME_AS_COMMON")

rsub_scalar_out(a, b, alpha, out) ==
  LET c == promote_type_with_scalar(a.type, b)
  IN Unitensor(a, out, alpha # "Bool" /\ c = out.type /\ canCast(alpha, c),
               get_compute_type(c), REAL, "REALHBF16", "SAME_AS_COMMON")

mul_out(a, b, out) ==
  LET c == Common(a, b)
      compute == get_compute_type(c)
  IN Check(canCast(c, out.type) /\ tensors_have_same_dim_order(<<a, b, out>>), out,
       resize_to_broadcast_target_size(a, b, out, LAMBDA o :
         Check(isRealType(compute) \/ compute = "Bool", o,
           Switch(compute, REALB, o,
             apply_bitensor_elementwise_fn(compute, a, "REALHBBF16", b, "REALHBBF16", o, "REALHBBF16")))))

mul_scalar_out(a, b, out) ==
  LET c == promote_type_with_scalar(a.type, b)
  IN Unitensor(a, out, c = out.type, get_compute_type(c), REALB, "REALHBBF16", "SAME_AS_COMMON")

maximum_out(a, b, out) ==
  LET c == Common(a, b)
  IN Bitensor(a, b, out, canCast(c, out.type), get_compute_type(c), REALB, "REALHBBF16", "REALHBBF16")

minimum_out(a, b, out) ==
  LET c == Common(a, b)
  IN Bitensor(a, b, out, canCast(c, out.type), get_compute_type(c), REALB, "REALHBBF16", "REALHBBF16")

(* Division and atan2 are computed on floating point numbers.              *)
get_common_type(a, b) ==
  CASE isFloatingType(a) /\ isFloatingType(b) -> promoteTypes(a, b)
    [] isFloatingType(a) /\ ~isFloatingType(b) -> a
    [] ~isFloatingType(a) /\ isFloatingType(b) -> b
    [] OTHER -> "Float"

atan2_out(a, b, out) ==
  Bitensor(a, b, out, TRUE, get_compute_type(get_common_type(a.type, b.type)), FloatTypes,
           "REALHBBF16", "FLOATHBF16")

div_out(a, b, out) ==
  Bitensor(a, b, out, TRUE, get_compute_type(get_common_type(a.type, b.type)), FloatTypes,
           "REALHBBF16", "FLOATHBF16")

div_out_mode(a, b, mode, zero, out) ==
  LET c == Common(a, b)
  IN IF mode = "None" THEN div_out(a, b, out)
     ELSE UnlessDividedByZero(
            Bitensor(a, b, out,
                     mode \in {"trunc", "floor"} /\ canCast(c, out.type) /\ c # "Bool",
                     get_compute_type(c), REAL, "REALHBBF16", "REALHBF16"),
            get_compute_type(c), zero)

div_scalar_out(a, b, out) ==
  LET c == IF isFloatingType(a.type) THEN a.type ELSE "Float"
  IN Unitensor(a, out, c = out.type, get_compute_type(c), FloatTypes, "REALHBBF16", "SAME_AS_COMMON")

div_scalar_mode_out(a, b, mode, zero, out) ==
  LET c == promote_type_with_scalar(a.type, b)
  IN IF mode = "None" THEN div_scalar_out(a, b, out)
     ELSE Unitensor(a, out,
            /\ mode \in {"trunc", "floor"}
            /\ canCast(c, out.type) /\ c # "Bool"
            /\ ~(isIntegralType(c, TRUE) /\ zero),
            get_compute_type(c), REAL, "REALHBBF16", "REALHBF16")

floor_divide_out(a, b, zero, out) ==
  LET c == Common(a, b)
  IN UnlessDividedByZero(
       Bitensor(a, b, out, canCast(c, out.type) /\ c # "Bool",
                get_compute_type(c), REAL, "REALHBBF16", "REALHBF16"),
       get_compute_type(c), zero)

(* fmod and pow compute in double unless the common type is a float.       *)
FloatOrDouble(c) == IF get_compute_type(c) = "Float" THEN "Float" ELSE "Double"

fmod_Tensor_out(a, b, zero, out) ==
  LET c == Common(a, b)
  IN UnlessDividedByZero(
       Bitensor(a, b, out, canCast(c, out.type) /\ c # "Bool",
                FloatOrDouble(c), FloatTypes, "REALHBBF16", "REALHBF16"),
       FloatOrDouble(c), zero)

fmod_Scalar_out(a, b, zero, out) ==
  LET c == promote_type_with_scalar(a.type, b)
  IN Unitensor(a, out,
       canCast(c, out.type) /\ c # "Bool" /\ ~(isIntegralType(c, TRUE) /\ zero),
       FloatOrDouble(c), FloatTypes, "REALHBBF16", "REALHBF16")

remainder_Tensor_out(a, b, zero, out) ==
  LET c == Common(a, b)
  IN UnlessDividedByZero(
       Bitensor(a, b, out, canCast(c, out.type) /\ c # "Bool",
                get_compute_type(c), REAL, "REALHBBF16", "REALHBF16"),
       get_compute_type(c), zero)

remainder_Scalar_out(a, b, zero, out) ==
  LET c == promote_type_with_scalar(a.type, b)
  IN Unitensor(a, out,
       canCast(c, out.type) /\ c # "Bool" /\ ~(isIntegralType(c, TRUE) /\ zero),
       get_compute_type(c), REAL, "REALHBBF16", "REALHBF16")

pow_Tensor_Tensor_out(a, b, out) ==
  LET c == Common(a, b)
  IN Bitensor(a, b, out, canCast(c, out.type) /\ c # "Bool",
              FloatOrDouble(c), FloatTypes, "REALHBBF16", "REALHBF16")

pow_Tensor_Scalar_out(a, b, out) ==
  LET c == promote_type_with_scalar(a.type, b)
  IN Unitensor(a, out, canCast(c, out.type) /\ c # "Bool",
               FloatOrDouble(c), FloatTypes, "REALHBBF16", "REALHBF16")

pow_Scalar_out(a, b, out) ==
  LET c == promote_type_with_scalar(b.type, a)
  IN Unitensor(b, out, canCast(c, out.type) /\ c # "Bool",
               FloatOrDouble(c), FloatTypes, "REALHBBF16", "REALHBF16")

bitwise_tensor_out(a, b, out) ==
  LET c == Common(a, b)
  IN Bitensor(a, b, out, canCast(c, out.type), get_compute_type(c), INTB, "INTB", "REALHBBF16")

bitwise_scalar_out(a, b, out) ==
  LET c == promote_type_with_scalar(a.type, b)
  IN Unitensor(a, out, canCast(c, out.type), get_compute_type(c), INTB, "INTB", "REALHBBF16")

bitwise_and_Tensor_out(a, b, out) == bitwise_tensor_out(a, b, out)
bitwise_or_Tensor_out(a, b, out) == bitwise_tensor_out(a, b, out)
bitwise_xor_Tensor_out(a, b, out) == bitwise_tensor_out(a, b, out)
bitwise_and_Scalar_out(a, b, out) == bitwise_scalar_out(a, b, out)
bitwise_or_Scalar_out(a, b, out) == bitwise_scalar_out(a, b, out)
bitwise_xor_Scalar_out(a, b, out) == bitwise_scalar_out(a, b, out)

(* Operands of two different types, one of them floating, are compared as  *)
(* floats, even when the common type is Double.                            *)
comparison_tensor_out(a, b, out) ==
  LET c == Common(a, b)
      common == IF isFloatingType(c) /\ a.type # b.type THEN "Float" ELSE c
  IN Bitensor(a, b, out, TRUE, get_compute_type(common), REALB, "REALHBBF16", "REALHBBF16")

comparison_scalar_out(a, b, out) ==
  Unitensor(a, out, TRUE, get_compute_type(promote_type_with_scalar(a.type, b)), REALB,
            "REALHBBF16", "REALHBBF16")

eq_tensor_out(a, b, out) == comparison_tensor_out(a, b, out)
ne_tensor_out(a, b, out) == comparison_tensor_out(a, b, out)
ge_tensor_out(a, b, out) == comparison_tensor_out(a, b, out)
gt_tensor_out(a, b, out) == comparison_tensor_out(a, b, out)
le_tensor_out(a, b, out) == comparison_tensor_out(a, b, out)
lt_tensor_out(a, b, out) == comparison_tensor_out(a, b, out)
eq_scalar_out(a, b, out) == comparison_scalar_out(a, b, out)
ne_scalar_out(a, b, out) == comparison_scalar_out(a, b, out)
ge_scalar_out(a, b, out) == comparison_scalar_out(a, b, out)
gt_scalar_out(a, b, out) == comparison_scalar_out(a, b, out)
le_scalar_out(a, b, out) == comparison_scalar_out(a, b, out)
lt_scalar_out(a, b, out) == comparison_scalar_out(a, b, out)

(* No switch: the operands are loaded as bool whatever their type.         *)
logical_tensor_out(a, b, out) ==
  Bitensor(a, b, out, TRUE, "Bool", {"Bool"}, "REALHBBF16", "REALHBBF16")

logical_and_out(a, b, out) == logical_tensor_out(a, b, out)
logical_or_out(a, b, out) == logical_tensor_out(a, b, out)
logical_xor_out(a, b, out) == logical_tensor_out(a, b, out)

-----------------------------------------------------------------------------
(* Kernels on more operands.  A missing bound of clamp is "None".          *)
Promoted(type, scalar) == IF scalar = "None" THEN type ELSE promote_type_with_scalar(type, scalar)

(* check_bounds switches on the output type before it tests the value; the *)
(* test itself is left out (the models use values every type holds).       *)
check_bounds_handles(out) == ~isFloatingType(out.type) \/ out.type \in FLOATH

clamp_out(a, min, max, out) ==
  LET c == Promoted(Promoted(a.type, min), max)
  IN Check((min # "None" \/ max # "None") /\ c = out.type, out,
       IF ~check_bounds_handles(out) THEN Aborted(out)
       ELSE Unitensor(a, out, TRUE, get_compute_type(c), REALB, "REALHBBF16", "SAME_AS_COMMON"))

(* An optional tensor is a sequence of at most one; a missing one is       *)
(* replaced by the input itself.                                           *)
clamp_tensor_out(a, min, max, out) ==
  LET lo == IF min = <<>> THEN a ELSE min[1]
      hi == IF max = <<>> THEN a ELSE max[1]
      c == promoteTypes(promoteTypes(a.type, lo.type), hi.type)
      compute == get_compute_type(c)
  IN Check(/\ min # <<>> \/ max # <<>>
           /\ canCast(c, out.type)
           /\ tensors_have_same_dim_order(<<a, lo, hi, out>>), out,
       resize_to_broadcast_target_size_3(a, lo, hi, out, LAMBDA o :
         Switch(compute, REALB, o,
           apply_tritensor_elementwise_fn(compute, a, "REALHBBF16", lo, "REALHBBF16",
                                          hi, "REALHBBF16", o, "REALHBBF16"))))

(* Operands are numbered a, b, cond, the order of the loop.                *)
where_out(cond, a, b, out) ==
  LET c == Common(a, b)
      compute == get_compute_type(c)
  IN Check(c = out.type /\ tensors_have_same_dim_order(<<cond, a, b, out>>), out,
       resize_to_broadcast_target_size_3(a, b, cond, out, LAMBDA o :
         Switch(compute, REALB, o,
           apply_tritensor_elementwise_fn(compute, a, "REALHBBF16", b, "REALHBBF16",
                                          cond, "BOOL_OR_BYTE", o, "SAME_AS_COMMON"))))

check_masked_fill_args(a, mask, out) == a.type = out.type /\ mask.type = "Bool"

masked_fill_scalar_out(a, mask, value, out) ==
  Check(check_masked_fill_args(a, mask, out), out,
    resize_to_broadcast_target_size(a, mask, out, LAMBDA o :
      Check(tensors_have_same_dim_order(<<a, mask, o>>), o,
        Switch(a.type, REALB, o, Switch(value, REALB, o, apply_binary_elementwise_fn(a, mask, o))))))

(* `set' is the set of positions of mask that hold true.  The n-th such    *)
(* element, in the order of the loop, takes the n-th element of src; when  *)
(* src runs out the kernel keeps the input and fails after the loop.       *)
masked_scatter_out(a, mask, set, src, out) ==
  LET at(o, i) == broadcast_position(mask, o.sizes, i) \in set
      idx(o, i) == Cardinality({j \in 0..(i - 1) : at(o, j)})
      read(o, i) == << <<1, broadcast_position(a, o.sizes, i)>>,
                       <<2, broadcast_position(mask, o.sizes, i)>> >>
                    \o IF at(o, i) /\ idx(o, i) < numel(src) THEN << <<3, idx(o, i)>> >> ELSE <<>>
      short(o) == Cardinality({i \in Positions(o) : at(o, i)}) > numel(src)
  IN Check(/\ isRealHBBF16Type(a.type)
           /\ mask.type = "Bool"
           /\ src.type = a.type
           /\ out.type = a.type
           /\ tensors_have_same_dim_order(<<a, mask, out>>), out,
       resize_to_broadcast_target_size(a, mask, out, LAMBDA o :
         Switch(a.type, REALHBBF16, o,
           [Written(o, LAMBDA i : read(o, i)) EXCEPT
              !.status = IF short(o) THEN "InvalidArgument" ELSE @])))

-----------------------------------------------------------------------------
(* Kernels that create a tensor: no element is read.                       *)
Fill(out) == Written(out, LAMBDA i : <<>>)

full_out(sizes, value, out) ==
  Resize(out, sizes, LAMBDA o : Switch(o.type, REALHB, o, Fill(o)))

full_like_out(a, value, memory_format, out) ==
  Check(/\ memory_format \in {"None", "Contiguous", "Preserve"}
        /\ tensors_have_same_dim_order(<<a, out>>)
        /\ tensor_is_default_dim_order(a), out,
    Resize(out, a.sizes, LAMBDA o :
      Switch(value, REALB, o, Switch(o.type, REALHB, o, Fill(o)))))

ones_out(sizes, out) == Resize(out, sizes, LAMBDA o : Switch(o.type, REALB, o, Fill(o)))
zeros_out(sizes, out) == Resize(out, sizes, LAMBDA o : Check(o.sizes = sizes, o, Fill(o)))
empty_out(sizes, memory_format, out) ==
  Resize(out, sizes, LAMBDA o : Outcome("Ok", o, <<>>))

scalar_tensor_out(s, out) == Resize(out, <<>>, LAMBDA o : Switch(o.type, REALHBBF16, o, Fill(o)))

CeilDiv(n, d) == -((-n) \div d)

check_arange_args(start, end, step, out) ==
  /\ dim(out) = 1
  /\ (step > 0 /\ end >= start) \/ (step < 0 /\ end <= start)

(* The number of steps is computed on doubles; the models use integers.    *)
arange_start_out(start, end, step, out) ==
  LET n == IF step > 0 THEN CeilDiv(end - start, step) ELSE CeilDiv(start - end, -step)
  IN Check(check_arange_args(start, end, step, out) /\ tensor_is_default_dim_order(out), out,
       Resize(out, <<n>>, LAMBDA o : Switch(o.type, REAL, o, Fill(o))))

arange_out(end, out) ==
  Check(check_arange_args(0, end, 1, out) /\ tensor_is_default_dim_order(out), out,
    Resize(out, <<end>>, LAMBDA o : Switch(o.type, REAL, o, Fill(o))))

(* Every argument check of allclose aborts.                                *)
allclose_out(a, b, out) ==
  IF /\ tensors_have_same_shape_and_dtype(a, b)
     /\ out.type = "Bool"
     /\ tensors_have_same_dim_order(<<a, b, out>>)
     /\ numel(out) = 1
  THEN Outcome("Ok", out, [i \in {0} |->
         [n \in 1..(2 * numel(a)) |-> <<1 + ((n + 1) % 2), (n - 1) \div 2>>]])
  ELSE Aborted(out)
=============================================================================
