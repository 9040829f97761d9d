----------------------------- MODULE LibraryCalls -----------------------------
(***************************************************************************)
(* Calls of the portable kernels that pick elements by index or are layers *)
(* of a network, and of the other kernel libraries: optimized, quantized,  *)
(* Cadence, and the custom operators for language models.                  *)
(***************************************************************************)
EXTENDS KernelCalls, ShapeKernels, LibraryKernels

(* Calls of the kernels that pick elements by index.                       *)

CONSTANTS
  IndexIns,    \* tensors that are indexed
  Indexes,     \* index tensors
  Sources,     \* tensors of values to put
  IndexLists,  \* lists of optional index tensors
  IndexDims    \* dimensions

(* An index without dimensions beside a source with one leaves the         *)
(* coordinate in the source unset in the code.                             *)
CoordinateSet(index, src) == dim(index) > 0 \/ dim(src) = 0

IndexNext ==
  /\ Idle("index")
  /\ \/ \E t \in IndexIns, ix \in Indexes, d \in IndexDims :
          Call("gather_out", <<t, ix>>, <<d>>, LAMBDA x : gather_out(t, d, ix, x))
     \/ \E t \in IndexIns, ix \in Indexes, d \in IndexDims :
          Call("index_select_out", <<t, ix>>, <<d>>, LAMBDA x : index_select_out(t, d, ix, x))
     \/ \E t \in IndexIns, ix \in Indexes, s \in Sources, d \in IndexDims : CoordinateSet(ix, s) /\
          Call("scatter_src_out", <<t, ix, s>>, <<d>>, LAMBDA x : scatter_src_out(t, d, ix, s, x))
     \/ \E t \in IndexIns, ix \in Indexes, d \in IndexDims : CoordinateSet(ix, t) /\
          Call("scatter_value_out", <<t, ix>>, <<d>>, LAMBDA x : scatter_value_out(t, d, ix, x))
     \/ \E t \in IndexIns, ix \in Indexes, s \in Sources, d \in IndexDims : CoordinateSet(ix, s) /\
          Call("scatter_add_out", <<t, ix, s>>, <<d>>, LAMBDA x : scatter_add_out(t, d, ix, s, x))
     \/ \E ix \in Indexes : Call("nonzero_out", <<ix>>, <<>>, LAMBDA x : nonzero_out(ix, x))
     \/ \E t \in IndexIns, l \in IndexLists :
          Call("index_Tensor_out", <<t>>, l, LAMBDA x : index_Tensor_out(t, l, x))
     \/ \E t \in IndexIns, l \in IndexLists, v \in Sources, add \in BOOLEAN :
          Call("index_put_out", <<t, v>>, <<l, add>>, LAMBDA x : index_put_out(t, l, v, add, x))

-----------------------------------------------------------------------------
(* A mask stands for one index per dimension: the coordinates of its true  *)
(* elements.  With masks written out and the missing indices appended,     *)
(* index d belongs to dimension d of the input.                            *)
WrittenOut(index) ==
  IF ~is_mask_index(index) THEN <<index>>
  ELSE LET trues == SetToSortSeq({p \in Positions(index) : Value(index, p) # 0}, <)
       IN [d \in 1..dim(index) |->
             [type |-> "Long", sizes |-> <<Len(trues)>>, order |-> <<0>>,
              data |-> [i \in DOMAIN trues |-> CoordOf(index, trues[i])[d]]]]
PerDim(indices, n) ==
  LET list == FoldLeft(LAMBDA acc, o : acc \o (IF o = <<>> THEN <<o>> ELSE
                [i \in DOMAIN WrittenOut(o[1]) |-> <<WrittenOut(o[1])[i]>>]), <<>>, indices)
  IN [d \in 1..n |-> IF d <= Len(list) THEN list[d] ELSE <<>>]

(* The shape that all indices are broadcast to, and the value of an index  *)
(* at coordinate b of it.                                                  *)
SharedShape(ixs) ==
  FoldLeft(LAMBDA acc, o : IF o = <<>> THEN acc ELSE get_broadcast_target_size(acc, o[1].sizes), <<>>, ixs)
ValueAt(index, b) ==
  Value(index, At(index, [d \in 1..dim(index) |->
    IF index.sizes[d] = 1 THEN 0 ELSE b[Len(b) - dim(index) + d]]))

(* The input coordinate for coordinate c of the indexed shape: the         *)
(* broadcast dimensions stand where the indices stand when those are       *)
(* adjacent, and in front otherwise.                                       *)
Spread(t, ixs, given, b, others) ==
  [d \in 1..dim(t) |-> IF d \in given THEN Norm(ValueAt(ixs[d][1], b), t.sizes[d])
                       ELSE others[Cardinality((1..d) \ given)]]
SplitAt(t, ixs, given, start, n, c) ==
  Spread(t, ixs, given, SubSeq(c, start + 1, start + n), SubSeq(c, 1, start) \o SubSeq(c, start + n + 1, Len(c)))
IndexedBy(t, ixs, given, c) ==
  SplitAt(t, ixs, given, IF given = Min(given)..Max(given) THEN Min(given) - 1 ELSE 0, Len(SharedShape(ixs)), c)
Indexed(t, indices, c) ==
  CHOOSE p \in {IndexedBy(t, ixs, {d \in 1..dim(t) : ixs[d] # <<>>}, c) : ixs \in {PerDim(indices, dim(t))}} : TRUE

(* The positions of the index whose element goes to position q of the out. *)
Going(index, d, q) ==
  {p \in Positions(index) : \A e \in 1..dim(out) :
     CoordOf(out, q)[e] = IF e = d + 1 THEN Value(index, p) ELSE CoordOf(index, p)[e]}
InSource(src, index, p) == IF dim(src) = 0 THEN 0 ELSE At(src, CoordOf(index, p))

(* What the operation names as the operands of position q of the output.   *)
Named(q) ==
  LET t == call.ins[1]
      index == call.ins[2]
      d == Norm(call.args[1], nonzero_dim(t))
      c == CoordOf(out, q)
      going == SetToSortSeq(Going(index, d, q), <)
  IN CASE call.op = "gather_out" ->
            IF dim(t) = 0 THEN <<<<1, 0>>>>
            ELSE IF dim(index) = 0 THEN <<<<1, Value(index, 0)>>>>
            ELSE <<<<1, At(t, [c EXCEPT ![d + 1] = Value(index, At(index, c))])>>>>
       [] call.op = "index_select_out" ->
            IF dim(t) = 0 THEN <<<<1, 0>>>> ELSE <<<<1, At(t, [c EXCEPT ![d + 1] = Value(index, @)])>>>>
       [] call.op = "scatter_src_out" ->
            IF going = <<>> THEN <<<<1, q>>>> ELSE <<<<3, InSource(call.ins[3], index, Last(going))>>>>
       [] call.op = "scatter_value_out" -> IF going = <<>> THEN <<<<1, q>>>> ELSE <<>>
       [] call.op = "scatter_add_out" ->
            <<<<1, q>>>> \o [i \in DOMAIN going |-> <<3, InSource(call.ins[3], index, going[i])>>]
       [] call.op = "nonzero_out" ->
            <<<<1, SetToSortSeq({p \in Positions(t) : Value(t, p) # 0}, <)[c[1] + 1]>>>>

(* ElementsIndexed: gather, index_select, scatter, scatter_add and nonzero *)
(* combine for every output element exactly the elements that the index    *)
(* values name, the later ones winning where several name one place, and   *)
(* never an element outside of an operand.  (A scalar that is added to     *)
(* several times takes the first source element each time.)                *)
ElementsIndexed ==
  /\ Ok
  /\ call.op \in {"gather_out", "index_select_out", "scatter_src_out", "scatter_value_out",
                  "scatter_add_out", "nonzero_out"}
  /\ ~(call.op = "scatter_add_out" /\ dim(call.ins[1]) = 0)
  => /\ DOMAIN reads = Positions(out)
     /\ \A q \in Positions(out) :
          /\ reads[q] = Named(q)
          /\ \A r \in Range(reads[q]) : r[2] \in Positions(call.ins[r[1]])

GetWhereIndexed ==
  /\ Ok /\ call.op = "index_Tensor_out" /\ call.args # <<>> /\ \E i \in DOMAIN call.args : call.args[i] # <<>>
  => /\ DOMAIN reads = Positions(out)
     /\ \A q \in Positions(out) : reads[q] = <<<<1, At(call.ins[1], Indexed(call.ins[1], call.args, CoordOf(out, q)))>>>>
Places(t, indices, shape) ==
  [x \in 0..(Product(shape) - 1) |-> At(t, Indexed(t, indices, delinearize_index(x, shape)))] @@ <<>>
PutHere(q, puts, accumulate, shape) ==
  LET kept == puts = {} \/ accumulate
  IN /\ kept <=> <<1, q>> \in Range(reads[q])
     /\ Len(reads[q]) = (IF accumulate THEN 1 + Cardinality(puts) ELSE 1)
     /\ ~kept => reads[q] = <<<<2, broadcast_position(call.ins[2], shape, Max(puts))>>>>
PutWhereIndexed ==
  /\ Ok /\ call.op = "index_put_out" /\ \E i \in DOMAIN call.args[1] : call.args[1][i] # <<>>
  => \E shape \in {get_index_out_target_size(call.ins[1], call.args[1], count_index_blocks(call.args[1]) = 1)} :
       numel(call.ins[1]) > 0 =>
         \E place \in {Places(call.ins[1], call.args[1], shape)} : \A q \in Positions(out) :
           PutHere(q, {x \in DOMAIN place : place[x] = q}, call.args[2], shape)

(* AdvancedIndexing: indexing with a list of integer tensors, masks and    *)
(* gaps reads, and index_put writes, the element at the coordinate that    *)
(* the list names when every mask is replaced by the coordinates of its    *)
(* true elements and all indices are broadcast together, wherever the      *)
(* broadcast dimensions end up in the output.                              *)
AdvancedIndexing == GetWhereIndexed /\ PutWhereIndexed

(* Indexing: every kernel that picks elements by index picks the ones the  *)
(* index names, one at a time (ElementsIndexed) or through a list of       *)
(* broadcast indices and masks (AdvancedIndexing).                         *)
Indexing == ElementsIndexed /\ AdvancedIndexing

-----------------------------------------------------------------------------
(* Calls of the kernels of neural network layers.                          *)

CONSTANTS
  Matrices,                              \* operands of the products
  ConvIns, ConvWeights, ConvArgs,        \* convolutions
  Vectors,                               \* optional weights, biases and running statistics
  PoolIns, PoolArgs,                     \* [k, s, p, d, ceil, pad, divisor]
  NormIns, NormShapes,                   \* normalized shapes
  Tables, Rows                           \* embedding tables and row indices

MatmulNext ==
  /\ Idle("matmul")
  /\ \E a, b \in Matrices :
       \/ Call("mm_out", <<a, b>>, <<>>, LAMBDA x : mm_out(a, b, x))
       \/ Call("bmm_out", <<a, b>>, <<>>, LAMBDA x : bmm_out(a, b, x))
       \/ \E c \in Matrices : Call("addmm_out", <<c, a, b>>, <<>>, LAMBDA x : addmm_out(c, a, b, x))

ScratchNext ==
  /\ Idle("scratch")
  /\ \E a, w \in Matrices, b \in Vectors :
       CallMany("linear_scratch_example", <<a, w>> \o b, <<>>, LAMBDA os : linear_scratch_example(a, w, b, os))

ConvNext ==
  /\ Idle("conv")
  /\ \E t \in ConvIns, w \in ConvWeights, b \in Vectors, a \in ConvArgs :
       Call("convolution_out", <<t, w>> \o b, a, LAMBDA x : convolution_out(t, w, b, a, x))

(* The runtime passes the sizes of the bias when it asks for its gradient. *)
BackwardNext ==
  /\ Idle("conv_backward")
  /\ \E g, t \in ConvIns, w \in ConvWeights, a \in ConvArgs, mask \in {<<TRUE, TRUE, TRUE>>, <<TRUE, FALSE, FALSE>>} :
       CallMany("convolution_backward_out", <<g, t, w>>, a, LAMBDA os :
         convolution_backward_out(g, t, w, IF mask[3] THEN <<<<size(w, 0)>>>> ELSE <<>>, a, mask, os))

(* A stride is at least 1.                                                 *)
PoolNext ==
  \/ /\ Idle("pool")
     /\ \E t \in PoolIns, a \in PoolArgs :
          Call("avg_pool2d_out", <<t>>, a, LAMBDA x : avg_pool2d_out(t, a.k, a.s, a.p, a.ceil, a.pad, a.divisor, x))
  \/ /\ Idle("pool_indices")
     /\ \E t \in PoolIns, a \in PoolArgs :
          CallMany("max_pool2d_with_indices_out", <<t>>, a, LAMBDA os :
            max_pool2d_with_indices_out(t, a.k, a.s, a.p, a.d, a.ceil, os))

NormNext ==
  \/ /\ Idle("norm")
     /\ \E t \in NormIns, w, b \in Vectors :
          \/ \E m, v \in Vectors, training \in BOOLEAN : m # <<>> /\ v # <<>> /\
               CallMany("_native_batch_norm_legit_out", <<t, w, b, m, v>>, <<>>, LAMBDA os :
                 _native_batch_norm_legit_out(t, w, b, m[1], v[1], training, os))
          \/ \E training \in BOOLEAN : CallMany("_native_batch_norm_legit_no_stats_out", <<t, w, b>>, <<>>, LAMBDA os :
               _native_batch_norm_legit_no_stats_out(training, os))
          \/ \E shape \in NormShapes : CallMany("native_layer_norm_out", <<t, w, b>>, shape, LAMBDA os :
               native_layer_norm_out(t, shape, w, b, os))
          \/ \E shape \in NormShapes, g \in 1..2 : Len(shape) = 3 /\
               CallMany("native_group_norm_out", <<t, w, b>>, <<g>>, LAMBDA os :
                 native_group_norm_out(t, w, b, shape[1], shape[2], shape[3], g, os))
  \/ /\ Idle("embedding")
     /\ \E w \in Tables, i \in Rows : Call("embedding_out", <<w, i>>, <<>>, LAMBDA x : embedding_out(w, i, x))

NeuralNext == MatmulNext \/ ScratchNext \/ ConvNext \/ BackwardNext \/ PoolNext \/ NormNext

-----------------------------------------------------------------------------
(* Positions of operand k whose coordinate satisfies P.                    *)
With(k, t, P(_)) == {One(k, p) : p \in {q \in Positions(t) : P(CoordOf(t, q))}}
Prefix(s, n) == SubSeq(s, 1, n)

(* What the layer means for output k, element at coordinate c.             *)
Meant(k, c) ==
  LET a == call.ins[1]
      b == call.ins[2]
      n == Len(c)
      product(x, y, px, py) ==
        {Two(px, At(x, Prefix(c, n - 1) \o <<j>>), py, At(y, Prefix(c, n - 2) \o <<j, c[n]>>)) : j \in 0..(size(x, n - 1) - 1)}
      channel(i) == IF call.ins[i] = <<>> THEN {} ELSE {One(i, c[2])}
      g == call.args[1]
      D == size(a, 1) \div g
  IN CASE call.op \in {"mm_out", "bmm_out"} -> product(a, b, 1, 2)
       [] call.op = "addmm_out" ->
            product(b, call.ins[3], 2, 3)
              \cup With(1, a, LAMBDA e : \A d \in 1..dim(a) : e[d] \in {0, c[n - dim(a) + d]} /\ (a.sizes[d] > 1 => e[d] = c[n - dim(a) + d]))
       [] call.op = "embedding_out" -> {One(1, At(a, <<b.data[At(b, Prefix(c, n - 1)) + 1], c[n]>>))}
       [] call.op = "_native_batch_norm_legit_out" ->
            {One(1, At(a, c)), One(4, c[2]), One(5, c[2])} \cup channel(2) \cup channel(3)
       [] call.op = "native_layer_norm_out" ->
            LET m == n - Len(call.args)
                own(i) == IF call.ins[i] = <<>> THEN {} ELSE {One(i, At(call.ins[i][1], SubSeq(c, m + 1, n)))}
            IN With(1, a, LAMBDA e : Prefix(e, m) = Prefix(c, m)) \cup (IF k = 1 THEN own(2) \cup own(3) ELSE {})
       [] call.op = "native_group_norm_out" ->
            LET group == IF k = 1 THEN c[2] \div D ELSE c[2]
            IN With(1, a, LAMBDA e : e[1] = c[1] /\ e[2] \div D = group) \cup (IF k = 1 THEN channel(2) \cup channel(3) ELSE {})

(* TermsByCoordinate: the matrix products, embedding and the normalization *)
(* layers, which walk flat buffers, sum up for every output element        *)
(* exactly the terms that its coordinates name: rows times columns of the  *)
(* same batch, statistics over the element's own group, and the weight and *)
(* bias of its own channel.                                                *)
TermsByCoordinate ==
  Ok /\ call.op \in {"mm_out", "bmm_out", "addmm_out", "embedding_out", "_native_batch_norm_legit_out",
                     "native_layer_norm_out", "native_group_norm_out"} =>
    \A k \in DOMAIN outs :
      /\ DOMAIN call.reads[k] = Positions(outs[k])
      /\ \A p \in Positions(outs[k]) : call.reads[k][p] = Meant(k, CoordOf(outs[k], p))

-----------------------------------------------------------------------------
(* Adjoints: convolution_backward and transposed convolution go over the    *)
(* same products as the plain convolution, turned round.  An element of    *)
(* the output and one of the input meet through an element of the weight   *)
(* in the gradient, or in the transposed convolution, exactly when they do *)
(* in the plain one, whatever strides, padding, dilation and groups are;   *)
(* and a gradient leaves no element of its output unwritten.               *)
Forward(in, weight, a, o) ==
  {<<f[1], f[2][1][2], f[2][2][2]>> :
     f \in UNION {{p} \X conv2d_direct(Planar(in), Planar(weight), PlanarArgs(in, a), CoordOf(Planar(o), p), size(o, 1)) :
                    p \in Positions(o)}}
Products(r) == UNION {{<<p, t>> : t \in {u \in r[p] : Len(u) = 2}} : p \in DOMAIN r}

BackwardIsAdjoint ==
  Ok /\ call.op = "convolution_backward_out" =>
    LET g == call.ins[1]
        plain == Forward(call.ins[2], call.ins[3], call.args, g)
        grad_input == Products(call.reads[1])
        grad_weight == Products(call.reads[2])
    IN /\ plain = {<<m[2][1][2], m[1], m[2][2][2]>> : m \in grad_input}
       /\ grad_weight # {} => plain = {<<m[2][1][2], m[2][2][2], m[1]>> : m \in grad_weight}
       /\ DOMAIN call.reads[1] = Positions(outs[1])

TransposeIsAdjoint ==
  Ok /\ call.op = "convolution_out" /\ call.args.transposed =>
    Forward(out, call.ins[2], call.args, call.ins[1]) = {<<m[2][1][2], m[1], m[2][2][2]>> : m \in Products(reads)}

(* WindowsCovered: every output element of a pool and of a convolution is  *)
(* written; a pooling window without dilation always holds an element, and *)
(* an average that does not count the padding divides by their number; no  *)
(* product reaches outside of the input or the weight.                     *)
WindowsCovered ==
  /\ Ok /\ call.op \in {"avg_pool2d_out", "max_pool2d_with_indices_out"} =>
       \A k \in DOMAIN outs :
         /\ DOMAIN call.reads[k] = Positions(outs[k])
         /\ (val_at(call.args.d, 0, 1) = 1 /\ val_at(call.args.d, 1, 1) = 1) \/ call.op = "avg_pool2d_out" =>
              \A p \in Positions(outs[k]) :
                LET w == call.reads[k][p]
                IN w.terms # {} /\ (call.op = "avg_pool2d_out" /\ ~call.args.pad => w.count = Cardinality(w.terms))
  /\ Ok /\ call.op = "convolution_out" /\ numel(out) > 0 =>
       /\ DOMAIN reads = Positions(out)
       /\ \A t \in UNION Range(reads) : \A i \in DOMAIN t :
            t[i][1] < 3 => t[i][2] \in Positions(call.ins[t[i][1]])

(* Layers: the layers of a network sum up the terms that the coordinates   *)
(* of an output element name (TermsByCoordinate); pools and convolutions   *)
(* cover every window and reach outside of none (WindowsCovered); backward *)
(* and transposed convolutions are the adjoints of the plain one.          *)
Layers == TermsByCoordinate /\ WindowsCovered /\ BackwardIsAdjoint /\ TransposeIsAdjoint

(* ElementsNamed: kernels that index and kernels that sum up take the      *)
(* elements of their operands that the coordinate of an output names.      *)
ElementsNamed == Indexing /\ Layers

-----------------------------------------------------------------------------
(* Calls of the optimized kernels, compared with the portable kernels they *)
(* replace.                                                                *)

CONSTANTS
  Operands,      \* tensors of the elementwise kernels
  ScalarArgs,    \* types of scalars
  Factors,       \* operands of the products
  GemmCalls,     \* [ta, tb, m, n, k, pad]: calls of gemm
  SoftmaxIns, NormalizedIns, NormalizedShapes, Affine

(* gelu and the products need no more than one pair of tensors.            *)
OptimizedElementwiseNext ==
  /\ Idle("optimized")
  /\ \E a \in Operands :
       \/ Call("opt_exp_out", <<a>>, <<>>, LAMBDA x : opt_exp_out(a, x))
       \/ Call("opt_neg_out", <<a>>, <<>>, LAMBDA x : opt_neg_out(a, x))
       \/ \E mode \in {"tanh", "none", "exact"} :
            Call("opt_gelu_out", <<a>>, <<mode>>, LAMBDA x : opt_gelu_out(a, mode, x))
       \/ \E b \in Operands :
            \/ \E s \in ScalarArgs : Call("opt_add_out", <<a, b>>, <<s>>, LAMBDA x : opt_add_out(a, b, s, x))
            \/ \E s \in ScalarArgs : Call("opt_sub_out", <<a, b>>, <<s>>, LAMBDA x : opt_sub_out(a, b, s, x))
            \/ Call("opt_mul_out", <<a, b>>, <<>>, LAMBDA x : opt_mul_out(a, b, x))
            \/ Call("opt_div_out", <<a, b>>, <<>>, LAMBDA x : opt_div_out(a, b, x))
            \/ Call("opt_le_tensor_out", <<a, b>>, <<>>, LAMBDA x : opt_le_tensor_out(a, b, x))
       \/ \E s, alpha \in ScalarArgs :
            \/ Call("opt_add_scalar_out", <<a>>, <<s, alpha>>, LAMBDA x : opt_add_scalar_out(a, s, alpha, x))
            \/ Call("opt_sub_scalar_out", <<a>>, <<s, alpha>>, LAMBDA x : opt_sub_scalar_out(a, s, alpha, x))
       \/ \E s \in ScalarArgs :
            \/ Call("opt_mul_scalar_out", <<a>>, <<s>>, LAMBDA x : opt_mul_scalar_out(a, s, x))
            \/ Call("opt_div_scalar_out", <<a>>, <<s>>, LAMBDA x : opt_div_scalar_out(a, s, x))
            \/ Call("opt_le_scalar_out", <<a>>, <<s>>, LAMBDA x : opt_le_scalar_out(a, s, x))

(* bmm reads uninitialised sizes unless its output has its input's rank.   *)
OptimizedProductsNext ==
  /\ Idle("opt_products")
  /\ \/ \E a, b \in Factors :
          \/ Call("opt_mm_out", <<a, b>>, <<>>, LAMBDA x : opt_mm_out(a, b, x))
          \/ /\ dim(a) = dim(out) /\ dim(a) >= 2
             /\ Call("opt_bmm_out", <<a, b>>, <<>>, LAMBDA x : opt_bmm_out(a, b, x))
          \/ \E c \in {<<>>, <<b>>} :
               Call("opt_linear_out", <<a, b>>, c, LAMBDA x : opt_linear_out(a, b, c, x))
     \/ \E p \in GemmCalls :
          LET lda == p.pad + (IF p.ta THEN p.k ELSE p.m)
              ldb == p.pad + (IF p.tb THEN p.n ELSE p.k)
          IN Call("gemm", <<>>, p, LAMBDA x :
               Outcome("Ok", x, gemm(p.ta, p.tb, p.m, p.n, p.k, lda, ldb, p.m + p.pad)))
     \/ \E t \in SoftmaxIns, d \in -1..2, f \in BOOLEAN :
          Call("opt_log_softmax_out", <<t>>, <<d, f>>, LAMBDA x : opt_log_softmax_out(t, d, f, x))

OptimizedNormNext ==
  /\ Idle("opt_norm")
  /\ \E t \in NormalizedIns, s \in NormalizedShapes, w, b \in Affine :
       CallMany("opt_native_layer_norm_out", <<t, w, b>>, s, LAMBDA os :
         opt_native_layer_norm_out(t, s, w, b, os))

OptimizedNext == OptimizedElementwiseNext \/ OptimizedProductsNext \/ OptimizedNormNext

-----------------------------------------------------------------------------
(* What the portable kernel does with the same arguments and the outputs   *)
(* as they were before the call.                                           *)
OneOut(r) == Outcome(r.status, <<r.out>>, <<r.reads>>)

Portable ==
  LET i == call.ins
      a == call.args
      o == call.before[1]
  IN CASE call.op = "opt_add_out" -> OneOut(add_out(i[1], i[2], a[1], o))
       [] call.op = "opt_sub_out" -> OneOut(sub_out(i[1], i[2], a[1], o))
       [] call.op = "opt_mul_out" -> OneOut(mul_out(i[1], i[2], o))
       [] call.op = "opt_div_out" -> OneOut(div_out(i[1], i[2], o))
       [] call.op = "opt_le_tensor_out" -> OneOut(le_tensor_out(i[1], i[2], o))
       [] call.op = "opt_add_scalar_out" -> OneOut(add_scalar_out(i[1], a[1], a[2], o))
       [] call.op = "opt_sub_scalar_out" -> OneOut(sub_scalar_out(i[1], a[1], a[2], o))
       [] call.op = "opt_mul_scalar_out" -> OneOut(mul_scalar_out(i[1], a[1], o))
       [] call.op = "opt_div_scalar_out" -> OneOut(div_scalar_out(i[1], a[1], o))
       [] call.op = "opt_le_scalar_out" -> OneOut(le_scalar_out(i[1], a[1], o))
       [] call.op = "opt_exp_out" -> OneOut(exp_out(i[1], o))
       [] call.op = "opt_neg_out" -> OneOut(neg_out(i[1], o))
       [] call.op = "opt_gelu_out" -> OneOut(gelu_out(i[1], a[1], o))
       [] call.op = "opt_mm_out" -> OneOut(mm_out(i[1], i[2], o))
       [] call.op = "opt_bmm_out" -> OneOut(bmm_out(i[1], i[2], o))
       [] call.op = "opt_log_softmax_out" -> OneOut(log_softmax_out(i[1], a[1], a[2], o))
       [] call.op = "opt_native_layer_norm_out" -> native_layer_norm_out(i[1], a, i[2], i[3], call.before)

Replaces ==
  {"opt_add_out", "opt_sub_out", "opt_mul_out", "opt_div_out", "opt_le_tensor_out", "opt_add_scalar_out",
   "opt_sub_scalar_out", "opt_mul_scalar_out", "opt_div_scalar_out", "opt_le_scalar_out", "opt_exp_out",
   "opt_neg_out", "opt_gelu_out", "opt_mm_out", "opt_bmm_out", "opt_log_softmax_out",
   "opt_native_layer_norm_out"}

(* Two operands of equal sizes are paired element by element because the   *)
(* output still has, from the call before, as many elements.               *)
PairedByStaleSize ==
  /\ call.op \in {"opt_add_out", "opt_sub_out", "opt_mul_out", "opt_div_out"}
  /\ numel(call.ins[1]) = numel(call.before[1])
  /\ numel(call.ins[2]) = numel(call.before[1])
  /\ ~sizes_match_ignoring_leading_1s(call.ins[1].sizes, call.ins[2].sizes)

NothingToSum == call.op = "opt_bmm_out" /\ 0 \in {numel(call.ins[1]), numel(call.ins[2])}

Unordered(f) == [p \in DOMAIN f |-> ToSet(f[p])]

(* OptimizedAgrees: where both accept the arguments, the kernel of         *)
(* kernels/optimized computes the same output as the portable kernel it    *)
(* replaces: the same sizes, every element written, and each from the same *)
(* elements in the same places of the formula, whichever of the vector,    *)
(* one-element, matrix-by-vector and general loops was taken, and the row  *)
(* statistics count every element of the row once.  Excepted are the three *)
(* things in which the two differ: operands paired by the stale size of    *)
(* the output, batches of empty matrices, and which operand of add is      *)
(* multiplied by alpha.                                                    *)
OptimizedAgrees ==
  Ok /\ call.op \in Replaces =>
    /\ \E p \in {Portable} :
         p.status = "Ok" /\ ~PairedByStaleSize /\ ~NothingToSum =>
           /\ outs = p.out
           /\ IF call.op \in {"opt_add_out", "opt_mul_out"}
              THEN Unordered(call.reads[1]) = Unordered(p.reads[1])
              ELSE call.reads = p.reads
    /\ call.op = "opt_native_layer_norm_out" =>
         \E moments \in {RowwiseMoments(Product(call.args))} :
           moments.weight = moments.m0 /\ Len(moments.seen) = moments.m0

(* GemmMultiplies: gemm sums for every element of its result the products  *)
(* of the row of op(a) with the column of op(b), at the leading dimensions *)
(* it was given, though normalize_last_dims replaces some of them.         *)
GemmMultiplies ==
  Ok /\ call.op = "gemm" =>
    LET c == call.args
        lda == c.pad + (IF c.ta THEN c.k ELSE c.m)
        ldb == c.pad + (IF c.tb THEN c.n ELSE c.k)
    IN \A i \in 0..(c.m - 1), j \in 0..(c.n - 1) :
         reads[j * (c.m + c.pad) + i] =
           {<<IF c.ta THEN i * lda + l ELSE i + l * lda,
              IF c.tb THEN l * ldb + j ELSE l + j * ldb>> : l \in 0..(c.k - 1)}

(* OptimizedLoops: the vectorised code computes what the plain loops do:   *)
(* the optimized kernels what the portable ones do (OptimizedAgrees) and   *)
(* gemm the matrix product (GemmMultiplies).                               *)
OptimizedLoops == OptimizedAgrees /\ GemmMultiplies

-----------------------------------------------------------------------------
(* Calls of the quantized kernels.                                         *)

CONSTANTS
  QTables,       \* embedding tables
  TableScales,   \* and their scales; zero points share their shapes
  TableIndices,  \* indices, each less than the number of rows of a table
  Weights,       \* integer weights and the float inputs they multiply
  WeightScales,
  FloatIns,
  QuantIns,      \* quantized tensors
  ChannelScales, ChannelZeros,
  Samples,       \* float tensors with data, for the choice of parameters
  QuantRanges    \* <<quant_min, quant_max>>

(* The sizes of an embedding's output are defined only when it has one     *)
(* dimension more than the indices.                                        *)
QuantizedEmbeddingNext ==
  /\ Idle("quant_embedding")
  /\ \E w \in QTables, s \in TableScales, i \in TableIndices, z \in BOOLEAN, bits \in {2, 4, 8} :
       LET zps == IF z THEN <<s>> ELSE <<>>
       IN /\ dim(out) = dim(i) + 1 /\ dim(w) = 2
          /\ \A v \in ToSet(i.data) : v < size(w, 0)
          /\ \/ Call("embedding", <<w, s, i>>, bits, LAMBDA x :
                  CASE bits = 2 -> quantized_embedding_2bit_out(w, s, zps, 0, 3, i, x)
                    [] bits = 4 -> quantized_embedding_4bit_out(w, s, zps, 0, 15, i, x)
                    [] bits = 8 -> quantized_embedding_byte_out(w, s, zps, 0, 255, i, x))
             \/ \E dtype \in {"Half", "None"} :
                  Call("embedding", <<w, s, i>>, bits, LAMBDA x :
                    CASE bits = 2 -> quantized_embedding_2bit_dtype_out(w, s, zps, 0, 3, i, dtype, x)
                      [] bits = 4 -> quantized_embedding_4bit_dtype_out(w, s, zps, 0, 15, i, dtype, x)
                      [] bits = 8 -> quantized_embedding_byte_dtype_out(w, s, zps, 0, 255, i, dtype, x))

QuantizedProductsNext ==
  /\ Idle("mixed")
  /\ \E t \in FloatIns, w \in Weights, s \in WeightScales, z \in BOOLEAN :
       LET zps == IF z THEN <<s>> ELSE <<>>
       IN \/ \E dtype \in {"None", "Half"} :
               Call("quantized_mixed_linear_out", <<t, w, s>>, <<>>, LAMBDA x :
                 quantized_mixed_linear_out(t, w, s, zps, dtype, x))
          \/ Call("quantized_mixed_mm_out", <<t, w, s>>, <<>>, LAMBDA x :
               quantized_mixed_mm_out(t, w, s, zps, x))

QuantizeNext ==
  /\ Idle("quantize")
  /\ \E t \in FloatIns, r \in QuantRanges, s \in ChannelScales, z \in ChannelZeros :
       LET dtype == out.type
       IN \/ Call("quantize_per_tensor_out", <<t>>, <<>>, LAMBDA x :
               quantize_per_tensor_out(t, r[1], r[2], dtype, x))
          \/ Call("quantize_per_tensor_tensor_args_out", <<t>>, <<>>, LAMBDA x :
               quantize_per_tensor_tensor_args_out(t, s, z, r[1], r[2], dtype, x))
          \/ \E axis \in -1..2 :
               Call("quantize_per_channel_out", <<t>>, <<axis>>, LAMBDA x :
                 quantize_per_channel_out(t, s, z, axis, r[1], r[2], dtype, x))
          \/ /\ dim(t) > 0
             /\ Call("quantize_per_token_out", <<t>>, <<>>, LAMBDA x :
                  quantize_per_token_out(t, s, z, r[1], r[2], dtype, x))

DequantizeNext ==
  /\ Idle("dequantize")
  /\ \E t \in QuantIns, r \in QuantRanges, s \in ChannelScales, z \in ChannelZeros :
       \/ Call("dequantize_per_tensor_out", <<t>>, <<>>, LAMBDA x :
            dequantize_per_tensor_out(t, r[1], r[2], t.type, "None", x))
       \/ Call("dequantize_per_tensor_tensor_args_out", <<t>>, <<>>, LAMBDA x :
            dequantize_per_tensor_tensor_args_out(t, s, z, r[1], r[2], t.type, "Float", x))
       \/ \E axis \in -1..2, zps \in {<<>>, <<z>>} :
            Call("dequantize_per_channel_out", <<t>>, <<axis>>, LAMBDA x :
              dequantize_per_channel_out(t, s, zps, axis, r[1], r[2], "Char", "None", x))
       \/ /\ dim(t) > 0
          /\ Call("dequantize_per_token_out", <<t>>, <<>>, LAMBDA x :
               dequantize_per_token_out(t, s, z, r[1], r[2], t.type, "Float", x))
       \/ \E b \in QuantIns :
            Call("quantized_add_out", <<t, b>>, <<>>, LAMBDA x : quantized_add_out(t, b, {r}, x))

ChooseNext ==
  /\ Idle("choose")
  /\ \E t \in Samples :
       \/ \E r \in QuantRanges :
            CallMany("choose_qparams_tensor_out", <<t>>, r, LAMBDA os :
              choose_qparams_tensor_out(t, r[1], r[2], os))
       \/ CallMany("choose_qparams_per_token_asymmetric_out", <<t>>, <<-128, 127>>, LAMBDA os :
            choose_qparams_per_token_asymmetric_out(t, os))

QuantizedNext ==
  QuantizedEmbeddingNext \/ QuantizedProductsNext \/ QuantizeNext \/ DequantizeNext \/ ChooseNext

-----------------------------------------------------------------------------
(* Where the exporter puts value j of a row (the embedding quantizer of    *)
(* examples/models/llama).                                                 *)
pack(j, nbit) ==
  CASE nbit = 2 -> <<j \div 4, 2 * (j % 4)>>
    [] nbit = 4 -> <<j \div 2, IF j % 2 = 0 THEN 4 ELSE 0>>
    [] nbit = 8 -> <<j, 0>>

(* Embedded: an embedding kernel gives element <i.., j> the value j of the *)
(* row its index names, taken from the bits where the exporter packed it,  *)
(* with the scale and the zero point of the group of columns j belongs to  *)
(* (weight_value and embedding_xbit_per_channel against quantize.py).      *)
Embedded ==
  Ok /\ call.op = "embedding" =>
    LET w == call.ins[1]
        s == call.ins[2]
        n == size(w, 1) * (8 \div call.args)
        groups == IF dim(s) = 2 THEN size(s, 1) ELSE 1
    IN \A p \in Positions(out) :
         LET row == call.ins[3].data[(p \div n) + 1]
             slot == pack(p % n, call.args)
             group == row * groups + CHOOSE g \in 0..(groups - 1) :
                        g * n <= (p % n) * groups /\ (p % n) * groups < (g + 1) * n
         IN /\ <<1, row * size(w, 1) + slot[1], slot[2]>> \in reads[p]
            /\ \A r \in reads[p] : r[1] \in {2, 3} => r[2] = group

PerChannel == {"quantize_per_channel_out", "dequantize_per_channel_out"}
PerToken == {"quantize_per_token_out", "dequantize_per_token_out"}

(* The channel of element p: its coordinate along the axis, or its row.    *)
ChannelOf(t, p) ==
  CASE call.op \in PerChannel -> CoordOf(t, p)[Norm(call.args[1], dim(t)) + 1]
    [] call.op \in PerToken -> p \div t.sizes[dim(t)]

UsesOwnChannel ==
  Ok /\ call.op \in PerChannel \cup PerToken =>
    \A p \in Positions(out) :
      /\ <<1, p>> \in reads[p]
      /\ \A r \in reads[p] : r[1] \in {2, 3} => r[2] = ChannelOf(call.ins[1], p)

(* OwnChannel: per-channel dequantization, per-channel quantization of a   *)
(* matrix, and per-token quantization both ways use, for every element,    *)
(* the scale and the zero point of its own channel or token, and write     *)
(* every element (op_quantize.cpp and op_dequantize.cpp over               *)
(* apply_over_dim_list).                                                   *)
OwnChannel ==
  (call # NoCall => ~(call.op = "quantize_per_channel_out" /\ dim(call.ins[1]) > 2)) => UsesOwnChannel

(* GroupScales: every product of a mixed linear layer is scaled by         *)
(* s[j][k/g], the scale of the group of columns its weight belongs to, and *)
(* of a mixed mm by the scale of the weight's row, when the groups divide  *)
(* the columns (vec_quantized_matmul_transb_int8, _int8).                  *)
GroupScales ==
  Ok /\ call.op \in {"quantized_mixed_linear_out", "quantized_mixed_mm_out"} =>
    LET t == call.ins[1]
        w == call.ins[2]
        s == call.ins[3]
        n == size(t, 1)
        groups == IF dim(s) = 2 THEN size(s, 1) ELSE 1
        term(i, j, k) ==
          IF call.op = "quantized_mixed_mm_out"
          THEN <<<<1, At(t, <<i, k>>)>>, <<4, At(w, <<k, j>>)>>, <<2, k>>>>
          ELSE <<<<1, At(t, <<i, k>>)>>, <<4, At(w, <<j, k>>)>>, <<2, j * groups + (k * groups) \div n>>>>
    IN n % groups = 0 =>
         \A p \in Positions(out) :
           reads[p] = {term(CoordOf(out, p)[1], CoordOf(out, p)[2], k) : k \in 0..(n - 1)}

(* ZeroRepresentable: the chosen zero point lies in the quantized range,   *)
(* and the smallest and the largest value of the token miss it by no more  *)
(* than one step, so that clamping costs at most a rounding step           *)
(* (calculate_scale_and_zero_point, then quantize_val).                    *)
ZeroRepresentable ==
  Ok /\ call.op \in {"choose_qparams_tensor_out", "choose_qparams_per_token_asymmetric_out"} =>
    LET t == call.ins[1]
        qmin == call.args[1]
        qmax == call.args[2]
        n == numel(t) \div numel(outs[1])
    IN \A i \in Positions(outs[1]) :
         LET q == call.reads[1][i]
         IN /\ call.reads[2][i] = q
            /\ q.zero_point \in qmin..qmax
            /\ q.span > 0 =>
                 \A j \in 1..n :
                   q.zero_point + Round(t.data[i * n + j] * (qmax - qmin), q.span) \in (qmin - 1)..(qmax + 1)

-----------------------------------------------------------------------------
(* Calls of the Cadence kernels, with the shapes the exporter checked.     *)

CONSTANTS
  Signals, Filters,   \* inputs and weights of convolutions
  Batches,            \* operands of matrix products
  QRows               \* quantized tensors with data, of the planned shape

(* A tensor of n elements.                                                 *)
Tensors1(n) == [type |-> "Int", sizes |-> <<n>>, order |-> <<0>>, static |-> FALSE, bound |-> n]

(* The size of a convolution's output along one dimension.                 *)
Convolved(n, k, st, pad, dil) == (n + 2 * pad - dil * (k - 1) - 1) \div st + 1

ConvFits(t, w, st, pad, dil, g) ==
  LET a == dim(t) - 2            \* spatial dimensions; the last uses entry 2
  IN /\ dim(w) = dim(t) /\ dim(out) = dim(t)
     /\ size(t, 1) = g * size(w, 1) /\ size(w, 0) % g = 0
     /\ size(out, 0) = size(t, 0) /\ size(out, 1) = size(w, 0)
     /\ \A d \in 2..(dim(t) - 1) :
          LET e == IF a = 1 THEN 2 ELSE d - 1
          IN size(out, d) = Convolved(size(t, d), size(w, d), st[e], pad[e], dil[e])
     /\ a = 1 => pad[1] = 0

CadenceConvNext ==
  /\ Idle("cadence_conv")
  /\ \E t \in Signals, w \in Filters, st, dil \in (1..2) \X (1..2), pad \in (0..1) \X (0..1), g \in 1..2 :
       /\ ConvFits(t, w, st, pad, dil, g)
       /\ \E scales \in {Tensors1(1), Tensors1(size(w, 0))} :
            Call("quantized_conv_out", <<t, w>>, [st |-> st, pad |-> pad, dil |-> dil, g |-> g, scales |-> numel(scales)],
                 LAMBDA x : quantized_conv_out(t, w, st, pad, dil, g, scales, x))

CadenceProductsNext ==
  /\ Idle("cadence_products")
  /\ \E a, b \in Batches :
       \/ /\ dim(b) = 2 /\ dim(a) >= 1 /\ a.sizes[dim(a)] = size(b, 1)
          /\ out.sizes = [a.sizes EXCEPT ![dim(a)] = size(b, 0)]
          /\ \/ \E n \in 1..2 : Call("linear", <<a, b>>, FALSE, LAMBDA x :
                  cadence_quantized_linear_out(a, b, Tensors1(n), Tensors1(1), x))
             \/ Call("linear", <<a, b>>, FALSE, LAMBDA x : hifi_quantized_linear_out(a, b, x))
       \/ \E tr \in BOOLEAN :
            LET inner == IF tr THEN dim(b) ELSE dim(b) - 1
                outer == IF tr THEN dim(b) - 1 ELSE dim(b)
            IN /\ dim(a) = dim(b) /\ dim(a) >= 2 /\ dim(out) = dim(a)
               /\ SubSeq(a.sizes, 1, dim(a) - 2) = SubSeq(b.sizes, 1, dim(b) - 2)
               /\ a.sizes[dim(a)] = b.sizes[inner]
               /\ out.sizes = [a.sizes EXCEPT ![dim(a)] = b.sizes[outer]]
               /\ Call("matmul", <<a, b>>, tr, LAMBDA x : quantized_matmul_out(a, b, tr, x))

CadenceRowsNext ==
  /\ Idle("cadence_rows")
  /\ \/ \E t \in QRows :
          /\ t.sizes = out.sizes
          /\ \/ \E zp \in -2..2 :
                  \/ t.type = out.type /\ Call("layer_norm", <<t>>, zp, LAMBDA x : cadence_layer_norm_out(t, zp, x))
                  \/ t.type = out.type /\ t.type \in CadenceTypes /\ Call("layer_norm", <<t>>, zp, LAMBDA x : hifi_layer_norm_out(t, zp, x))
             \/ Call("each", <<t>>, <<>>, LAMBDA x : cadence_quantize_per_tensor_out(t, x))
             \/ Call("each", <<t>>, <<>>, LAMBDA x : cadence_dequantize_per_tensor_out(t, x))
             \/ Call("each", <<t>>, <<>>, LAMBDA x : hifi_quantize_per_tensor_out(t, x))
             \/ Call("each", <<t>>, <<>>, LAMBDA x : hifi_dequantize_per_tensor_out(t, x))
             \/ Call("each", <<t>>, <<>>, LAMBDA x : quantized_relu_out(t, x))
             \/ Call("each", <<t>>, <<>>, LAMBDA x : cadence_view_copy_out(t, x))
             \/ \E b \in QRows : Call("add", <<t, b>>, <<>>, LAMBDA x : cadence_add_out(t, b, x))
     \/ \E sizes \in {planned.outs[1].sizes, <<2>>, <<9, 9>>} :
          Call("full", <<>>, <<>>, LAMBDA x : cadence_full_out(sizes, "Long", x))

CadenceNext == CadenceConvNext \/ CadenceProductsNext \/ CadenceRowsNext

-----------------------------------------------------------------------------
ConvTerms(t, w, a, c) ==
  LET one == dim(t) = 3
      coord(x, b, ch, h, v) == IF one THEN <<b, ch, v>> ELSE <<b, ch, h, v>>
      wide(x) == size(x, dim(x) - 1)
      high(x) == IF one THEN 1 ELSE size(x, 2)
      oh == IF one THEN 0 ELSE c[3]
      group == c[2] \div (size(w, 0) \div a.g)
      h(k) == oh * a.st[1] - a.pad[1] + k * a.dil[1]
      v(k) == c[dim(t)] * a.st[2] - a.pad[2] + k * a.dil[2]
  IN {<<<<1, At(t, coord(t, c[1], group * size(w, 1) + ic, h(kh), v(kw)))>>,
        <<4, At(w, coord(w, c[2], ic, kh, kw))>>>> :
       <<ic, kh, kw>> \in {k \in (0..(size(w, 1) - 1)) \X (0..(high(w) - 1)) \X (0..(wide(w) - 1)) :
                             h(k[2]) \in 0..(high(t) - 1) /\ v(k[3]) \in 0..(wide(t) - 1)}}

ProductTerms(a, b, tr, c) ==
  LET n == a.sizes[dim(a)]
      row == SubSeq(c, 1, dim(out) - 1)
      lead == SubSeq(c, 1, dim(out) - 2)
  IN {<<<<1, At(a, Append(row, k))>>,
        <<4, At(b, CASE call.op = "linear" -> <<c[dim(out)], k>>
                     [] call.op = "matmul" /\ tr -> lead \o <<c[dim(out)], k>>
                     [] call.op = "matmul" /\ ~tr -> lead \o <<k, c[dim(out)]>>)>>>> : k \in 0..(n - 1)}

Shifted(x, zp) ==
  [sum |-> Sum([j \in DOMAIN x |-> x[j] - zp]), sq_sum |-> Sum([j \in DOMAIN x |-> (x[j] - zp) * (x[j] - zp)])]

(* CadenceComputes: a quantized convolution, linear layer or matrix        *)
(* product sums exactly the products its coordinates name, on the padded   *)
(* and the short path alike, scaled per channel; the layer norm's mean and *)
(* variance are those of the dequantized row; every element is converted,  *)
(* the odd last one included.                                              *)
CadenceComputes ==
  Ok /\ planned.family \in {"cadence_conv", "cadence_products", "cadence_rows"} =>
    \A p \in Positions(out) :
      LET t == call.ins[1]
          c == CoordOf(out, p)
          terms == {r \in reads[p] : Len(r) = 2}
      IN CASE call.op = "quantized_conv_out" ->
                /\ terms = ConvTerms(t, call.ins[2], call.args, c)
                /\ reads[p] \ terms = {<<<<5, c[2]>>>>, <<<<2, IF call.args.scales = 1 THEN 0 ELSE c[2]>>>>}
           [] call.op \in {"linear", "matmul"} -> terms = ProductTerms(t, call.ins[2], call.args, c)
           [] call.op = "layer_norm" ->
                LET n == t.sizes[dim(t)]
                IN reads[p].moments = Shifted([j \in 1..n |-> t.data[(p \div n) * n + j]], call.args)
           [] call.op = "each" -> reads[p] = {<<1, p>>}
           [] OTHER -> TRUE

(* Quantizing: every element is quantized, dequantized or multiplied with  *)
(* the scale and the zero point of its own row, group, channel or token    *)
(* (Embedded, OwnChannel, GroupScales), those that are chosen at run time  *)
(* lie in the quantized range (ZeroRepresentable), and the kernels of the  *)
(* Cadence backend compute from the same elements (CadenceComputes).       *)
Quantizing == Embedded /\ OwnChannel /\ GroupScales /\ ZeroRepresentable /\ CadenceComputes

-----------------------------------------------------------------------------
(* Calls of the custom operators for language models.                      *)

CONSTANTS
  Queries, Caches,   \* rank 4 tensors
  Masks,             \* optional attention masks
  Images             \* tensors for tile_crop, fallback and the transform

AttentionNext ==
  /\ Idle("attention")
  /\ \/ \E q \in Queries, c \in Caches, mask \in Masks, causal \in BOOLEAN :
          \/ Call("flash_attention", <<q, c>>, [pos |-> 0, causal |-> causal, mask |-> mask], LAMBDA x :
               flash_attention_kernel_out(q, c, c, mask, causal, x))
          \/ \E pos \in 0..4, cached \in BOOLEAN :
               LET args == [pos |-> pos, causal |-> causal, mask |-> mask]
                   kv == [q EXCEPT !.sizes[3] = size(c, 2)]
               IN \/ /\ pos + size(q, 1) <= size(c, 1)
                     /\ Call("custom_sdpa", <<q, c>>, args, LAMBDA x : custom_sdpa_out(q, c, c, pos, mask, causal, x))
                  \/ Call("custom_sdpa", <<q, c>>, args, LAMBDA x :
                       sdpa_with_kv_cache_out(q, kv, kv, c, c, pos, size(q, 1), mask, causal, x))
     \/ \E v \in Queries, c \in Caches, pos \in 0..4 :
          Call("update_quantized_cache", <<v, c>>, pos, LAMBDA x : update_quantized_cache_out(v, c, pos, x))

ImagesNext ==
  /\ Idle("images")
  /\ \E t \in Images :
       \/ \E tile \in 0..3 : Call("tile_crop", <<t>>, tile, LAMBDA x : tile_crop_out_impl(t, tile, x))
       \/ Call("fallback", <<t>>, <<>>, LAMBDA x : fallback_out(t, x))
       \/ Call("hadamard", <<t>>, <<>>, LAMBDA x : fast_hadamard_transform_out(t, x))

CustomNext == AttentionNext \/ ImagesNext

-----------------------------------------------------------------------------
Attends == {"flash_attention", "custom_sdpa"}
SeqDim == IF call.op = "flash_attention" THEN 2 ELSE 1
HeadDim == IF call.op = "flash_attention" THEN 1 ELSE 2

(* Of the query blocks, none has a row that ends more than one position    *)
(* before the block of keys that holds the last row's key.                 *)
MaskedInLastBlock ==
  LET q == call.ins[1]
      n == size(q, SeqDim)
      kv == Least(KVSplit, call.args.pos + n)
      split == Least(QSplit, n)
  IN \A m \in {m \in 0..(n - 1) : m % split = 0} :
       LET first == call.args.pos + m
           last == first + Least(split, n - m) - 1
       IN (last \div kv) * kv <= first + 1

AttendsTo(masked) ==
  Ok /\ call.op \in Attends =>
    LET q == call.ins[1]
        c == call.ins[2]
        reps == size(q, HeadDim) \div size(c, HeadDim)
        kv == IF call.op = "flash_attention" THEN size(c, 2) ELSE call.args.pos + size(q, 1)
    IN call.args.causal /\ masked =>
         \A p \in Positions(out) :
           LET x == CoordOf(out, p)
               seen == {n \in 0..(kv - 1) : n <= call.args.pos + x[SeqDim + 1]}
               row(n, e) == At(c, [d \in 1..4 |-> CASE d = 1 -> x[1] [] d = SeqDim + 1 -> n
                                                    [] d = HeadDim + 1 -> x[HeadDim + 1] \div reps [] d = 4 -> e])
           IN /\ reads[p].query = At(q, [x EXCEPT ![4] = 0])
              /\ reads[p].keys = {row(n, 0) : n \in seen}
              /\ reads[p].values = {row(n, x[4]) : n \in seen}

(* AttendsToPast: under a causal mask the row at position p of head h      *)
(* combines the keys and values at positions 0..p of the head that h is    *)
(* grouped with, of its own batch, and no other, however the rows and the  *)
(* keys are cut into blocks, while the mask starts in the last block       *)
(* (cpu_flash_attention, custom_sdpa_out, sdpa_with_kv_cache_out).         *)
AttendsToPast == call # NoCall /\ call.op \in Attends => AttendsTo(MaskedInLastBlock)

(* FutureMasked: the same for every start position.  "Apply causal mask,   *)
(* fill unused, i.e. future values, with -inf" (op_sdpa.cpp).              *)
FutureMasked == call # NoCall /\ call.op \in Attends => AttendsTo(TRUE)

(* CustomMoves: a cache update puts row s of the value at position         *)
(* start_pos + s of its own batch line and head and touches nothing else;  *)
(* tile_crop cuts an image into tiles; the fast transform multiplies by    *)
(* the Hadamard matrix (update_quantized_cache_out, tile_crop_impl,        *)
(* fast_hadamard_transform).                                               *)
CustomMoves ==
  Ok /\ call.op \in {"update_quantized_cache", "tile_crop", "hadamard"} =>
    LET t == call.ins[1]
        ones(a, b) == LET bits == {i \in 0..3 : (a \div 2 ^ i) % 2 = 1 /\ (b \div 2 ^ i) % 2 = 1} IN Cardinality(bits)
    IN CASE call.op = "update_quantized_cache" ->
              reads = {<<At(call.ins[2], [CoordOf(t, p) EXCEPT ![2] = @ + call.args]), p>> : p \in Positions(t)}
         [] call.op = "tile_crop" ->
              \A p \in Positions(out) :
                LET x == CoordOf(out, p)
                    across == size(t, 2) \div call.args
                IN reads[p] = At(t, <<x[2], (x[1] \div across) * call.args + x[3], (x[1] % across) * call.args + x[4]>>)
         [] call.op = "hadamard" ->
              \A p \in DOMAIN reads :
                LET n == t.sizes[dim(t)]
                IN reads[p] = [x \in 0..(n - 1) |-> <<(p \div n) * n + x, IF ones(x, p % n) % 2 = 0 THEN 1 ELSE -1>>]

(* CustomOps: the operators for language models: attention sees the past   *)
(* and only the past (AttendsToPast), and cache updates, crops and         *)
(* transforms put every element in its place (CustomMoves).                *)
CustomOps == AttendsToPast /\ CustomMoves

-----------------------------------------------------------------------------
Next ==
  \/ IndexNext \/ NeuralNext
  \/ OptimizedNext \/ QuantizedNext \/ CadenceNext \/ CustomNext
  \/ Return

Spec == Init /\ [][Next]_vars
=============================================================================
