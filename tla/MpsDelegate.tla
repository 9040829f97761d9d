----------------------------- MODULE MpsDelegate ------------------------------
(***************************************************************************)
(* The MPS delegate, from backends/apple/mps/runtime: the builder of its   *)
(* graphs (operations/*.mm), what the graphs given to it mean, and the     *)
(* delegate at run time (MPSBackend.mm, MPSCompiler.mm, MPSExecutor.mm and *)
(* MPSStream.mm).                                                          *)
(***************************************************************************)
EXTENDS Integers, Sequences, SequencesExt, FiniteSets, FiniteSetsExt, Tensors, TLC

(* The graph the MPS delegate builds from a serialized one, from           *)
(* backends/apple/mps/runtime/MPSGraphBuilder.mm, MPSDelegateHeader.mm and *)
(* operations/*.mm, after the operations of Apple's MPSGraph library that  *)
(* it is built from.                                                       *)

(* The operations of Apple's MPSGraph library that the MPS delegate uses   *)
(* (external: modelled from how backends/apple/mps/runtime calls them).    *)
(*                                                                         *)
(* A tensor of a graph stands for what it evaluates to on the data that is *)
(* fed: a type, a shape and a value at every coordinate.  Values are       *)
(* rational numbers <<n, d>> with d > 0; a function the delegate only      *)
(* passes on (exp, erf, a bitwise operation) is an arbitrary one, told     *)
(* apart by its name.                                                      *)

Q(n) == <<n, 1>>
(* The fraction in lowest terms                                            *)
Gcd[a, b \in Nat] == IF b = 0 THEN a ELSE Gcd[b, a % b]
Lowest[n, d \in Int] ==
  IF d = 1 THEN <<n, 1>> ELSE LET g == Gcd[IF n < 0 THEN -n ELSE n, d] IN <<n \div g, d \div g>>
Normal(q) == Lowest[q[1], q[2]]
Sum2(x, y) == <<x[1] * y[2] + y[1] * x[2], x[2] * y[2]>>
Product2(x, y) == <<x[1] * y[1], x[2] * y[2]>>
Negated(x) == <<-x[1], x[2]>>
Inverted(x) == IF x[1] > 0 THEN <<x[2], x[1]>> ELSE <<-x[2], -x[1]>>
Plus(x, y) == Normal(Sum2(x, y))
Minus(x, y) == Normal(Sum2(x, Negated(y)))
Times(x, y) == Normal(Product2(x, y))
Over(x, y) == Normal(Product2(x, Inverted(y)))
Below(x, y) == x[1] * y[2] < y[1] * x[2]
Equal(x, y) == x[1] * y[2] = y[1] * x[2]
Truth(b) == Q(IF b THEN 1 ELSE 0)
FloorOf(x) == Q(x[1] \div x[2])
TruncOf(x) == IF x[1] < 0 THEN Q(-((-x[1]) \div x[2])) ELSE FloorOf(x)

(* The functions that are only passed on                                   *)
Named ==
  <<"exponent", "exponentBase2", "reciprocal", "squareRoot", "logarithm", "logarithmBase10",
    "logarithmBase2", "erf", "reverseSquareRoot", "sigmoid", "sin", "sign", "cos", "tan",
    "asin", "acos", "atan", "sinh", "cosh", "tanh", "asinh", "acosh", "atanh", "isNaN", "isInfinite",
    "round", "bitwiseNOT", "power", "bitwiseAND", "bitwiseOR", "bitwiseXOR", "softMax", "leakyReLU">>
CodeOf(op) == CHOOSE i \in DOMAIN Named : Named[i] = op
Some1(op, x) == Plus(x, Q(3 * CodeOf(op)))
Mixed(op, x, y) == Sum2(Sum2(x, Product2(Q(2), y)), Q(3 * CodeOf(op)))
Some2(op, x, y) == Normal(Mixed(op, x, y))

Unary(op, x) ==
  CASE op = "negative" -> Negated(x)
    [] op = "absolute" -> IF x[1] < 0 THEN Negated(x) ELSE x
    [] op = "floor" -> FloorOf(x)
    [] op = "ceil" -> Q(-((-x[1]) \div x[2]))
    [] op = "truncate" -> TruncOf(x)
    [] op = "not" -> Truth(x[1] = 0)
    [] op = "reLU" -> IF x[1] < 0 THEN Q(0) ELSE x
    [] OTHER -> Some1(op, x)

Comparisons == {"equal", "notEqual", "greaterThanOrEqualTo", "greaterThan", "lessThanOrEqualTo",
                "lessThan", "logicalAND", "logicalOR", "logicalXOR"}

Raw(op, x, y) ==
  CASE op = "addition" -> Sum2(x, y)
    [] op = "subtraction" -> Sum2(x, Negated(y))
    [] op = "multiplication" -> Product2(x, y)
    [] op = "division" -> Product2(x, Inverted(y))
    [] op = "minimum" -> IF Below(y, x) THEN y ELSE x
    [] op = "maximum" -> IF Below(x, y) THEN y ELSE x
    [] op = "equal" -> Truth(Equal(x, y))
    [] op = "notEqual" -> Truth(~Equal(x, y))
    [] op = "greaterThanOrEqualTo" -> Truth(~Below(x, y))
    [] op = "greaterThan" -> Truth(Below(y, x))
    [] op = "lessThanOrEqualTo" -> Truth(~Below(y, x))
    [] op = "lessThan" -> Truth(Below(x, y))
    [] op = "logicalAND" -> Truth(x[1] # 0 /\ y[1] # 0)
    [] op = "logicalOR" -> Truth(x[1] # 0 \/ y[1] # 0)
    [] op = "logicalXOR" -> Truth((x[1] # 0) # (y[1] # 0))
    [] OTHER -> Mixed(op, x, y)
Binary(op, x, y) == Normal(Raw(op, x, y))

-----------------------------------------------------------------------------
(* The element of a set of one, computed once                              *)
The(S) == CHOOSE x \in S : TRUE

(* Shapes and coordinates: dimensions count from 1, positions from 0.  The *)
(* axes the library takes count from 0, and negative ones from the end.    *)
Coords(shape) ==
  FoldLeft(LAMBDA cs, n : {Append(c, k) : c \in cs, k \in 0..(n - 1)}, {<<>>}, shape)

(* (Joined with the empty function the values are computed once.)          *)
Tensor(type, shape, Value(_)) ==
  [type |-> type, shape |-> shape, at |-> [c \in Coords(shape) |-> Value(c)] @@ <<>>]

Rank(t) == Len(t.shape)
Axis(t, axis) == IF axis < 0 THEN Rank(t) + axis + 1 ELSE axis + 1
Isfloating(t) == t.type \in {"Float16", "Float32"}

Elements(shape) == FoldLeft(LAMBDA n, m : n * m, 1, shape)
Flat(shape, c) == FoldLeft(LAMBDA n, d : n * shape[d] + c[d], 0, [d \in DOMAIN shape |-> d])
Unflat(shape, k) ==
  [d \in DOMAIN shape |-> (k \div Elements(SubSeq(shape, d + 1, Len(shape)))) % shape[d]]

BroadcastShape(a, b) ==
  LET n == IF Len(a) > Len(b) THEN Len(a) ELSE Len(b)
      From(s, d) == IF d <= n - Len(s) THEN 1 ELSE s[d - (n - Len(s))]
  IN [d \in 1..n |-> IF From(a, d) = 1 THEN From(b, d) ELSE From(a, d)]

(* The element a tensor shows at a coordinate of a shape it broadcasts to  *)
Shown(t, c) ==
  t.at[[d \in DOMAIN t.shape |-> IF t.shape[d] = 1 THEN 0 ELSE c[Len(c) - Rank(t) + d]]]

constant(type, shape, v) == Tensor(type, shape, LAMBDA c : v)
scalar(type, v) == constant(type, <<1>>, v)
castTensor(t, type) ==
  Tensor(type, t.shape,
         LAMBDA c : CASE type = "Bool" -> Truth(t.at[c][1] # 0)
                      [] type \in {"Int8", "Int16", "Int32", "Int64"} -> TruncOf(t.at[c])
                      [] OTHER -> t.at[c])
unary(op, t) ==
  Tensor(IF op \in {"not", "isNaN", "isInfinite"} THEN "Bool" ELSE t.type, t.shape,
         LAMBDA c : Unary(op, t.at[c]))
binary(op, a, b) ==
  Tensor(IF op \in Comparisons THEN "Bool" ELSE a.type, BroadcastShape(a.shape, b.shape),
         LAMBDA c : Binary(op, Shown(a, c), Shown(b, c)))
select(p, a, b) ==
  Tensor(a.type, BroadcastShape(p.shape, BroadcastShape(a.shape, b.shape)),
         LAMBDA c : IF Shown(p, c)[1] # 0 THEN Shown(a, c) ELSE Shown(b, c))

reshape(t, shape) == Tensor(t.type, shape, LAMBDA c : t.at[Unflat(t.shape, Flat(shape, c))])
broadcast(t, shape) == Tensor(t.type, shape, LAMBDA c : Shown(t, c))
Swapped(s, i, j) == [d \in DOMAIN s |-> CASE d = i -> s[j] [] d = j /\ d # i -> s[i] [] OTHER -> s[d]]
transpose(t, a, b) ==
  LET i == Axis(t, a)
      j == Axis(t, b)
  IN Tensor(t.type, Swapped(t.shape, i, j), LAMBDA c : t.at[Swapped(c, i, j)])
expandDims(t, axis) ==
  LET i == IF axis < 0 THEN Rank(t) + axis + 2 ELSE axis + 1
  IN reshape(t, SubSeq(t.shape, 1, i - 1) \o <<1>> \o SubSeq(t.shape, i, Rank(t)))
squeeze(t, axes) ==
  LET gone == {Axis(t, axes[i]) : i \in DOMAIN axes}
      kept == SetToSortSeq((DOMAIN t.shape) \ gone, <)
  IN reshape(t, [d \in DOMAIN kept |-> t.shape[kept[d]]])
concat(ts, axis) ==
  LET i == Axis(ts[1], axis)
      Before(k) == FoldLeft(LAMBDA n, j : n + ts[j].shape[i], 0, [j \in 1..(k - 1) |-> j])
      shape == [ts[1].shape EXCEPT ![i] = Before(Len(ts) + 1)]
      Owner(c) == CHOOSE k \in DOMAIN ts : Before(k) <= c[i] /\ c[i] < Before(k + 1)
  IN Tensor(ts[1].type, shape, LAMBDA c : ts[Owner(c)].at[[c EXCEPT ![i] = @ - Before(Owner(c))]])

(* Ends and starts below zero count from the end, and ends are clipped.    *)
Placed(n, k) == LET p == IF k < 0 THEN k + n ELSE k IN IF p < 0 THEN 0 ELSE IF p > n THEN n ELSE p
sliceStrided(t, starts, ends, steps) ==
  LET Start(d) == Placed(t.shape[d], starts[d])
      Count(d) == LET m == Placed(t.shape[d], ends[d]) - Start(d)
                  IN IF m <= 0 THEN 0 ELSE ((m - 1) \div steps[d]) + 1
  IN Tensor(t.type, [d \in DOMAIN t.shape |-> Count(d)],
            LAMBDA c : t.at[[d \in DOMAIN c |-> Start(d) + c[d] * steps[d]]])
slice(t, axis, start, length) ==
  LET i == Axis(t, axis)
      from == Placed(t.shape[i], start)
  IN Tensor(t.type, [t.shape EXCEPT ![i] = length], LAMBDA c : t.at[[c EXCEPT ![i] = @ + from]])
split(t, sizes, axis) ==
  [k \in DOMAIN sizes |-> slice(t, axis, FoldLeft(LAMBDA n, m : n + m, 0, SubSeq(sizes, 1, k - 1)), sizes[k])]
pad(t, left, right, v) ==
  Tensor(t.type, [d \in DOMAIN t.shape |-> left[d] + t.shape[d] + right[d]],
         LAMBDA c : LET b == [d \in DOMAIN c |-> c[d] - left[d]]
                    IN IF b \in DOMAIN t.at THEN t.at[b] ELSE v)
coordinateAlongAxis(n) == Tensor("Int32", <<n>>, LAMBDA c : Q(c[1]))
-----------------------------------------------------------------------------
(* Indexing: the last update of an element is the one that stays.          *)
gather(t, indices, axis) ==
  LET i == Axis(t, axis)
      n == Rank(indices)
      shape == SubSeq(t.shape, 1, i - 1) \o indices.shape \o SubSeq(t.shape, i + 1, Rank(t))
  IN Tensor(t.type, shape,
            LAMBDA c : t.at[SubSeq(c, 1, i - 1) \o <<indices.at[SubSeq(c, i, i + n - 1)][1]>>
                            \o SubSeq(c, i + n, Len(c))])
Scattered(data, updates, Target(_)) ==
  Tensor(data.type, data.shape,
         LAMBDA c : LET of == {u \in DOMAIN updates.at : Target(u) = c}
                    IN IF of = {} THEN data.at[c]
                       ELSE updates.at[CHOOSE u \in of : \A v \in of :
                              Flat(updates.shape, v) <= Flat(updates.shape, u)])
scatter(data, updates, indices, axis) ==
  LET i == Axis(data, axis) IN Scattered(data, updates, LAMBDA u : [u EXCEPT ![i] = indices.at[<<@>>][1]])
scatterAlongAxis(data, updates, indices, axis) ==
  LET i == Axis(data, axis) IN Scattered(data, updates, LAMBDA u : [u EXCEPT ![i] = indices.at[u][1]])

-----------------------------------------------------------------------------
(* Sums over the places a result is computed from                          *)
SumOf(S, Value(_)) == FoldSet(LAMBDA x, acc : Plus(acc, Value(x)), Q(0), S)

(* of tensors with the same leading dimensions, k in number                *)
BatchedProduct(a, b, k) ==
  Tensor(a.type, [a.shape EXCEPT ![k + 2] = b.shape[k + 2]],
         LAMBDA c : SumOf(0..(a.shape[k + 2] - 1),
                          LAMBDA j : Times(a.at[[c EXCEPT ![k + 2] = j]], b.at[[c EXCEPT ![k + 1] = j]])))
Leading(t) == SubSeq(t.shape, 1, Rank(t) - 2)
WithLeading(t, lead) == broadcast(t, lead \o SubSeq(t.shape, Rank(t) - 1, Rank(t)))
matmul(a, b) ==
  The({BatchedProduct(WithLeading(a, lead), WithLeading(b, lead), Len(lead)) :
         lead \in {BroadcastShape(Leading(a), Leading(b))}})

(* Windows: d gives the strides, dilations and paddings of both axes       *)
Extent(n, k, step, dilation, padding) == ((n + padding - dilation * (k - 1) - 1) \div step) + 1
At(c, y, x, d, ky, kx) ==
  <<c[1], c[2], y * d.stride_y + ky * d.dilation_y - d.padding_top,
    x * d.stride_x + kx * d.dilation_x - d.padding_left>>
Planes(t, kh, kw, d) ==
  <<Extent(t.shape[3], kh, d.stride_y, d.dilation_y, d.padding_top + d.padding_bottom),
    Extent(t.shape[4], kw, d.stride_x, d.dilation_x, d.padding_left + d.padding_right)>>
Padded(t, p) == IF p \in DOMAIN t.at THEN t.at[p] ELSE Q(0)

convolution2D(t, weights, d) ==   \* NCHW by HWIO
  LET kh == weights.shape[1]
      kw == weights.shape[2]
      I == weights.shape[3]
      O == weights.shape[4]
  IN Tensor(t.type, <<t.shape[1], O>> \o Planes(t, kh, kw, d),
            LAMBDA c : LET group == c[2] \div (O \div d.groups)
                       IN SumOf((0..(I - 1)) \X (0..(kh - 1)) \X (0..(kw - 1)),
                                LAMBDA k : Times(Padded(t, At(<<c[1], group * I + k[1]>>, c[3], c[4], d, k[2], k[3])),
                                                 weights.at[<<k[2], k[3], k[1], c[2]>>])))
depthwiseConvolution3D(t, weights, d) ==   \* one filter per channel, the channels on axis -3
  LET kh == weights.shape[3]
      kw == weights.shape[4]
  IN Tensor(t.type, SubSeq(t.shape, 1, 2) \o Planes(t, kh, kw, d),
            LAMBDA c : SumOf((0..(kh - 1)) \X (0..(kw - 1)),
                             LAMBDA k : Times(Padded(t, At(c, c[3], c[4], d, k[1], k[2])),
                                              weights.at[<<0, c[2], k[1], k[2]>>])))

WindowOf(t, c, d) ==
  {p \in {At(c, c[3], c[4], d, k[1], k[2]) : k \in (0..(d.kernel_height - 1)) \X (0..(d.kernel_width - 1))} :
     p \in DOMAIN t.at}
maxPooling2D(t, d) ==
  LET shape == SubSeq(t.shape, 1, 2) \o Planes(t, d.kernel_height, d.kernel_width, d)
      Best(c) == CHOOSE p \in WindowOf(t, c, d) : \A q \in WindowOf(t, c, d) :
                   Below(t.at[q], t.at[p]) \/ (Equal(t.at[q], t.at[p]) /\ Flat(t.shape, p) <= Flat(t.shape, q))
  IN << Tensor(t.type, shape, LAMBDA c : t.at[Best(c)]),
        Tensor("Int32", shape, LAMBDA c : Q(Best(c)[3] * t.shape[4] + Best(c)[4])) >>
avgPooling2D(t, d, includeZeroPad) ==
  Tensor(t.type, SubSeq(t.shape, 1, 2) \o Planes(t, d.kernel_height, d.kernel_width, d),
         LAMBDA c : Over(SumOf(WindowOf(t, c, d), LAMBDA p : t.at[p]),
                         Q(IF includeZeroPad THEN d.kernel_height * d.kernel_width
                           ELSE Cardinality(WindowOf(t, c, d)))))

(* Reductions keep the axes they reduce.                                   *)
Reduced(t, axes) == {Axis(t, axes[i]) : i \in DOMAIN axes}
Section(t, c, dims) == {p \in DOMAIN t.at : \A d \in DOMAIN p : d \notin dims => p[d] = c[d]}
mean(t, axes) ==
  LET dims == Reduced(t, axes)
  IN Tensor(t.type, [d \in DOMAIN t.shape |-> IF d \in dims THEN 1 ELSE t.shape[d]],
            LAMBDA c : LET s == Section(t, c, dims)
                       IN Over(SumOf(s, LAMBDA p : t.at[p]), Q(Cardinality(s))))
variance(t, means, axes) ==
  The({mean(binary("multiplication", off, off), axes) : off \in {binary("subtraction", t, means)}})
normalization(t, means, var, gamma, beta, eps) ==
  Tensor(t.type, t.shape,
         LAMBDA c : Plus(Times(Shown(gamma, c),
                               Times(Minus(t.at[c], Shown(means, c)),
                                     Some1("reverseSquareRoot", Plus(Shown(var, c), eps)))),
                         Shown(beta, c)))
softMax(t, axis) ==   \* any function of an element and of the sum of its row
  Tensor(t.type, t.shape,
         LAMBDA c : Some2("softMax", t.at[c], SumOf(Section(t, c, {Axis(t, axis)}), LAMBDA p : t.at[p])))
depthToSpace2D(t, block) ==   \* on the last three axes, in the order of pixel_shuffle
  LET n == Rank(t)
  IN Tensor(t.type, [d \in DOMAIN t.shape |-> IF d = n - 2 THEN t.shape[d] \div (block * block)
                                              ELSE IF d > n - 2 THEN t.shape[d] * block ELSE t.shape[d]],
            LAMBDA c : t.at[[c EXCEPT ![n - 2] = @ * block * block + (c[n - 1] % block) * block + (c[n] % block),
                                      ![n - 1] = @ \div block, ![n] = @ \div block]])
dequantize(t, scales, zero, type) ==   \* one scale per row and group of columns
  Tensor(type, t.shape,
         LAMBDA c : Times(Minus(t.at[c], zero),
                          scales.at[<<c[1], c[2] \div (t.shape[2] \div scales.shape[2])>>]))

-----------------------------------------------------------------------------
(* The graph the MPS delegate builds from a serialized one, from           *)
(* backends/apple/mps/runtime/MPSGraphBuilder.mm, MPSDelegateHeader.mm and *)
(* operations/*.mm.                                                        *)
(*                                                                         *)
(* A node has its kind, the ids it reads (-1 for an optional operand that  *)
(* is absent), the ids it writes and its attributes.  A builder g holds    *)
(* the serialized graph, idToMPSGraphTensor (at every id at most one       *)
(* tensor, nil is <<>>), the version of the system and the error that      *)
(* ended the build; "Abort" ends the process.                              *)

A(g, n, i) == g.tensors[n.ins[i]][1]
Put(g, id, t) == [g EXCEPT !.tensors[id] = <<t>>]
PutNil(g, id) == [g EXCEPT !.tensors[id] = <<>>]
Result(g, n, t) == Put(g, n.outs[1], t)
Fail(g, error) == [g EXCEPT !.err = error]
Has(n, i) == n.ins[i] # -1

is_macos_13_or_newer(g, version) == g.macos >= version

-----------------------------------------------------------------------------
(* OperationUtils.mm                                                       *)
getMPSDataType(type) == IF type = "Float64" THEN "Float32" ELSE type

(* A shape without dimensions has one, of size 1.                          *)
getMPSShape(dims) == IF dims = <<>> THEN <<1>> ELSE dims

numel_of(shape) == Elements(shape)

getScalarType(type) ==
  CASE type = "Float16" -> "Half"
    [] type = "Float32" -> "Float"
    [] type = "Int8" -> "Char"
    [] type = "Int16" -> "Short"
    [] type = "Int32" -> "Int"
    [] type = "Int64" -> "Long"
    [] type = "Bool" -> "Bool"

getMPSScalarType(type) == IF type = "Float" THEN "Float32" ELSE "Float16"
CastableTo(type) == type \in {"Float", "Half"}   \* getMPSScalarType aborts on the others

getMinMaxValues(n) == IF n.min_max = <<>> THEN << <<>>, <<>> >> ELSE n.min_max   \* <<>> is infinite

getConstantData(g, id) == g.graph.data[id]

(* permuteTensor exchanges two axes of the result at a time, following     *)
(* where every axis of the input is.                                       *)
permuteTensor(t, order) ==
  LET Step(acc, i) ==
        LET j == CHOOSE j \in DOMAIN acc.order : acc.order[j] = order[i]
        IN [t |-> transpose(acc.t, i - 1, j - 1), order |-> Swapped(acc.order, i, j)]
  IN FoldLeft(Step, [t |-> t, order |-> [i \in DOMAIN t.shape |-> i - 1]], [i \in DOMAIN order |-> i]).t

-----------------------------------------------------------------------------
(* UnaryOps.mm                                                             *)
UnaryOps ==
  [Exp |-> "exponent", Exp2 |-> "exponentBase2", Reciprocal |-> "reciprocal", Sqrt |-> "squareRoot",
   Neg |-> "negative", Log |-> "logarithm", Log10 |-> "logarithmBase10", Log2 |-> "logarithmBase2",
   Erf |-> "erf", Floor |-> "floor", Ceil |-> "ceil", Rsqrt |-> "reverseSquareRoot",
   Sigmoid |-> "sigmoid", Sin |-> "sin", Sign |-> "sign", Cos |-> "cos", Tan |-> "tan",
   Abs |-> "absolute", Asin |-> "asin", Acos |-> "acos", Atan |-> "atan", Sinh |-> "sinh",
   Cosh |-> "cosh", Tanh |-> "tanh", Asinh |-> "asinh", Acosh |-> "acosh", Atanh |-> "atanh",
   Isnan |-> "isNaN", Isinf |-> "isInfinite", Round |-> "round", LogicalNot |-> "not"]

mpsUnaryOp(g, n, graph_op) == Result(g, n, unary(graph_op, A(g, n, 1)))

mpsBitwiseNotOp(g, n) ==
  CASE A(g, n, 1).type = "Bool" -> mpsUnaryOp(g, n, "not")
    [] A(g, n, 1).type # "Bool" /\ ~is_macos_13_or_newer(g, 13) -> Fail(g, "NotSupported")
    [] OTHER -> mpsUnaryOp(g, n, "bitwiseNOT")

SQRT1_2 == <<7, 10>>

mpsNormCdfOp(g, n) ==
  LET type == A(g, n, 1).type
  IN Result(g, n,
       binary("multiplication",
         binary("addition", unary("erf", binary("multiplication", A(g, n, 1), scalar(type, SQRT1_2))),
                scalar(type, Q(1))),
         scalar(type, <<1, 2>>)))

-----------------------------------------------------------------------------
(* BinaryOps.mm.  Both operands are cast to the promoted type; a cast to a *)
(* type other than Float and Half aborts.                                  *)
Common(g, n) == promoteTypes(getScalarType(A(g, n, 1).type), getScalarType(A(g, n, 2).type))
CanCast(g, n) ==
  CastableTo(Common(g, n)) \/ \A i \in 1..2 : getScalarType(A(g, n, i).type) = Common(g, n)
CastOperand(g, n, i) ==
  IF getScalarType(A(g, n, i).type) = Common(g, n) THEN A(g, n, i)
  ELSE castTensor(A(g, n, i), getMPSScalarType(Common(g, n)))

binaryOpTensor(g, n, t) == IF CanCast(g, n) THEN Result(g, n, t) ELSE Fail(g, "Abort")

AlphaOps == [Add |-> "addition", Sub |-> "subtraction"]
BinaryOps ==
  [Mul |-> "multiplication", Pow |-> "power", Minimum |-> "minimum", Eq |-> "equal", Ne |-> "notEqual",
   Ge |-> "greaterThanOrEqualTo", Gt |-> "greaterThan", Le |-> "lessThanOrEqualTo", Lt |-> "lessThan"]
BitwiseOps == [BitwiseAnd |-> "AND", BitwiseOr |-> "OR", BitwiseXor |-> "XOR"]
Logical == [AND |-> "logicalAND", OR |-> "logicalOR", XOR |-> "logicalXOR"]
Bitwise == [AND |-> "bitwiseAND", OR |-> "bitwiseOR", XOR |-> "bitwiseXOR"]

Scaled(t, by) == IF by = Q(1) THEN t ELSE binary("multiplication", t, scalar(t.type, by))

mpsAlphaOp(g, n, graph_op) ==
  binaryOpTensor(g, n, binary(graph_op, CastOperand(g, n, 1), Scaled(CastOperand(g, n, 2), n.alpha)))

mpsBinaryOp(g, n, graph_op) ==
  binaryOpTensor(g, n, binary(graph_op, CastOperand(g, n, 1), CastOperand(g, n, 2)))

mpsBitwiseOp(g, n, graph_op) ==
  IF ~is_macos_13_or_newer(g, 13) THEN Fail(g, "NotSupported")
  ELSE mpsBinaryOp(g, n, IF CastOperand(g, n, 1).type = "Bool" THEN Logical[graph_op] ELSE Bitwise[graph_op])

mpsTruncTensor(g, t) ==
  CASE ~Isfloating(t) -> t
    [] Isfloating(t) /\ ~is_macos_13_or_newer(g, 13) ->
         select(binary("lessThan", t, scalar(t.type, Q(0))),
                unary("ceil", t), unary("floor", t))
    [] OTHER -> unary("truncate", t)

(* Fmod and Remainder subtract the rounded quotient times the divisor; an  *)
(* integer quotient to be rounded is computed in Float32 and stays there.  *)
Rounded(g, mode, quotient) ==
  CASE mode = "none" \/ ~Isfloating(quotient) -> quotient
    [] mode = "trunc" /\ Isfloating(quotient) -> mpsTruncTensor(g, quotient)
    [] OTHER -> unary("floor", quotient)

Remaindered(op, mode, p, s, rounded) ==
  IF <<op, mode>> \in {<<"Fmod", "trunc">>, <<"Remainder", "floor">>} /\ Isfloating(rounded)
  THEN binary("subtraction", p, binary("multiplication", rounded, s)) ELSE rounded

DivisionIn(g, op, mode, p, s) == Remaindered(op, mode, p, s, Rounded(g, mode, binary("division", p, s)))

DivFunction(g, op, mode, a, b) ==
  LET Floated(t) == IF ~Isfloating(a) /\ mode \in {"floor", "trunc"} THEN castTensor(t, "Float32") ELSE t
  IN DivisionIn(g, op, mode, Floated(a), Floated(b))

divModeTemplate(g, n, mode) ==
  IF mode = "trunc" /\ A(g, n, 1).type = "Float16" THEN Fail(g, "Abort")
  ELSE binaryOpTensor(g, n, DivFunction(g, n.kind, mode, CastOperand(g, n, 1), CastOperand(g, n, 2)))

DivOps == [Div |-> "none", Fmod |-> "trunc", Remainder |-> "floor"]
mpsDivOp(g, n) == divModeTemplate(g, n, IF n.rounding_mode = "none" THEN DivOps[n.kind] ELSE n.rounding_mode)

-----------------------------------------------------------------------------
(* ActivationOps.mm and ClampOps.mm                                        *)
mpsHardTanhOp(g, n) ==
  LET t == A(g, n, 1)
      low == constant(t.type, t.shape, n.min_value)
      high == constant(t.type, t.shape, n.max_value)
  IN Result(g, n, select(binary("greaterThan", t, high), high, select(binary("lessThan", t, low), low, t)))

mpsReLUOp(g, n) == Result(g, n, unary("reLU", A(g, n, 1)))

GatedBy(g, n, h) ==
  IF h.err # "Ok" THEN Fail(g, "Internal")
  ELSE Result(g, n, binary("multiplication", h.tensors[n.outs[1]][1], A(g, n, 1)))

mpsGELUOp(g, n) ==
  GatedBy(g, n, IF n.approximate = "tanh" THEN mpsUnaryOp(g, n, "tanh") ELSE mpsNormCdfOp(g, n))

mpsLeakyReLUOp(g, n) ==
  LET t == A(g, n, 1)
  IN Result(g, n, Tensor(t.type, t.shape, LAMBDA c : Some2("leakyReLU", t.at[c], n.negative_slope)))

mpsSoftmaxOp(g, n) ==
  IF n.half_to_float THEN Fail(g, "Abort") ELSE Result(g, n, softMax(A(g, n, 1), n.dim))

mpsLogSoftmaxOp(g, n) ==
  IF n.half_to_float THEN Fail(g, "Abort")
  ELSE Result(g, n, unary("logarithm", softMax(A(g, n, 1), n.dim)))

BoundBy(op, t, bound) == IF bound = <<>> THEN t ELSE binary(op, t, constant(t.type, t.shape, bound[1]))

(* Without a finite bound nothing is put at the output.                    *)
mpsClampOp(g, n) ==
  IF \A i \in 1..2 : getMinMaxValues(n)[i] = <<>> THEN g
  ELSE Result(g, n, BoundBy("minimum", BoundBy("maximum", A(g, n, 1), getMinMaxValues(n)[1]),
                            getMinMaxValues(n)[2]))

mpsWhereOp(g, n) ==
  LET condition == IF A(g, n, 1).type = "Bool" THEN A(g, n, 1) ELSE castTensor(A(g, n, 1), "Bool")
  IN Result(g, n, select(condition, A(g, n, 2), A(g, n, 3)))

-----------------------------------------------------------------------------
(* ConstantOps.mm, RangeOps.mm, LinearAlgebra.mm and QuantDequant.mm       *)
mpsConstantOp(g, id) ==
  LET v == g.graph.values[id]
      shape == getMPSShape(v.dims)
      data == getConstantData(g, id)
  IN IF v.constant_buffer_size > 0
     THEN Put(g, id, Tensor(getMPSDataType(v.type), shape, LAMBDA c : data[Flat(shape, c) + 1]))
     ELSE Fail(g, "Abort")

mpsFullOp(g, n) ==
  IF numel_of(n.shape) = 0 THEN PutNil(g, n.outs[1])
  ELSE Result(g, n, constant(getMPSDataType(n.dtype), getMPSShape(n.shape), n.fill_value))

mpsFullLikeOp(g, n) == Result(g, n, constant(getMPSDataType(n.dtype), A(g, n, 1).shape, n.fill_value))

mpsArangeOp(g, n) ==
  LET type == getMPSDataType(n.dtype)
      steps == Over(Minus(n.end, n.start), n.step)
      count == -((-steps[1]) \div steps[2])   \* std::ceil
      coords == castTensor(coordinateAlongAxis(count), type)
  IN Result(g, n, binary("addition", binary("multiplication", coords, scalar(type, n.step)),
                         scalar(type, n.start)))

mpsMatMulOp(g, n) == Result(g, n, matmul(A(g, n, 1), A(g, n, 2)))

mpsAddmmOp(g, n) ==
  Result(g, n, binary("addition", Scaled(matmul(A(g, n, 2), A(g, n, 3)), n.alpha), Scaled(A(g, n, 1), n.beta)))

mpsDequantizePerChannelGroupOp(g, n) ==
  IF ~is_macos_13_or_newer(g, 15) THEN Fail(g, "NotImplemented")
  ELSE Result(g, n, dequantize(A(g, n, 1), A(g, n, 2), Q(0), "Float16"))
-----------------------------------------------------------------------------
(* IndexingOps.mm.  Advanced indexing is built for exactly one index; the  *)
(* Metal kernels do not exist.                                             *)
ToInt32(t) == IF t.type = "Int32" THEN t ELSE castTensor(t, "Int32")

indexSelect(t, axis, index) == gather(t, ToInt32(index), axis)

mpsIndexSelectOp(g, n) == Result(g, n, indexSelect(A(g, n, 1), n.dim, A(g, n, 2)))

EmbeddingRows(padding_idx, indices, rows) ==
  IF padding_idx = -1 THEN rows
  ELSE select(expandDims(binary("notEqual", indices, scalar(indices.type, Q(padding_idx))), -1),
              rows, constant(rows.type, rows.shape, Q(0)))

mpsEmbeddingOp(g, n) ==
  Result(g, n, EmbeddingRows(n.padding_idx, A(g, n, 2), indexSelect(A(g, n, 1), 0, A(g, n, 2))))

ValidIndices(n) == {i \in DOMAIN n.indices : n.indices[i] # -1}

mpsIndexTensorOp(g, n) ==
  IF g.metal_kernel \/ Cardinality(ValidIndices(n)) # 1 THEN Fail(g, "Abort")
  ELSE LET i == CHOOSE i \in ValidIndices(n) : TRUE
       IN Result(g, n, gather(A(g, n, 1), g.tensors[n.indices[i]][1], i - 1))

mpsIndexPutOp(g, n) ==
  IF g.metal_kernel \/ Cardinality(ValidIndices(n)) # 1 THEN Fail(g, "Abort")
  ELSE LET i == CHOOSE i \in ValidIndices(n) : TRUE
           updates == IF n.values_shape # <<>> THEN broadcast(A(g, n, 2), n.values_shape) ELSE A(g, n, 2)
       IN Result(g, n, scatter(A(g, n, 1), updates, g.tensors[n.indices[i]][1], i - 1))

mpsScatterOp(g, n) == Result(g, n, scatterAlongAxis(A(g, n, 1), A(g, n, 3), A(g, n, 2), n.dim))

-----------------------------------------------------------------------------
(* ReduceOps.mm and ShapeOps.mm                                            *)
mpsMeanOp(g, n) ==
  LET t == A(g, n, 1)
      dims == Reverse([i \in DOMAIN n.dims |-> IF n.dims[i] < 0 THEN Rank(t) + n.dims[i] ELSE n.dims[i]])
  IN Result(g, n, IF n.keep_dims THEN mean(t, dims) ELSE squeeze(mean(t, dims), dims))

mpsPermuteOp(g, n) ==
  IF Rank(A(g, n, 1)) # Len(n.perm) THEN PutNil(g, n.outs[1])
  ELSE Result(g, n, permuteTensor(A(g, n, 1), n.perm))

mpsViewOp(g, n) == Result(g, n, reshape(A(g, n, 1), getMPSShape(n.shape)))

mpsExpandOp(g, n) ==
  LET t == A(g, n, 1)
  IN Result(g, n, broadcast(t, [d \in DOMAIN t.shape |-> IF n.shape[d] = -1 THEN t.shape[d] ELSE n.shape[d]]))

mpsCatOp(g, n) ==
  LET present == SelectSeq(n.ins, LAMBDA id : g.tensors[id] # <<>>)
  IN Result(g, n, concat([i \in DOMAIN present |-> g.tensors[present[i]][1]], n.dim))

(* An empty list of axes is turned into the axis 1, as a shape would be.   *)
mpsSqueezeOp(g, n) == Result(g, n, squeeze(A(g, n, 1), getMPSShape(n.dims)))

mpsUnsqueezeOp(g, n) == Result(g, n, expandDims(A(g, n, 1), n.dim))

mpsSelectOp(g, n) == Result(g, n, squeeze(slice(A(g, n, 1), n.dim, n.index, 1), <<n.dim>>))

mpsPixelShuffleOp(g, n) ==
  LET t == A(g, n, 1)
      r == n.upscale_factor
  IN CASE Rank(t) < 3 -> Fail(g, "Internal")
       [] Rank(t) >= 3 /\ r = 1 -> Result(g, n, t)
       [] Rank(t) >= 3 /\ r # 1 /\ t.shape[Rank(t) - 2] % (r * r) # 0 -> Fail(g, "Internal")
       [] OTHER -> Result(g, n, depthToSpace2D(t, r))

mpsSliceOp(g, n) ==
  LET t == A(g, n, 1)
      i == Axis(t, n.dim)
  IN Result(g, n, sliceStrided(t, [[d \in DOMAIN t.shape |-> 0] EXCEPT ![i] = n.start],
                               [t.shape EXCEPT ![i] = n.end],
                               [[d \in DOMAIN t.shape |-> 1] EXCEPT ![i] = n.step]))

mpsSplitWithSizesOp(g, n) ==
  LET parts == split(A(g, n, 1), n.split_sizes, n.dim)
  IN FoldLeft(LAMBDA h, k : Put(h, n.outs[k], parts[k]), g, [k \in DOMAIN n.outs |-> k])

mpsCastOp(g, n) == Result(g, n, castTensor(A(g, n, 1), getMPSDataType(n.dtype)))

-----------------------------------------------------------------------------
(* ConvolutionOps.mm.  A convolution in one dimension is one in two with   *)
(* an axis of size 1, which the result loses again.                        *)
BiasPlane(bias) == expandDims(expandDims(expandDims(bias, 0), 2), 3)
WithBias(g, n, t) == IF Has(n, 3) THEN binary("addition", t, BiasPlane(A(g, n, 3))) ELSE t

mpsDepthwiseConv2DOp(g, n) ==
  IF Len(getMPSShape(g.graph.values[n.ins[2]].dims)) = 3 THEN Fail(g, "Abort")
  ELSE Result(g, n, WithBias(g, n, depthwiseConvolution3D(A(g, n, 1), transpose(A(g, n, 2), -3, -4), n.window)))

mpsConv2DOp(g, n) ==
  LET isConv1D == Rank(A(g, n, 2)) = 3
      Planar(t) == IF isConv1D THEN expandDims(t, 2) ELSE t
      Linear(t) == IF isConv1D THEN squeeze(t, <<2>>) ELSE t
  IN Result(g, n, Linear(WithBias(g, n,
       convolution2D(Planar(A(g, n, 1)), permuteTensor(Planar(A(g, n, 2)), <<2, 3, 1, 0>>), n.window))))

-----------------------------------------------------------------------------
(* NormalizationOps.mm.  Batch normalization puts both the variance and    *)
(* then the mean at its second output, and nothing at its third.           *)
mpsBatchNormOp(g, n) ==
  LET t == A(g, n, 1)
      shape == [d \in DOMAIN t.shape |-> IF d = 2 THEN t.shape[2] ELSE 1]
      Along(i) == reshape(A(g, n, i), shape)
  IN Put(Put(Put(g, n.outs[1], normalization(t, Along(2), Along(3), Along(4), Along(5), n.epsilon)),
             n.outs[2], A(g, n, 3)), n.outs[2], A(g, n, 2))

PutNormalized(g, n, means, variances) ==
  Put(Put(Put(g, n.outs[1], normalization(A(g, n, 1), means, variances, A(g, n, 2), A(g, n, 3), n.eps)),
          n.outs[2], means), n.outs[3], variances)

mpsLayerNormOp(g, n) ==
  LET t == A(g, n, 1)
      k == Len(n.normalized_shape)
      axes == [i \in 1..k |-> Rank(t) - k + i - 1]
  IN The({The({PutNormalized(g, n, means, variances) : variances \in {variance(t, means, axes)}}) :
            means \in {mean(t, axes)}})

-----------------------------------------------------------------------------
(* PoolingOps.mm.  The library has no divisor of its own: the average over *)
(* the whole window is scaled.                                             *)
mpsMaxPool2DWithIndicesOp(g, n) ==
  The({Put(Put(g, n.outs[1], pooled[1]), n.outs[2], pooled[2]) : pooled \in {maxPooling2D(A(g, n, 1), n.window)}})

mpsAvgPool2DOp(g, n) ==
  LET useDivisor == n.divisor_override # 0
      factor == <<n.window.kernel_height * n.window.kernel_width, n.divisor_override>>
      Redivided(t) == IF useDivisor THEN binary("multiplication", t, scalar("Float32", factor)) ELSE t
  IN Result(g, n, Redivided(avgPooling2D(A(g, n, 1), n.window, useDivisor \/ n.count_include_pad)))

-----------------------------------------------------------------------------
(* PadOps.mm.  The padding is listed from the last dimension; outputW and  *)
(* outputH are the sizes the code checks.                                  *)
padOutTemplate(g, n, padding, value) ==
  LET t == A(g, n, 1)
      pairs == Len(padding) \div 2
      rank == Rank(t)
      dims == IF rank > pairs + 1 THEN rank - 2 ELSE pairs   \* padding_dim once it is inflated
      At0(i) == IF i <= Len(padding) THEN padding[i] ELSE 0
      outputW == t.shape[rank] + padding[1] + padding[2]
      outputH == IF dims > 1 THEN t.shape[rank - 1] + At0(3) + At0(4) ELSE 0
      Side(d, side) == IF rank - d < pairs THEN padding[2 * (rank - d) + side] ELSE 0
  IN IF /\ Len(padding) \in {2, 4, 6}
        /\ rank >= pairs
        /\ outputW >= 1 \/ outputH >= dims - 1
     THEN Result(g, n, pad(t, [d \in DOMAIN t.shape |-> Side(d, 1)], [d \in DOMAIN t.shape |-> Side(d, 2)], value))
     ELSE Fail(g, "Abort")

mpsConstantPadNDOp(g, n) == padOutTemplate(g, n, n.pad, n.value)
-----------------------------------------------------------------------------
(* addNodeToMPSGraph.  The library throws when it is given nil; only       *)
(* concatenation leaves such operands out.                                 *)
HasNil(g, n) == n.kind # "Cat" /\ \E i \in DOMAIN n.ins : Has(n, i) /\ g.tensors[n.ins[i]] = <<>>

Dispatch(g, n) ==
  CASE n.kind \in DOMAIN UnaryOps -> mpsUnaryOp(g, n, UnaryOps[n.kind])
    [] n.kind \in DOMAIN AlphaOps -> mpsAlphaOp(g, n, AlphaOps[n.kind])
    [] n.kind \in DOMAIN BinaryOps -> mpsBinaryOp(g, n, BinaryOps[n.kind])
    [] n.kind \in DOMAIN BitwiseOps -> mpsBitwiseOp(g, n, BitwiseOps[n.kind])
    [] n.kind \in DOMAIN DivOps -> mpsDivOp(g, n)
    [] n.kind = "BitwiseNot" -> mpsBitwiseNotOp(g, n)
    [] n.kind = "HardTanh" -> mpsHardTanhOp(g, n)
    [] n.kind = "ReLU" -> mpsReLUOp(g, n)
    [] n.kind = "GELU" -> mpsGELUOp(g, n)
    [] n.kind = "LeakyReLU" -> mpsLeakyReLUOp(g, n)
    [] n.kind = "Softmax" -> mpsSoftmaxOp(g, n)
    [] n.kind = "LogSoftmax" -> mpsLogSoftmaxOp(g, n)
    [] n.kind = "Clamp" -> mpsClampOp(g, n)
    [] n.kind = "Where" -> mpsWhereOp(g, n)
    [] n.kind = "MatMul" -> mpsMatMulOp(g, n)
    [] n.kind = "Addmm" -> mpsAddmmOp(g, n)
    [] n.kind = "Full" -> mpsFullOp(g, n)
    [] n.kind = "FullLike" -> mpsFullLikeOp(g, n)
    [] n.kind = "IndexSelect" -> mpsIndexSelectOp(g, n)
    [] n.kind = "Embedding" -> mpsEmbeddingOp(g, n)
    [] n.kind = "IndexTensor" -> mpsIndexTensorOp(g, n)
    [] n.kind = "IndexPut" -> mpsIndexPutOp(g, n)
    [] n.kind = "Scatter" -> mpsScatterOp(g, n)
    [] n.kind = "Mean" -> mpsMeanOp(g, n)
    [] n.kind = "Permute" -> mpsPermuteOp(g, n)
    [] n.kind = "View" -> mpsViewOp(g, n)
    [] n.kind = "Expand" -> mpsExpandOp(g, n)
    [] n.kind = "Cat" -> mpsCatOp(g, n)
    [] n.kind = "Squeeze" -> mpsSqueezeOp(g, n)
    [] n.kind = "Unsqueeze" -> mpsUnsqueezeOp(g, n)
    [] n.kind = "Select" -> mpsSelectOp(g, n)
    [] n.kind = "Slice" -> mpsSliceOp(g, n)
    [] n.kind = "PixelShuffle" -> mpsPixelShuffleOp(g, n)
    [] n.kind = "SplitWithSizes" -> mpsSplitWithSizesOp(g, n)
    [] n.kind = "Cast" -> mpsCastOp(g, n)
    [] n.kind = "Conv2D" -> mpsConv2DOp(g, n)
    [] n.kind = "DepthwiseConv2D" -> mpsDepthwiseConv2DOp(g, n)
    [] n.kind = "BatchNorm" -> mpsBatchNormOp(g, n)
    [] n.kind = "LayerNorm" -> mpsLayerNormOp(g, n)
    [] n.kind = "MaxPool2DWithIndices" -> mpsMaxPool2DWithIndicesOp(g, n)
    [] n.kind = "AvgPool2D" -> mpsAvgPool2DOp(g, n)
    [] n.kind = "ConstantPadND" -> mpsConstantPadNDOp(g, n)
    [] n.kind = "Arange" -> mpsArangeOp(g, n)
    [] n.kind = "DequantizePerChannelGroup" -> mpsDequantizePerChannelGroupOp(g, n)
    [] OTHER -> Fail(g, "NotImplemented")

addNodeToMPSGraph(g, n) == IF HasNil(g, n) THEN Fail(g, "Abort") ELSE Dispatch(g, n)

-----------------------------------------------------------------------------
(* MPSDelegateHeader::Parse                                                *)
ParseHeader(buffer) ==
  CASE buffer.size < 30 -> "InvalidArgument"
    [] buffer.size >= 30 /\ buffer.magic # "MP00" -> "NotFound"
    [] OTHER -> "Ok"

(* MPSGraphBuilder.mm.  A placeholder stands for the data fed to it.       *)
NewBuilder(graph, macos) ==
  [graph |-> graph, macos |-> macos, metal_kernel |-> FALSE, err |-> "Ok",
   tensors |-> [id \in DOMAIN graph.values |-> <<>>]]

mpsGraphRankedPlaceholder(g, id, data) ==
  LET v == g.graph.values[id]
      shape == getMPSShape(v.dims)
  IN Put(g, id, Tensor(getMPSDataType(v.type), shape, LAMBDA c : data[Flat(shape, c) + 1]))

RECURSIVE AddPlaceholders(_, _, _)
AddPlaceholders(g, fed, i) ==
  IF i > Len(fed) THEN g
  ELSE The({AddPlaceholders(h, fed, i + 1) : h \in {mpsGraphRankedPlaceholder(g, g.graph.input_ids[i], fed[i])}})

RECURSIVE AddConstants(_, _)
AddConstants(g, ids) ==
  IF ids = <<>> \/ g.err # "Ok" THEN g
  ELSE The({AddConstants(h, Tail(ids)) : h \in {mpsConstantOp(g, ids[1])}})

RECURSIVE AddNodes(_, _)
AddNodes(g, nodes) ==
  IF nodes = <<>> \/ g.err # "Ok" THEN g
  ELSE The({AddNodes(h, Tail(nodes)) : h \in {addNodeToMPSGraph(g, nodes[1])}})

OutputsBuilt(g) ==
  IF g.err = "Ok" /\ \E i \in DOMAIN g.graph.output_ids : g.tensors[g.graph.output_ids[i]] = <<>>
  THEN Fail(g, "InvalidState") ELSE g

compileMPSGraph(g, fed) ==
  OutputsBuilt(AddNodes(AddConstants(AddPlaceholders(g, fed, 1), g.graph.constant_ids), g.graph.nodes))

(* Only one node can be a Metal kernel, and none of them is implemented.   *)
compileMetalKernel(g) ==
  IF Len(g.graph.nodes) # 1 \/ g.graph.constant_ids # <<>> THEN Fail(g, "DelegateInvalidCompatibility")
  ELSE AddNodes([g EXCEPT !.metal_kernel = TRUE], g.graph.nodes)

compileModel(buffer, macos, fed) ==
  LET g == NewBuilder(buffer.graph, macos)
  IN CASE ParseHeader(buffer) # "Ok" -> Fail(g, ParseHeader(buffer))
       [] ParseHeader(buffer) = "Ok" /\ buffer.identifier # "MP00" -> Fail(g, "DelegateInvalidCompatibility")
       [] ParseHeader(buffer) = "Ok" /\ buffer.identifier = "MP00" /\ g.graph.graph_type = "metal_kernel" ->
            compileMetalKernel(g)
       [] ParseHeader(buffer) = "Ok" /\ buffer.identifier = "MP00" /\ g.graph.graph_type = "mps_graph" ->
            compileMPSGraph(g, fed)
       [] OTHER -> Fail(g, "DelegateInvalidCompatibility")

-----------------------------------------------------------------------------
(* The MPS delegate at run time, from backends/apple/mps/runtime/          *)
(* MPSBackend.mm, MPSCompiler.mm, MPSExecutor.mm and MPSStream.mm, after   *)
(* what the graphs given to it mean.                                       *)

(* What a graph given to the MPS delegate means: the ATen operators, each  *)
(* defined by the value of every element of its result, against which the  *)
(* graph the delegate builds is compared.                                  *)

Elementwise(a, b, F(_, _)) ==
  Tensor(a.type, BroadcastShape(a.shape, b.shape), LAMBDA c : F(Shown(a, c), Shown(b, c)))
Each1(t, F(_)) == Tensor(t.type, t.shape, LAMBDA c : F(t.at[c]))
Least(x, y) == IF Below(x, y) THEN x ELSE y
Most(x, y) == IF Below(x, y) THEN y ELSE x
Magnitude(x) == <<IF x[1] < 0 THEN -x[1] ELSE x[1], x[2]>>

(* The remainders: of the sign of the dividend, and of the divisor         *)
Mod(x, y) == <<(x[1] * y[2]) % (y[1] * x[2]), x[2] * y[2]>>   \* for y > 0
FmodOf(x, y) ==
  IF x[1] < 0 THEN Negated(Mod(Magnitude(x), Magnitude(y))) ELSE Mod(x, Magnitude(y))
RemainderOf(x, y) == IF y[1] > 0 THEN Mod(x, y) ELSE Negated(Mod(Negated(x), Negated(y)))

Divided(op, mode, x, y) ==
  CASE op = "Fmod" -> FmodOf(x, y)
    [] op = "Remainder" -> RemainderOf(x, y)
    [] op = "Div" /\ mode = "none" -> Over(x, y)
    [] op = "Div" /\ mode = "floor" -> FloorOf(Over(x, y))
    [] op = "Div" /\ mode = "trunc" -> TruncOf(Over(x, y))

Bounded(x, low, high) ==
  LET up == IF low = <<>> THEN x ELSE Most(x, low[1]) IN IF high = <<>> THEN up ELSE Least(up, high[1])

(* Convolution by OIHW weights over any number of spatial dimensions: s, d *)
(* and p are the strides, the dilations and the paddings                   *)
Convolved(t, w, bias, s, d, p, groups) ==
  LET n == Rank(t) - 2
      perGroup == w.shape[1] \div groups
      Size(i) == ((t.shape[i + 2] + 2 * p[i] - d[i] * (w.shape[i + 2] - 1) - 1) \div s[i]) + 1
      Source(c, k) == <<c[1], (c[2] \div perGroup) * w.shape[2] + k[2]>>
                      \o [i \in 1..n |-> c[i + 2] * s[i] + k[i + 2] * d[i] - p[i]]
      Filter(c) == {k \in DOMAIN w.at : k[1] = c[2] /\ Source(c, k) \in DOMAIN t.at}
      Value(c) == SumOf(Filter(c), LAMBDA k : Times(t.at[Source(c, k)], w.at[k]))
  IN Tensor(t.type, <<t.shape[1], w.shape[1]>> \o [i \in 1..n |-> Size(i)],
            LAMBDA c : IF bias = <<>> THEN Value(c) ELSE Plus(Value(c), bias[1].at[<<c[2]>>]))

(* The average over a window: what is summed is inside the input           *)
Averaged(t, w, includePad, divisor) ==
  Tensor(t.type, SubSeq(t.shape, 1, 2) \o Planes(t, w.kernel_height, w.kernel_width, w),
         LAMBDA c : LET inside == WindowOf(t, c, w)
                    IN Over(SumOf(inside, LAMBDA q : t.at[q]),
                            Q(CASE divisor # 0 -> divisor
                                [] divisor = 0 /\ includePad -> w.kernel_height * w.kernel_width
                                [] OTHER -> Cardinality(inside))))

AverageOf(S, Value(_)) == Over(SumOf(S, Value), Q(Cardinality(S)))
Affine(x, mu, var, weight, bias, eps) ==
  Plus(Times(Times(Minus(x, mu), Some1("reverseSquareRoot", Plus(var, eps))), weight), bias)
Squared(x) == Times(x, x)
NormalizedBy(at, c, S, mu, weight, bias, eps) ==
  Affine(at[c], mu, AverageOf(S, LAMBDA p : Squared(Minus(at[p], mu))), weight, bias, eps)
Normalized(at, c, S, weight, bias, eps) ==
  The({NormalizedBy(at, c, S, mu, weight, bias, eps) : mu \in {AverageOf(S, LAMBDA p : at[p])}})

LayerNormed(t, k, weight, bias, eps) ==
  LET dims == (Rank(t) - k + 1)..Rank(t)
      Inner(c) == SubSeq(c, Rank(t) - k + 1, Rank(t))
  IN Tensor(t.type, t.shape,
            LAMBDA c : Normalized(t.at, c, Section(t, c, dims), weight.at[Inner(c)], bias.at[Inner(c)], eps))

BatchNormed(t, mu, var, weight, bias, eps) ==
  Tensor(t.type, t.shape,
         LAMBDA c : LET k == <<c[2]>> IN Affine(t.at[c], mu.at[k], var.at[k], weight.at[k], bias.at[k], eps))

PaddedBy(t, list, v) ==
  LET n == Rank(t)
      Lead(d) == IF 2 * (n - d) + 1 <= Len(list) THEN list[2 * (n - d) + 1] ELSE 0
      Trail(d) == IF 2 * (n - d) + 2 <= Len(list) THEN list[2 * (n - d) + 2] ELSE 0
      Inner(c) == [d \in DOMAIN c |-> c[d] - Lead(d)]
  IN Tensor(t.type, [d \in DOMAIN t.shape |-> t.shape[d] + Lead(d) + Trail(d)],
            LAMBDA c : IF Inner(c) \in DOMAIN t.at THEN t.at[Inner(c)] ELSE v)

MeanOver(t, dims, keep) ==
  LET gone == {Axis(t, dims[i]) : i \in DOMAIN dims}
      kept == SetToSortSeq((DOMAIN t.shape) \ gone, <)
      Inside(c) == {p \in DOMAIN t.at :
                      IF keep THEN \A d \in (DOMAIN t.shape) \ gone : p[d] = c[d]
                      ELSE \A i \in DOMAIN kept : p[kept[i]] = c[i]}
  IN Tensor(t.type, IF keep THEN [d \in DOMAIN t.shape |-> IF d \in gone THEN 1 ELSE t.shape[d]]
                    ELSE [i \in DOMAIN kept |-> t.shape[kept[i]]],
            LAMBDA c : Over(SumOf(Inside(c), LAMBDA p : t.at[p]), Q(Cardinality(Inside(c)))))

Permuted(t, perm) ==
  Tensor(t.type, [i \in DOMAIN perm |-> t.shape[perm[i] + 1]],
         LAMBDA c : t.at[[d \in DOMAIN c |-> c[CHOOSE i \in DOMAIN perm : perm[i] + 1 = d]]])

Selected(t, axis, k) ==
  LET i == Axis(t, axis)
  IN Tensor(t.type, SubSeq(t.shape, 1, i - 1) \o SubSeq(t.shape, i + 1, Rank(t)),
            LAMBDA c : t.at[SubSeq(c, 1, i - 1) \o <<k>> \o SubSeq(c, i, Len(c))])

Looked(weight, indices, padding) ==
  Tensor(weight.type, indices.shape \o <<weight.shape[2]>>,
         LAMBDA c : LET row == indices.at[SubSeq(c, 1, Len(c) - 1)][1]
                    IN IF row = padding THEN Q(0) ELSE weight.at[<<row, Last(c)>>])

(* start, start + step, ... below end                                      *)
Ranged(type, start, end, step) ==
  LET Value(k) == Plus(start, Times(Q(k), step))
  IN Tensor(type, <<Cardinality({k \in 0..20 : Below(Value(k), end)})>>, LAMBDA c : Value(c[1]))

-----------------------------------------------------------------------------
Specified ==
  (DOMAIN AlphaOps) \cup (DOMAIN DivOps) \cup
  {"HardTanh", "Clamp", "GELU", "Addmm", "Embedding", "Mean", "Permute", "Select", "Arange", "Conv2D",
   "DepthwiseConv2D", "BatchNorm", "LayerNorm", "AvgPool2D", "ConstantPadND"}

(* The results of a node; the second and third results of batch            *)
(* normalization at inference are not specified.                           *)
Meaning(g, n) ==
  LET a == A(g, n, 1)
      b == A(g, n, 2)
  IN CASE n.kind \in DOMAIN AlphaOps ->
            <<Elementwise(a, b, LAMBDA x, y : Plus(x, Times(IF n.kind = "Sub" THEN Negated(n.alpha) ELSE n.alpha, y)))>>
       [] n.kind \in DOMAIN DivOps ->
            <<Elementwise(a, b, LAMBDA x, y : Divided(n.kind, n.rounding_mode, x, y))>>
       [] n.kind = "HardTanh" -> <<Each1(a, LAMBDA x : Least(Most(x, n.min_value), n.max_value))>>
       [] n.kind = "Clamp" -> <<Each1(a, LAMBDA x : Bounded(x, n.min_max[1], n.min_max[2]))>>
       [] n.kind = "GELU" ->
            <<Each1(a, LAMBDA x : Times(Times(x, <<1, 2>>), Plus(Q(1), Some1("erf", Times(x, SQRT1_2)))))>>
       [] n.kind = "Addmm" ->
            <<Tensor(a.type, BroadcastShape(a.shape, <<b.shape[1], A(g, n, 3).shape[2]>>),
                     LAMBDA c : Plus(Times(n.beta, Shown(a, c)),
                                     Times(n.alpha, SumOf(0..(b.shape[2] - 1),
                                       LAMBDA k : Times(b.at[<<c[1], k>>], A(g, n, 3).at[<<k, c[2]>>])))))>>
       [] n.kind = "Embedding" -> <<Looked(a, b, n.padding_idx)>>
       [] n.kind = "Mean" -> <<MeanOver(a, n.dims, n.keep_dims)>>
       [] n.kind = "Permute" -> <<Permuted(a, n.perm)>>
       [] n.kind = "Select" -> <<Selected(a, n.dim, n.index)>>
       [] n.kind = "Arange" -> <<Ranged(n.dtype, n.start, n.end, n.step)>>
       [] n.kind \in {"Conv2D", "DepthwiseConv2D"} ->
            LET w == n.window
                At1(y, x) == IF Rank(a) = 3 THEN <<x>> ELSE <<y, x>>
            IN <<Convolved(a, b, IF Has(n, 3) THEN <<A(g, n, 3)>> ELSE <<>>, At1(w.stride_y, w.stride_x),
                           At1(w.dilation_y, w.dilation_x), At1(w.padding_top, w.padding_left), w.groups)>>
       [] n.kind = "BatchNorm" -> <<BatchNormed(a, b, A(g, n, 3), A(g, n, 4), A(g, n, 5), n.epsilon)>>
       [] n.kind = "LayerNorm" ->
            <<LayerNormed(a, Len(n.normalized_shape), b, A(g, n, 3), n.eps),
              mean(a, [i \in 1..Len(n.normalized_shape) |-> Rank(a) - Len(n.normalized_shape) + i - 1])>>
       [] n.kind = "AvgPool2D" -> <<Averaged(a, n.window, n.count_include_pad, n.divisor_override)>>
       [] n.kind = "ConstantPadND" -> <<PaddedBy(a, n.pad, n.value)>>
(* The third result of layer normalization should be the reciprocal of the *)
(* standard deviation; the delegate gives the variance, and what Meaning   *)
(* leaves out is what the delegate computes.                               *)
PutAll(g, n, results) ==
  [g EXCEPT !.tensors = [id \in DOMAIN @ |->
     IF \E i \in DOMAIN results : n.outs[i] = id
     THEN <<results[CHOOSE i \in DOMAIN results : n.outs[i] = id]>> ELSE @[id]]]

MeaningOf(g, n) ==
  PutAll(addNodeToMPSGraph(g, n), n, IF n.kind \in Specified THEN Meaning(g, n) ELSE <<>>)

RECURSIVE Evaluated(_, _)
Evaluated(g, nodes) ==
  IF nodes = <<>> \/ g.err # "Ok" THEN g
  ELSE The({Evaluated(h, Tail(nodes)) : h \in {MeaningOf(g, nodes[1])}})

MeaningOfGraph(graph, macos, fed) ==
  Evaluated(AddConstants(AddPlaceholders(NewBuilder(graph, macos), fed, 1), graph.constant_ids), graph.nodes)

(* What a tensor looks like in memory                                      *)
InMemory(t) == [k \in 1..Elements(t.shape) |-> t.at[Unflat(t.shape, k - 1)]]
SameData(a, b) == Len(a) = Len(b) /\ \A k \in DOMAIN a : Equal(a[k], b[k])

-----------------------------------------------------------------------------
(* The MPS delegate at run time, from backends/apple/mps/runtime/          *)
(* MPSBackend.mm, MPSCompiler.mm, MPSExecutor.mm and MPSStream.mm.         *)
(*                                                                         *)
(* Every client has a method with one delegate.  With shared memory the    *)
(* graph runs on the memory of the arguments; otherwise the inputs are     *)
(* copied to buffers of the GPU and the outputs back, by commands that     *)
(* wait in the command buffer of the one stream of the process until it is *)
(* committed.  The stream takes no lock: without shared memory the clients *)
(* execute one at a time.                                                  *)

CONSTANTS
  Clients,
  Buffers,    \* a sequence of processed buffers: size, magic, identifier, graph
  Platforms,  \* what the process may run on: shared memory, simulator, version
  MaxCalls,   \* bound on the calls of execute by a client
  Feeds,      \* what an input may hold
  Pointers    \* where a caller may have its outputs

VARIABLES
  platform,
  stream,    \* the commands of _commandBuffer, <<>> without a live one
  memory,    \* what the memory of the arguments and of the GPU holds
  executor,  \* of every client, <<>> when it has none
  call       \* the last call of every client

vars == <<platform, stream, memory, executor, call>>

In(c, i) == <<c, "in", i>>
Out(c, p, i) == <<c, p, i>>
GpuIn(c, i) == <<c, "gpu in", i>>
GpuOut(c, i) == <<c, "gpu out", i>>

(* What an input holds: the numbers from feed on                           *)
DataFor(value, feed) ==
  [k \in 1..Elements(getMPSShape(value.dims)) |-> Q(IF value.type = "Float32" THEN feed + k - 2 ELSE k % 2)]

-----------------------------------------------------------------------------
(* MPSStream.mm: commit and continue is disabled.  Committing executes the *)
(* commands in order.                                                      *)
Copied(from, to) == [run |-> FALSE, from |-> <<from>>, to |-> <<to>>, client |-> 0]
Running(c, from, to) == [run |-> TRUE, from |-> from, to |-> to, client |-> c]

hasLiveCommandBuffer == stream # <<>>

Graph(x) == Buffers[x.buffer].graph

OutputData(g) == [i \in DOMAIN g.graph.output_ids |-> InMemory(g.tensors[g.graph.output_ids[i]][1])]
OutputsOf(built) == The({OutputData(g) : g \in {built}})

Ran(x, fed) == OutputsOf(compileMPSGraph(NewBuilder(Graph(x), platform.macos), fed))

Stored(m, to, results) ==
  [i \in {to[k] : k \in DOMAIN to} |-> results[CHOOSE k \in DOMAIN to : to[k] = i]] @@ m

Results(m, command) ==
  IF command.run THEN Ran(executor[command.client][1], [i \in DOMAIN command.from |-> m[command.from[i]]])
  ELSE <<m[command.from[1]]>>

Executed(m, command) == The({Stored(m, command.to, r) : r \in {Results(m, command)}})

RECURSIVE commitAndWait(_, _)
commitAndWait(m, commands) ==
  IF commands = <<>> THEN m ELSE commitAndWait(Executed(m, commands[1]), Tail(commands))

copy(copies) == stream \o copies   \* with COMMIT_ADAPTIVE nothing is committed

-----------------------------------------------------------------------------
(* MPSExecutor.mm                                                          *)
NumInputs(x) == Len(Graph(x).input_ids)
NumOutputs(x) == Len(Graph(x).output_ids)

(* outputs is where the copies to the CPU go, bound by the first execution *)
NewExecutor(buffer) == [buffer |-> buffer, outputs |-> <<>>]

initDataBuffers(c, x) ==
  [a \in {GpuIn(c, i) : i \in 1..NumInputs(x)} \cup {GpuOut(c, i) : i \in 1..NumOutputs(x)} |-> <<>>]

updateDataBuffers(c, x) ==
  IF platform.shared THEN stream
  ELSE IF platform.simulator THEN stream
  ELSE copy([i \in 1..NumInputs(x) |-> Copied(In(c, i), GpuIn(c, i))])

RanFrom(c, x) == [i \in 1..NumInputs(x) |-> IF platform.shared THEN In(c, i) ELSE GpuIn(c, i)]
RanTo(c, x) ==
  [i \in 1..NumOutputs(x) |-> IF platform.shared THEN Out(c, call[c].pointer, i) ELSE GpuOut(c, i)]

(* The outputs of the first execution stay bound, whatever a later one is  *)
(* given.                                                                  *)
BoundOutputs(c, x) ==
  IF x.outputs # <<>> THEN x.outputs ELSE [i \in 1..NumOutputs(x) |-> Out(c, call[c].pointer, i)]

-----------------------------------------------------------------------------
Idle == [pc |-> "idle", err |-> "Ok", calls |-> 0, args |-> "tensors", feed |-> 0, pointer |-> 0]

Init ==
  /\ platform \in Platforms
  /\ stream = <<>>
  /\ memory = <<>>
  /\ executor = [c \in Clients |-> <<>>]
  /\ call = [c \in Clients |-> Idle]

Returned(c, err) == call' = [call EXCEPT ![c].pc = "returned", ![c].err = err]

(* MPSBackend::init: the executor, the graph and the data buffers          *)
init(c) ==
  /\ call[c].pc = "idle" /\ executor[c] = <<>> /\ call[c].calls < MaxCalls
  /\ \E buffer \in DOMAIN Buffers :
       LET graph == Buffers[buffer].graph
           some == [i \in DOMAIN graph.input_ids |-> DataFor(graph.values[graph.input_ids[i]], 1)]
       IN \E err \in {compileModel(Buffers[buffer], platform.macos, some).err} :
          CASE err = "Ok" -> /\ executor' = [executor EXCEPT ![c] = <<NewExecutor(buffer)>>]
                             /\ memory' = (IF platform.shared THEN memory
                                           ELSE initDataBuffers(c, NewExecutor(buffer)) @@ memory)
                             /\ UNCHANGED call
            [] err = "Abort" -> /\ Returned(c, "Abort")
                                /\ UNCHANGED <<executor, memory>>
            [] OTHER -> /\ Returned(c, "Internal")
                        /\ UNCHANGED <<executor, memory>>
  /\ UNCHANGED <<platform, stream>>

(* The tensors MPSBackend::execute collects: as many as there are          *)
(* placeholders, inputs first, one by one or in lists.                     *)
Arguments == {"tensors", "list", "int", "null", "few"}
ArgumentError(args) == IF args \in {"int", "null", "few"} THEN "Internal" ELSE "Ok"

OthersIdle(c) == \A d \in Clients \ {c} : call[d].pc = "idle"

execute(c) ==
  /\ executor[c] # <<>> /\ call[c].pc = "idle" /\ call[c].calls < MaxCalls
  /\ platform.shared \/ OthersIdle(c)
  /\ \E feed \in Feeds, pointer \in Pointers, args \in Arguments :
       LET x == executor[c][1]
           ids == Graph(x).input_ids
           given == [i \in {In(c, i) : i \in DOMAIN ids} |-> DataFor(Graph(x).values[ids[i[3]]], feed)]
           entered == [pc |-> "forward", err |-> "Ok", calls |-> call[c].calls + 1, args |-> args,
                       feed |-> feed, pointer |-> pointer]
       IN IF ArgumentError(args) # "Ok"
          THEN /\ call' = [call EXCEPT ![c] = [entered EXCEPT !.pc = "returned", !.err = ArgumentError(args)]]
               /\ UNCHANGED <<memory, stream>>
          ELSE /\ call' = [call EXCEPT ![c] = entered]
               /\ memory' = (IF ~platform.shared /\ platform.simulator
                             THEN [i \in {GpuIn(c, k) : k \in DOMAIN ids} |-> given[In(c, i[3])]] ELSE <<>>)
                            @@ given @@ memory
               /\ stream' = updateDataBuffers(c, x)
  /\ UNCHANGED <<platform, executor>>

(* A live command buffer takes the graph after what it holds; otherwise    *)
(* the graph runs at once on the queue.                                    *)
forward(c) ==
  /\ call[c].pc = "forward"
  /\ LET x == executor[c][1]
         command == Running(c, RanFrom(c, x), RanTo(c, x))
     IN IF hasLiveCommandBuffer
        THEN /\ stream' = Append(stream, command)
             /\ UNCHANGED memory
        ELSE /\ memory' = Executed(memory, command)
             /\ UNCHANGED stream
  /\ call' = [call EXCEPT ![c].pc = "outputs"]
  /\ UNCHANGED <<platform, executor>>

(* syncOutputBuffers; the simulator commits and copies by itself           *)
syncOutputBuffers(c) ==
  /\ call[c].pc = "outputs"
  /\ call' = [call EXCEPT ![c].pc = IF platform.simulator THEN "written" ELSE "synchronize"]
  /\ LET x == executor[c][1]
         bound == BoundOutputs(c, x)
         copies == [i \in 1..NumOutputs(x) |-> Copied(GpuOut(c, i), bound[i])]
     IN IF platform.shared THEN UNCHANGED <<executor, memory, stream>>
        ELSE /\ executor' = [executor EXCEPT ![c][1].outputs = bound]
             /\ IF platform.simulator
                THEN /\ memory' = commitAndWait(memory, stream \o copies)
                     /\ stream' = <<>>
                ELSE /\ stream' = copy(copies)
                     /\ UNCHANGED memory
  /\ UNCHANGED platform

synchronize(c) ==
  /\ call[c].pc = "synchronize"
  /\ memory' = commitAndWait(memory, stream)
  /\ stream' = <<>>
  /\ call' = [call EXCEPT ![c].pc = "written"]
  /\ UNCHANGED <<platform, executor>>

(* The caller looks at its outputs and leaves.                             *)
leave(c) ==
  /\ call[c].pc \in {"written", "returned"} /\ call[c].err # "Abort"
  /\ call' = [call EXCEPT ![c] = [Idle EXCEPT !.calls = call[c].calls]]
  /\ memory' = [a \in {b \in DOMAIN memory : b[1] # c \/ b[2] \in {"gpu in", "gpu out"}} |-> memory[a]]
  /\ UNCHANGED <<platform, stream, executor>>

destroy(c) ==
  /\ executor[c] # <<>> /\ call[c].pc = "idle" /\ call[c].calls = MaxCalls
  /\ executor' = [executor EXCEPT ![c] = <<>>]
  /\ UNCHANGED <<platform, stream, memory, call>>

Next == \E c \in Clients :
  init(c) \/ execute(c) \/ forward(c) \/ syncOutputBuffers(c) \/ synchronize(c) \/ leave(c) \/ destroy(c)

Spec == Init /\ [][Next]_vars
-----------------------------------------------------------------------------
Fed(graph, feed) ==
  [i \in DOMAIN graph.input_ids |-> DataFor(graph.values[graph.input_ids[i]], feed)]

Expected(c) ==
  LET graph == Graph(executor[c][1])
  IN OutputsOf(MeaningOfGraph(graph, platform.macos, Fed(graph, call[c].feed)))

(* When a call has succeeded its outputs hold what the graph means for the *)
(* inputs of that call, whatever the other clients and the calls before it *)
(* did.  Without shared memory this is claimed of the outputs that the     *)
(* first execution was given: a later one with other memory for its        *)
(* outputs finds nothing there (syncOutputBuffers binds them once).        *)
ComputesThisCall ==
  \A c \in Clients : call[c].pc = "written" =>
    \E expected \in {Expected(c)} :
      \A i \in DOMAIN expected :
         platform.shared \/ executor[c][1].outputs[i] = Out(c, call[c].pointer, i) =>
           SameData(memory[Out(c, call[c].pointer, i)], expected[i])
=============================================================================
