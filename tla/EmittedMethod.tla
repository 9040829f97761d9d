---------------------------- MODULE EmittedMethod -----------------------------
(***************************************************************************)
(* The compiler and the runtime together: a graph with control flow is     *)
(* emitted, from exir/emit/_emitter.py, and the Method runs the            *)
(* instructions (MethodExecution), with the kernels that map loops are     *)
(* made of. The result is compared with what the graph means.              *)
(***************************************************************************)
EXTENDS Integers, Sequences, SequencesExt, TLC

(* Emission of one chain (exir/emit/_emitter.py): a graph with structured  *)
(* control flow, cond and map, becomes a flat sequence of instructions     *)
(* with jumps.  A graph is [in, nodes, out]: the name of its placeholder,  *)
(* its nodes in order and the name of the node it returns.  A value is     *)
(* named after the node that produces it.                                  *)

CONSTANT False  \* the value that holds the constant False

NoHandle == -1

\* kernel(a) -> out.  loop names the map that the instruction belongs to, handle
\* is the debug handle that the emitter gives its node.
Instruction(op, kernel, a, out, loop, handle) ==
  [op |-> op, kernel |-> kernel, a |-> a, out |-> out, loop |-> loop, dest |-> 0,
   handle |-> handle]

KernelCall(kernel, a, out, loop) == Instruction("KernelCall", kernel, a, out, loop, NoHandle)

MoveCall(from, to) == Instruction("MoveCall", "move", from, to, to, NoHandle)

\* The condition is a value or, in a loop, its flag.
JumpFalseCall(kernel, cond, dest) ==
  [Instruction("JumpFalseCall", kernel, cond, cond, cond, NoHandle) EXCEPT !.dest = dest]

-----------------------------------------------------------------------------
(* A sub-emitter has the index its chain will start at, start, and the     *)
(* value its placeholder is bound to, bind; n is the length of its chain   *)
(* when a node is emitted.  Its last instruction moves the result to out.  *)

Bound(g, bind, v) == IF v = g.in THEN bind ELSE v

RECURSIVE EmitNodes(_, _, _)

Submodule(g, start, bind, out) ==
  LET from == Bound(g, bind, g.out)
      body == EmitNodes(g, start, bind)
  IN  IF from = out THEN body ELSE Append(body, MoveCall(from, out))

\* Mutant: the jump over the true branch lands on the jump at its end.
EmitCondShort(g, start, bind, n, nd) ==
  LET arg == Bound(g, bind, nd.arg)
      t   == Submodule(nd.true, start + n + 1, arg, nd.id)
      f   == Submodule(nd.false, start + n + Len(t) + 2, arg, nd.id)
  IN  <<JumpFalseCall("value", Bound(g, bind, nd.pred), start + n + Len(t) + 1)>> \o t
      \o <<JumpFalseCall("value", False, start + n + Len(t) + Len(f) + 2)>> \o f

\* <jump to false branch> <true branch> <jump to end> <false branch>
EmitCond(g, start, bind, n, nd) ==
  LET arg == Bound(g, bind, nd.arg)
      t   == Submodule(nd.true, start + n + 1, arg, nd.id)
      f   == Submodule(nd.false, start + n + Len(t) + 2, arg, nd.id)
  IN  <<JumpFalseCall("value", Bound(g, bind, nd.pred), start + n + Len(t) + 2)>> \o t
      \o <<JumpFalseCall("value", False, start + n + Len(t) + Len(f) + 2)>> \o f

\* sym_size and select_copy; x is sliced into the placeholder of the submodule.
LoopHead(x, nd) ==
  <<KernelCall("sym_size", x, nd.id, nd.id), KernelCall("select_copy", x, nd.body.in, nd.id)>>

\* Mutant: iter_idx is never incremented.
LoopTailNoAdd(res, top, nd) ==
  <<KernelCall("et_copy_index", res, nd.id, nd.id), KernelCall("eq", nd.id, nd.id, nd.id),
    JumpFalseCall("loop", nd.id, top), KernelCall("sub", nd.id, nd.id, nd.id)>>

\* The values iter_idx, sym_size and jump_bool_value of a map go by its name.
LoopTail(res, top, nd) ==
  <<KernelCall("et_copy_index", res, nd.id, nd.id), KernelCall("add", nd.id, nd.id, nd.id),
    KernelCall("eq", nd.id, nd.id, nd.id), JumpFalseCall("loop", nd.id, top),
    KernelCall("sub", nd.id, nd.id, nd.id)>>

\* The move that ends the submodule is dropped: et_copy_index does its work.
EmitMap(g, start, bind, n, nd) ==
  LoopHead(Bound(g, bind, nd.arg), nd)
  \o Front(Submodule(nd.body, start + n + 2, nd.body.in, nd.id))
  \o LoopTail(nd.body.out, start + n + 1, nd)

\* The debug handle of an operator or a delegate is its index in its own chain.
EmitNode(g, start, bind, n, nd) ==
  CASE nd.op = "operator" ->
         <<Instruction("KernelCall", nd.fn, Bound(g, bind, nd.arg), nd.id, nd.id, n)>>
    [] nd.op = "delegate" ->
         <<Instruction("DelegateCall", nd.fn, Bound(g, bind, nd.arg), nd.id, nd.id, n)>>
    [] nd.op = "cond"     -> EmitCond(g, start, bind, n, nd)
    [] nd.op = "map"      -> EmitMap(g, start, bind, n, nd)

EmitNodes(g, start, bind) ==
  FoldLeft(LAMBDA chain, nd : chain \o EmitNode(g, start, bind, Len(chain), nd),
           <<>>, g.nodes)

\* _TopLevelEmitter: the output of the graph is recorded, not moved.
Plan(g) == EmitNodes(g, 0, g.in)

-----------------------------------------------------------------------------
CONSTANTS
  Graph,    \* the graph of the Method
  Bound1,   \* upper bound of the first dimension of its input
  Inputs,   \* the inputs a caller passes: sequences up to that bound
  NoInput

VARIABLES chain_idx, instr_idx, call, phase, next, status, temp, mem, ret,
          inputs, ran, clean

-----------------------------------------------------------------------------
(* What the graph means *)

\* The kernels of the graph.  A tensor has one dimension; a slice of it is a
\* tensor with one element.
Apply(fn, v) ==
  CASE fn = "inc"  -> [j \in DOMAIN v |-> v[j] + 1]
    [] fn = "dbl"  -> [j \in DOMAIN v |-> 2 * v[j]]
    [] fn = "odd"  -> <<v[1] % 2>>
    [] fn = "sum"  -> <<FoldLeft(+, 0, v)>>
    [] fn = "rev"  -> Reverse(v)

RECURSIVE Meaning(_, _)

NodeMeaning(nd, env) ==
  CASE nd.op \in {"operator", "delegate"} -> Apply(nd.fn, env[nd.arg])
    [] nd.op = "cond" -> Meaning(IF env[nd.pred] # <<0>> THEN nd.true ELSE nd.false, env[nd.arg])
    [] nd.op = "map"  -> [j \in DOMAIN env[nd.arg] |-> Meaning(nd.body, <<env[nd.arg][j]>>)[1]]

Meaning(g, x) ==
  FoldLeft(LAMBDA env, nd : (nd.id :> NodeMeaning(nd, env)) @@ env,
           g.in :> x, g.nodes)[g.out]

-----------------------------------------------------------------------------
(* What the emitted instructions do.  val gives the tensor that each value *)
(* refers to and data what is in it; a map loop has iter_idx, sym_size and *)
(* jump_bool_value.                                                        *)

Code == Plan(Graph)

At(p) == Code[p[2] + 1]

Values == {Graph.in, False} \cup {Code[j].a : j \in DOMAIN Code}
                            \cup {Code[j].out : j \in DOMAIN Code}

Maps == {Code[j].loop : j \in {k \in DOMAIN Code : Code[k].kernel = "sym_size"}}

Memories == [val : [Values -> Values], data : [Values -> Seq(Nat)],
             iter_idx : [Maps -> Nat], sym_size : [Maps -> Nat], done : [Maps -> BOOLEAN]]

\* The dimensions of a tensor are serialized with their upper bounds.
Loaded ==
  {[val      |-> [v \in Values |-> v],
    data     |-> [v \in Values |-> IF v \in Maps \cup {Graph.in}
                                   THEN [j \in 1 .. Bound1 |-> 0] ELSE <<0>>],
    iter_idx |-> [l \in Maps |-> 0],
    sym_size |-> [l \in Maps |-> 0],
    done     |-> [l \in Maps |-> FALSE]]}

Read(m, v) == m.data[m.val[v]]

Put(m, v, x) == [m EXCEPT !.data[m.val[v]] = x]

\* copy_to grows when the index is past its end.
CopyIndex(to, x, index) ==
  IF Len(to) < index + 1 THEN to \o x ELSE [to EXCEPT ![index + 1] = x[1]]

\* The kernels of a loop: the memories after instruction i, none when it must fail.
SymSize(i, m) == {[m EXCEPT !.sym_size[i.loop] = Len(Read(m, i.a))]}

SelectCopy(i, m) ==
  LET x == Read(m, i.a)
      j == m.iter_idx[i.loop]
  IN  IF j < Len(x) THEN {Put(m, i.out, <<x[j + 1]>>)} ELSE {}

EtCopyIndex(i, m) ==
  {Put(m, i.out, CopyIndex(Read(m, i.out), Read(m, i.a), m.iter_idx[i.loop]))}

Add(i, m) == {[m EXCEPT !.iter_idx[i.loop] = @ + 1]}

Sub(i, m) == {[m EXCEPT !.iter_idx[i.loop] = @ - m.sym_size[i.loop]]}

Eq(i, m) == {[m EXCEPT !.done[i.loop] = m.iter_idx[i.loop] = m.sym_size[i.loop]]}

\* An EValue is copied: both values now refer to the same tensor.
Move(i, m) == {[m EXCEPT !.val[i.out] = m.val[i.a]]}

Run(p, m) ==
  LET i == At(p) IN
  CASE i.kernel = "sym_size"      -> SymSize(i, m)
    [] i.kernel = "select_copy"   -> SelectCopy(i, m)
    [] i.kernel = "et_copy_index" -> EtCopyIndex(i, m)
    [] i.kernel = "add"           -> Add(i, m)
    [] i.kernel = "sub"           -> Sub(i, m)
    [] i.kernel = "eq"            -> Eq(i, m)
    [] i.op = "MoveCall"          -> Move(i, m)
    [] i.op = "JumpFalseCall"     -> {m}
    [] OTHER -> {Put(m, i.out, Apply(i.kernel, Read(m, i.a)))}

\* Kernels of the graph may fail for their own reasons, before or after they
\* wrote their output; of the kernels of a loop only select_copy checks anything.
RunFails(p, m) ==
  CASE At(p).handle # NoHandle -> {m} \cup Run(p, m)
    [] At(p).kernel = "select_copy" /\ Run(p, m) = {} -> {m}
    [] OTHER -> {}

IsFalse(p, m) ==
  IF At(p).kernel = "loop" THEN ~m.done[At(p).loop] ELSE Read(m, At(p).a) = <<0>>

-----------------------------------------------------------------------------
INSTANCE MethodExecution WITH
  NChain <- 1, NInstr <- (0 :> Len(Code)),
  Op   <- [p \in {0} \X (0 .. Len(Code) - 1) |-> At(p).op],
  Dest <- [p \in {0} \X (0 .. Len(Code) - 1) |-> At(p).dest],
  Mem <- Memories, InitMem <- Loaded,
  WriteInput <- LAMBDA m, x : Put(m, Graph.in, x),
  Effects <- Run, Failures <- RunFails, CondFalse <- IsFalse

-----------------------------------------------------------------------------
(* Properties *)

\* The program has run to its end, with step() or with execute().
Finished == chain_idx = 1 /\ inputs # NoInput

\* A run that neither failed nor was started over computes what the graph
\* means, whatever ran before it: the flat code takes the branches and makes the
\* iterations of the graph, and leaves the loops ready for the next run.
ResultCorrect ==
  Finished /\ clean /\ Len(inputs) = Bound1 => Read(mem, Graph.out) = Meaning(Graph, inputs)

\* execute() and step() return, also when a failed or abandoned run has left
\* loop counters behind, or when there is nothing to loop over.
CallsReturn == call # "idle" ~> call = "idle"
=============================================================================
