-------------------------- MODULE MCMemoryPlanning --------------------------
(***************************************************************************)
(* MemoryPlanning for TLC.  A graph allocates and computes its tensors one *)
(* after the other; which earlier tensors each one reads is arbitrary.     *)
(***************************************************************************)
EXTENDS MemoryPlanning, FiniteSets

MCSpecs == 1 .. 5

N(kind, s, args) == [kind |-> kind, spec |-> s, args |-> args]

\* An operator of the graph: alloc(s), then the out variant.
Op(s, args) == <<N("alloc", s, {}), N("out_variant", s, args \cup {s})>>

MCNodes ==
  {N(kind, s, args) : kind \in {"alloc", "out_variant", "placeholder", "mutable_buffer",
                                "call", "inplace", "get_attr", "output"},
                      s \in MCSpecs, args \in SUBSET MCSpecs}

M(nodes, in, out) == [nodes |-> nodes, alloc_input |-> in, alloc_output |-> out]

P(modules, algo, bytes, mem_id, unplanned) ==
  [modules |-> modules, algo |-> algo, bytes |-> bytes, mem_id |-> mem_id,
   unplanned |-> unplanned]

\* One module of four tensors: an input or an operator, two more operators and
\* the call of a delegate between them.
Graphs ==
  {head \o Op(2, a) \o <<N("call", 3, b)>> \o Op(4, c) \o <<N("output", 4, {4})>> :
     head \in {<<N("placeholder", 1, {})>>, Op(1, {})},
     a \in SUBSET {1}, b \in SUBSET {1, 2}, c \in SUBSET {1, 2, 3}}

\* A module with a weight and a buffer that is written back in place.
StatefulGraph ==
  <<N("mutable_buffer", 1, {}), N("get_attr", 2, {})>> \o Op(3, {1, 2})
  \o <<N("inplace", 1, {1, 3})>> \o Op(4, {3}) \o <<N("output", 4, {4})>>

\* Functions on the specs that tell apart only 1 to 4.
Four(S) == {[s \in MCSpecs |-> IF s = 5 THEN 1 ELSE f[s]] : f \in [1 .. 4 -> S]}

OneMem == [s \in MCSpecs |-> 1]

MCOneModule ==
  {P(<<M(g, TRUE, TRUE)>>, "greedy", bytes, OneMem, {}) :
     g \in Graphs, bytes \in Four({1, 3})}
  \cup {P(<<M(g, in, out)>>, algo, [s \in MCSpecs |-> s], mem_id, u) :
     g \in {StatefulGraph, Op(1, {}) \o Op(2, {1}) \o Op(3, {2}) \o Op(4, {3}),
            <<N("placeholder", 1, {})>> \o Op(2, {1}) \o Op(3, {1, 2}) \o Op(4, {3})
            \o <<N("output", 4, {4})>>},
     in \in BOOLEAN, out \in BOOLEAN, algo \in {"greedy", "naive"},
     mem_id \in Four({1, 2}), u \in {{}, {2}}}

\* A module with a cond: both branches compute a tensor.
Branch(s, in) == <<N("placeholder", in, {})>> \o Op(s, {in}) \o <<N("output", s, {s})>>

Parent == Op(1, {}) \o <<N("output", 1, {1})>>

MCBranches ==
  {P(<<M(Parent, TRUE, TRUE), M(Branch(2, 4), FALSE, TRUE), M(Branch(3, 5), FALSE, TRUE)>>,
     algo, bytes, mem_id, {}) :
     algo \in {"greedy", "naive"}, bytes \in Four({1, 3}),
     mem_id \in {[s \in MCSpecs |-> m] : m \in {1, 2}}}

MCPlans == MCOneModule \cup MCBranches
=============================================================================
