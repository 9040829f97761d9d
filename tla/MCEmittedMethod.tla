--------------------------- MODULE MCEmittedMethod ---------------------------
(***************************************************************************)
(* EmittedMethod for TLC: a cond inside a map, and a map inside a cond     *)
(* inside a cond.                                                          *)
(***************************************************************************)
EXTENDS EmittedMethod

Operator(id, fn, arg) == [op |-> "operator", id |-> id, fn |-> fn, arg |-> arg]

Leaf(fn, in, id) == [in |-> in, nodes |-> <<Operator(id, fn, in)>>, out |-> id]

MCGraph ==
  [in |-> "x", out |-> "r",
   nodes |-> <<
     [op |-> "map", id |-> "m", arg |-> "x",
      body |-> [in |-> "e", out |-> "d",
                nodes |-> <<
                  Operator("p", "odd", "e"),
                  [op |-> "cond", id |-> "c", pred |-> "p", arg |-> "e",
                   true |-> Leaf("inc", "y", "a"), false |-> Leaf("dbl", "z", "b")],
                  Operator("d", "inc", "c")>>]],
     [op |-> "delegate", id |-> "s", fn |-> "sum", arg |-> "m"],
     Operator("q", "odd", "s"),
     [op |-> "cond", id |-> "r", pred |-> "q", arg |-> "m",
      true  |-> [in |-> "u", out |-> "m2",
                 nodes |-> <<[op |-> "map", id |-> "m2", arg |-> "u",
                              body |-> Leaf("dbl", "e2", "f")]>>],
      false |-> Leaf("rev", "v", "w")]>>]

MCInputs == {<<1, 0>>, <<0, 0>>, <<1>>, <<>>}
=============================================================================
