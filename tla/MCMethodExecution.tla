-------------------------- MODULE MCMethodExecution --------------------------
(***************************************************************************)
(* MethodExecution for TLC: an if/else in the first chain, an empty chain, *)
(* and a chain that jumps past its own end.  The memory is the input that  *)
(* was set, the predicate of the jumps and whether the output was written. *)
(***************************************************************************)
EXTENDS MethodExecution, TLC

MCNInstr == (0 :> 5) @@ (1 :> 0) @@ (2 :> 3) @@ (3 :> 0)

MCOp == [p \in Instructions |->
  CASE p = <<0, 0>> -> "KernelCall"
    [] p = <<0, 1>> -> "JumpFalseCall"
    [] p = <<0, 2>> -> "MoveCall"
    [] p = <<0, 3>> -> "JumpFalseCall"
    [] p = <<0, 4>> -> "FreeCall"
    [] p = <<2, 0>> -> "DelegateCall"
    [] p = <<2, 1>> -> "JumpFalseCall"
    [] p = <<2, 2>> -> "Unknown"]

MCDest == (<<0, 1>> :> 4) @@ (<<0, 3>> :> 5) @@ (<<2, 1>> :> 4)

MCInputs == {1, 2}

MCMem == [in : {0} \cup MCInputs, pred : BOOLEAN, out : {0} \cup MCInputs]

MCInitMem == {[in |-> 0, pred |-> FALSE, out |-> 0]}

MCWriteInput(m, x) == [m EXCEPT !.in = x]

MCEffects(p, m) ==
  CASE Op[p] = "KernelCall"   -> {[m EXCEPT !.pred = b] : b \in BOOLEAN}
    [] Op[p] = "DelegateCall" -> {[m EXCEPT !.out = m.in, !.pred = b] : b \in BOOLEAN}
    [] OTHER                  -> {m}

MCFailures(p, m) == {m} \cup MCEffects(p, m)

MCCondFalse(p, m) == ~m.pred
=============================================================================
