---------------------------- MODULE MethodProgram ----------------------------
(***************************************************************************)
(* The serialized program of one Method as its executor sees it: chains of *)
(* instructions (schema/program.fbs), with what each instruction may do to *)
(* the values of the Method.  The values are abstract: one memory.         *)
(***************************************************************************)
EXTENDS Integers

CONSTANTS
  NChain,           \* n_chains_
  NInstr,           \* number of instructions of each chain
  Op,               \* the type of each instruction
  Dest,             \* destination_instruction of each JumpFalseCall
  Mem,              \* the possible contents of values_
  InitMem,          \* the ones after load()
  Inputs,           \* what a caller may pass to set_inputs()
  WriteInput(_, _), \* the memory after an input is set
  Effects(_, _),    \* the memories an instruction may produce when it succeeds
  Failures(_, _),   \* the memories it may leave when it fails
  CondFalse(_, _)   \* whether the value a JumpFalseCall reads is false

Chains       == 0 .. NChain - 1
Instructions == UNION {{c} \X (0 .. NInstr[c] - 1) : c \in Chains}

Ops == {"KernelCall", "DelegateCall", "JumpFalseCall", "MoveCall", "FreeCall",
        "Unknown"}

ASSUME ProgramAssumption ==
  /\ NChain \in Nat \ {0}
  /\ NInstr \in [Chains -> Nat]
  /\ Op \in [Instructions -> Ops]
  /\ \A p \in Instructions : Op[p] = "JumpFalseCall" => Dest[p] \in Nat
  /\ InitMem \subseteq Mem
  /\ \A m \in Mem :
       /\ \A x \in Inputs : WriteInput(m, x) \in Mem
       /\ \A p \in Instructions : /\ Effects(p, m) \subseteq Mem
                                  /\ Failures(p, m) \subseteq Mem

\* The executor trusts jump destinations.  The ones that the emitter writes
\* (exir/emit/_emitter.py) are an instruction of the chain, or its end, and
\* never instruction 0: a loop is preceded by the kernel that reads its bound.
JumpsInRange ==
  \A p \in Instructions : Op[p] = "JumpFalseCall" => Dest[p] \in 1 .. NInstr[p[1]]

-----------------------------------------------------------------------------
(* Positions.  End is the position after the last instruction. *)

End == <<NChain, 0>>

NonEmpty(c) == {d \in c .. NChain - 1 : NInstr[d] > 0}

\* The first instruction of chain c or of the first chain after it that has one.
FirstFrom(c) ==
  IF NonEmpty(c) = {} THEN End
  ELSE <<CHOOSE d \in NonEmpty(c) : \A e \in NonEmpty(c) : d <= e, 0>>

\* The instruction that runs next when a chain has reached index k.
Norm(c, k) ==
  IF c < NChain /\ k < NInstr[c] THEN <<c, k>> ELSE FirstFrom(c + 1)

Start == Norm(0, 0)

\* The index that instruction p continues at when it succeeds.
NextInstr(p, m) ==
  IF Op[p] = "JumpFalseCall" /\ CondFalse(p, m) THEN Dest[p] ELSE p[2] + 1
=============================================================================
