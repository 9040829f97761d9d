------------------------------ MODULE MethodRun ------------------------------
(***************************************************************************)
(* What running a Method promises, whichever way it is driven: a cursor    *)
(* walks over the instructions of the program, chain after chain, each     *)
(* instruction is applied to the memory of the Method exactly when the     *)
(* cursor passes it, and inputs are written only at the start.  A failed   *)
(* instruction leaves the cursor where it is; a run can be started over.   *)
(***************************************************************************)
EXTENDS MethodProgram

VARIABLES pos, mem

Advance ==
  /\ pos # End
  /\ mem' \in Effects(pos, mem)
  /\ pos' = Norm(pos[1], NextInstr(pos, mem))

\* An instruction fails; what it wrote before is there.
FailInstruction ==
  /\ pos # End
  /\ mem' \in Failures(pos, mem)
  /\ UNCHANGED pos

StartOver == pos' = Start /\ UNCHANGED mem

SetInput ==
  /\ pos = Start
  /\ \E x \in Inputs : mem' = WriteInput(mem, x)
  /\ UNCHANGED pos

Init == pos = Start /\ mem \in InitMem

Next == Advance \/ FailInstruction \/ StartOver \/ SetInput

Spec == Init /\ [][Next]_<<pos, mem>>
=============================================================================
