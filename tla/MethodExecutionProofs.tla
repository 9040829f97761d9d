------------------------ MODULE MethodExecutionProofs ------------------------
(***************************************************************************)
(* Proofs about MethodExecution, for any program and any kernels: types,   *)
(* the reset of the temp allocator, the cursor of step(), the inputs of a  *)
(* run, and that every execution runs the program as MethodRun says.       *)
(***************************************************************************)
EXTENDS MethodExecution, TLAPS

-----------------------------------------------------------------------------
(* The inductive invariants *)

\* Where the cursor can be at each point of a call.
CallInv ==
  /\ call = "idle" => phase = "fetch"
  /\ phase = "reset" => chain_idx < NChain /\ instr_idx < NInstr[chain_idx]
  /\ call = "step" => chain_idx < NChain
  /\ chain_idx < NChain /\ NInstr[chain_idx] = 0 => instr_idx = 0

IInv == TypeOK /\ CallInv /\ TempReset

\* What holds as well when jumps stay in range.
JumpInv ==
  /\ phase = "reset" /\ status = "Ok" => next \in 1 .. NInstr[chain_idx]
  /\ call # "execute" /\ chain_idx < NChain
       => instr_idx = 0 \/ instr_idx < NInstr[chain_idx]
  /\ call = "step" => instr_idx < NInstr[chain_idx]
  /\ ran => ~AtStart
  /\ CursorInRange

-----------------------------------------------------------------------------
(* Positions *)

LEMMA ProgramTypes ==
  /\ NChain \in Nat /\ NChain > 0
  /\ \A c \in Nat : c < NChain => c \in Chains /\ NInstr[c] \in Nat
  /\ \A c, k \in Nat : c < NChain /\ k < NInstr[c] => <<c, k>> \in Instructions
<1>1. NChain \in Nat /\ NChain > 0
  BY ProgramAssumption
<1>2. \A c \in Nat : c < NChain => c \in Chains /\ NInstr[c] \in Nat
  BY <1>1, ProgramAssumption DEF Chains
<1>3. \A c, k \in Nat : c < NChain /\ k < NInstr[c] => <<c, k>> \in Instructions
  <2> SUFFICES ASSUME NEW c \in Nat, NEW k \in Nat, c < NChain, k < NInstr[c]
               PROVE  <<c, k>> \in Instructions
    OBVIOUS
  <2>1. c \in Chains /\ k \in 0 .. NInstr[c] - 1
    BY <1>2
  <2>2. QED
    BY <2>1 DEF Instructions
<1>4. QED
  BY <1>1, <1>2, <1>3

\* The first instruction at or after a chain that is not empty is its own.
LEMMA FirstFromNonEmpty ==
  ASSUME NEW c \in Nat, c < NChain, NInstr[c] > 0
  PROVE  FirstFrom(c) = <<c, 0>>
<1>1. c \in NonEmpty(c) /\ \A e \in NonEmpty(c) : c <= e
  BY ProgramTypes DEF NonEmpty
<1>2. \A d \in NonEmpty(c) : (\A e \in NonEmpty(c) : d <= e) => d = c
  BY <1>1, ProgramTypes DEF NonEmpty
<1>3. (CHOOSE d \in NonEmpty(c) : \A e \in NonEmpty(c) : d <= e) = c
  BY <1>1, <1>2
<1>4. QED
  BY <1>1, <1>3, Zenon DEF FirstFrom

\* An empty chain, or the end of the program, is passed over.
LEMMA FirstFromEmpty ==
  ASSUME NEW c \in Nat, c >= NChain \/ NInstr[c] = 0
  PROVE  FirstFrom(c) = FirstFrom(c + 1)
<1>1. NonEmpty(c) = NonEmpty(c + 1)
  BY ProgramTypes DEF NonEmpty
<1>2. QED
  BY <1>1 DEF FirstFrom

\* The end of a chain is the beginning of the next one.
LEMMA EndOfChain ==
  ASSUME NEW c \in Nat, NEW k \in Nat, c >= NChain \/ k >= NInstr[c]
  PROVE  /\ Norm(c, k) = Norm(c + 1, 0)
         /\ c >= NChain => Norm(c, k) = Norm(c, 0)
<1>1. Norm(c, k) = FirstFrom(c + 1)
  BY ProgramTypes DEF Norm
<1>2. Norm(c + 1, 0) = FirstFrom(c + 1)
  <2>1. CASE c + 1 < NChain /\ 0 < NInstr[c + 1]
    BY <2>1, FirstFromNonEmpty DEF Norm
  <2>2. CASE ~(c + 1 < NChain /\ 0 < NInstr[c + 1])
    <3>1. c + 1 >= NChain \/ NInstr[c + 1] = 0
      BY <2>2, ProgramTypes
    <3>2. FirstFrom(c + 1) = FirstFrom(c + 1 + 1)
      BY <3>1, FirstFromEmpty
    <3>3. QED
      BY <2>2, <3>2 DEF Norm
  <2>3. QED
    BY <2>1, <2>2
<1>3. c >= NChain => Norm(c, k) = Norm(c, 0)
  BY ProgramTypes DEF Norm
<1>4. QED
  BY <1>1, <1>2, <1>3

-----------------------------------------------------------------------------
(* Types, the cursor during a call, and the temp allocator *)

LEMMA EffectTypes ==
  ASSUME IInv, Fetch
  PROVE  /\ Here \in Instructions
         /\ Effects(Here, mem) \subseteq Mem /\ Failures(Here, mem) \subseteq Mem
         /\ NextInstr(Here, mem) \in Nat
<1>1. Here \in Instructions
  BY ProgramTypes DEF IInv, TypeOK, Fetch, Here
<1>2. Effects(Here, mem) \subseteq Mem /\ Failures(Here, mem) \subseteq Mem
  BY <1>1, ProgramAssumption DEF IInv, TypeOK
<1>3. NextInstr(Here, mem) \in Nat
  BY <1>1, ProgramAssumption DEF IInv, TypeOK, NextInstr, Here
<1>4. QED
  BY <1>1, <1>2, <1>3

LEMMA SwitchNext ==
  ASSUME IInv, CallKernelOrDelegate \/ JumpFalse \/ MoveOrFree \/ UnknownInstruction
  PROVE  IInv'
<1>1. \E ops : Succeed(ops) \/ Break(ops)
  BY DEF CallKernelOrDelegate, JumpFalse, MoveOrFree, UnknownInstruction
<1>2. /\ Fetch /\ phase' = "reset" /\ status' \in {"Ok", "Failed"}
      /\ mem' \in Effects(Here, mem) \/ mem' \in Failures(Here, mem)
      /\ next' = NextInstr(Here, mem) \/ next' = instr_idx + 1
      /\ UNCHANGED <<chain_idx, instr_idx, call, ret, inputs, ran, clean>>
  BY <1>1 DEF Succeed, Break, cursor, ghosts
<1>3. temp' \in BOOLEAN
  BY DEF CallKernelOrDelegate, JumpFalse, MoveOrFree, UnknownInstruction, IInv, TypeOK
<1>4. mem' \in Mem /\ next' \in Nat
  BY <1>2, EffectTypes DEF IInv, TypeOK
<1>5. TypeOK'
  BY <1>2, <1>3, <1>4 DEF IInv, TypeOK
<1>6. CallInv'
  BY <1>2 DEF IInv, CallInv, TypeOK, Fetch
<1>7. TempReset'
  BY <1>2 DEF TempReset
<1>8. QED
  BY <1>5, <1>6, <1>7 DEF IInv

LEMMA IInvNext == IInv /\ [Next]_vars => IInv'
<1> SUFFICES ASSUME IInv, [Next]_vars PROVE IInv'
  OBVIOUS
<1> DEFINE IndexTypes == chain_idx \in 0 .. NChain /\ instr_idx \in Nat /\ next \in Nat
           OtherTypes == /\ call \in {"idle", "step", "execute"}
                         /\ phase \in {"fetch", "reset"}
                         /\ status \in {"Ok", "Failed"}
                         /\ temp \in BOOLEAN /\ mem \in Mem /\ ret \in Returns
                         /\ inputs \in Inputs \cup {NoInput} /\ ran \in BOOLEAN
                         /\ clean \in BOOLEAN
<1>0. IndexTypes /\ OtherTypes /\ CallInv /\ TempReset
  BY DEF IInv, TypeOK
<1>a. SUFFICES IndexTypes' /\ OtherTypes' /\ CallInv' /\ TempReset'
  BY DEF IInv, TypeOK
<1>1. CASE CallKernelOrDelegate \/ JumpFalse \/ MoveOrFree \/ UnknownInstruction
  BY <1>1, SwitchNext DEF IInv, TypeOK
<1>2. CASE BadDelegateIndex
  <2>1. IndexTypes' /\ CallInv'
    BY <1>0, <1>2, ProgramTypes DEF BadDelegateIndex, Fetch, Return, cursor, CallInv
  <2>2. OtherTypes'
    BY <1>0, <1>2, Zenon DEF BadDelegateIndex, Fetch, Return, cursor, Returns
  <2>3. TempReset'
    BY <1>0, <1>2 DEF BadDelegateIndex, Fetch, Return, cursor, TempReset
  <2>4. QED
    BY <2>1, <2>2, <2>3
<1>3. CASE IndexOutOfRange
  <2>1. IndexTypes' /\ CallInv'
    BY <1>0, <1>3, ProgramTypes DEF IndexOutOfRange, Return, cursor, ghosts, CallInv
  <2>2. OtherTypes'
    BY <1>0, <1>3, Zenon DEF IndexOutOfRange, Return, cursor, ghosts, Returns
  <2>3. TempReset'
    BY <1>0, <1>3 DEF IndexOutOfRange, Return, cursor, ghosts, TempReset
  <2>4. QED
    BY <2>1, <2>2, <2>3
<1>4. CASE InstructionFailed
  <2>1. IndexTypes' /\ CallInv'
    BY <1>0, <1>4, ProgramTypes DEF InstructionFailed, Return, cursor, CallInv
  <2>2. OtherTypes'
    BY <1>0, <1>4, Zenon DEF InstructionFailed, Return, cursor, Returns
  <2>3. TempReset'
    BY <1>0, <1>4 DEF InstructionFailed, Return, cursor, TempReset
  <2>4. QED
    BY <2>1, <2>2, <2>3
<1>5. CASE StepDone
  <2>1. IndexTypes' /\ CallInv'
    BY <1>0, <1>5, ProgramTypes DEF StepDone, Return, CallInv
  <2>2. OtherTypes'
    BY <1>0, <1>5, Zenon DEF StepDone, Return, Returns
  <2>3. TempReset'
    BY <1>0, <1>5 DEF StepDone, Return, TempReset
  <2>4. QED
    BY <2>1, <2>2, <2>3
<1>6. CASE ExecuteAdvance
  <2>1. IndexTypes' /\ CallInv'
    BY <1>0, <1>6, ProgramTypes DEF ExecuteAdvance, CallInv
  <2>2. OtherTypes'
    BY <1>0, <1>6, Zenon DEF ExecuteAdvance, Returns
  <2>3. TempReset'
    BY <1>0, <1>6 DEF ExecuteAdvance, TempReset
  <2>4. QED
    BY <2>1, <2>2, <2>3
<1>7. CASE ExecuteNextChain
  <2>1. IndexTypes' /\ CallInv'
    BY <1>0, <1>7, ProgramTypes DEF ExecuteNextChain, ghosts, CallInv
  <2>2. OtherTypes'
    BY <1>0, <1>7, Zenon DEF ExecuteNextChain, ghosts, Returns
  <2>3. TempReset'
    BY <1>0, <1>7 DEF ExecuteNextChain, ghosts, TempReset
  <2>4. QED
    BY <2>1, <2>2, <2>3
<1>8. CASE ExecuteDone
  <2>1. IndexTypes' /\ CallInv'
    BY <1>0, <1>8, ProgramTypes DEF ExecuteDone, Return, CallInv
  <2>2. OtherTypes'
    BY <1>0, <1>8, Zenon DEF ExecuteDone, Return, Returns
  <2>3. TempReset'
    BY <1>0, <1>8 DEF ExecuteDone, Return, TempReset
  <2>4. QED
    BY <2>1, <2>2, <2>3
<1>9. ASSUME NEW x \in Inputs, SetInputs(x)
      PROVE  IndexTypes' /\ OtherTypes' /\ CallInv' /\ TempReset'
  <2>1. IndexTypes' /\ CallInv'
    BY <1>0, <1>9, ProgramTypes DEF SetInputs, cursor, CallInv
  <2>2. OtherTypes'
    BY <1>0, <1>9, ProgramAssumption, Zenon DEF SetInputs, cursor, AtStart, Returns
  <2>3. TempReset'
    BY <1>0, <1>9 DEF SetInputs, cursor, TempReset
  <2>4. QED
    BY <2>1, <2>2, <2>3
<1>10. CASE ResetExecution
  <2>1. IndexTypes' /\ CallInv'
    BY <1>0, <1>10, ProgramTypes DEF ResetExecution, cursor, CallInv
  <2>2. OtherTypes'
    BY <1>0, <1>10, Zenon DEF ResetExecution, cursor, Returns
  <2>3. TempReset'
    BY <1>0, <1>10 DEF ResetExecution, cursor, TempReset
  <2>4. QED
    BY <2>1, <2>2, <2>3
<1>11. CASE StepOverNothing
  <2>1. IndexTypes' /\ CallInv'
    BY <1>0, <1>11, ProgramTypes DEF StepOverNothing, CallInv
  <2>2. OtherTypes'
    BY <1>0, <1>11, Zenon DEF StepOverNothing, Returns
  <2>3. TempReset'
    BY <1>0, <1>11 DEF StepOverNothing, TempReset
  <2>4. QED
    BY <2>1, <2>2, <2>3
<1>12. CASE BeginStep
  <2>1. IndexTypes' /\ CallInv'
    BY <1>0, <1>12, ProgramTypes DEF BeginStep, cursor, CallInv
  <2>2. OtherTypes'
    BY <1>0, <1>12, Zenon DEF BeginStep, cursor, Returns
  <2>3. TempReset'
    BY <1>0, <1>12 DEF BeginStep, cursor, TempReset
  <2>4. QED
    BY <2>1, <2>2, <2>3
<1>13. CASE BeginExecute
  <2>1. IndexTypes' /\ CallInv'
    BY <1>0, <1>13, ProgramTypes DEF BeginExecute, CallInv
  <2>2. OtherTypes'
    BY <1>0, <1>13, Zenon DEF BeginExecute, Returns, AtStart
  <2>3. TempReset'
    BY <1>0, <1>13 DEF BeginExecute, TempReset
  <2>4. QED
    BY <2>1, <2>2, <2>3
<1>14. CASE UNCHANGED vars
  BY <1>0, <1>14 DEF vars, cursor, ghosts, CallInv, TempReset
<1>15. QED
  BY <1>1, <1>2, <1>3, <1>4, <1>5, <1>6, <1>7, <1>8, <1>9, <1>10, <1>11, <1>12, <1>13, <1>14,
     ZenonT(60) DEF Next, CallStep

LEMMA IInvInit == Init => IInv
<1> SUFFICES ASSUME Init PROVE IInv
  OBVIOUS
<1>1. chain_idx \in 0 .. NChain /\ instr_idx \in Nat /\ next \in Nat
  BY ProgramTypes DEF Init
<1>2. mem \in Mem
  BY ProgramAssumption DEF Init
<1>3. TypeOK
  BY <1>1, <1>2, Zenon DEF Init, TypeOK, Returns
<1>4. CallInv /\ TempReset
  BY DEF Init, CallInv, TempReset
<1>5. QED
  BY <1>3, <1>4 DEF IInv

\* The inductive invariant holds in every state of a Method that is driven.
THEOREM Invariance == Spec => []IInv
BY IInvInit, IInvNext, PTL DEF Spec

\* Every variable keeps its type, and step_state_ never passes the last chain.
THEOREM TypeCorrect == Spec => []TypeOK
<1>1. IInv => TypeOK
  BY DEF IInv
<1>2. QED
  BY <1>1, Invariance, PTL

\* execute_instruction() empties the temp allocator before any call returns
\* and before the next instruction starts, on every error path.
THEOREM TempAlwaysReset == Spec => []TempReset
<1>1. IInv => TempReset
  BY DEF IInv
<1>2. QED
  BY <1>1, Invariance, PTL

-----------------------------------------------------------------------------
(* The cursor and the inputs, when jumps stay in range *)

LEMMA NextInRange ==
  ASSUME JumpsInRange, IInv, Fetch
  PROVE  NextInstr(Here, mem) \in 1 .. NInstr[chain_idx]
<1>1. Here \in Instructions /\ Here[1] = chain_idx /\ Here[2] = instr_idx
  BY EffectTypes DEF Here
<1>2. instr_idx \in Nat /\ NInstr[chain_idx] \in Nat /\ instr_idx < NInstr[chain_idx]
  BY ProgramTypes DEF IInv, TypeOK, Fetch
<1>3. QED
  BY <1>1, <1>2 DEF JumpsInRange, NextInstr

LEMMA JumpInvNext ==
  ASSUME JumpsInRange, IInv, JumpInv, [Next]_vars
  PROVE  JumpInv'
<1> USE ProgramTypes DEF IInv, TypeOK, CallInv, JumpInv, CursorInRange, AtStart
<1>1. CASE CallKernelOrDelegate \/ JumpFalse \/ MoveOrFree \/ UnknownInstruction
  <2>1. \E ops : Succeed(ops) \/ Break(ops)
    BY <1>1 DEF CallKernelOrDelegate, JumpFalse, MoveOrFree, UnknownInstruction
  <2>2. /\ Fetch /\ phase' = "reset"
        /\ status' = "Ok" => next' = NextInstr(Here, mem)
        /\ UNCHANGED <<chain_idx, instr_idx, call, ret, ran>>
    BY <2>1 DEF Succeed, Break, cursor, ghosts
  <2>3. QED
    BY <2>2, NextInRange DEF Fetch
<1>2. CASE BadDelegateIndex
  BY <1>2 DEF BadDelegateIndex, Fetch, Return, cursor
<1>3. CASE IndexOutOfRange
  BY <1>3 DEF IndexOutOfRange
<1>4. CASE InstructionFailed
  BY <1>4 DEF InstructionFailed, Return, cursor
<1>5. CASE StepDone
  BY <1>5 DEF StepDone, Return
<1>6. CASE ExecuteAdvance
  BY <1>6 DEF ExecuteAdvance
<1>7. CASE ExecuteNextChain
  BY <1>7 DEF ExecuteNextChain, ghosts
<1>8. CASE ExecuteDone
  BY <1>8 DEF ExecuteDone, Return
<1>9. ASSUME NEW x \in Inputs, SetInputs(x) PROVE JumpInv'
  BY <1>9 DEF SetInputs, cursor
<1>10. CASE ResetExecution
  BY <1>10 DEF ResetExecution, cursor
<1>11. CASE StepOverNothing
  BY <1>11 DEF StepOverNothing
<1>12. CASE BeginStep
  BY <1>12 DEF BeginStep, cursor
<1>13. CASE BeginExecute
  BY <1>13 DEF BeginExecute
<1>14. CASE UNCHANGED vars
  BY <1>14 DEF vars, cursor, ghosts
<1>15. QED
  BY <1>1, <1>2, <1>3, <1>4, <1>5, <1>6, <1>7, <1>8, <1>9, <1>10, <1>11, <1>12,
     <1>13, <1>14, ZenonT(60) DEF Next, CallStep

LEMMA JumpInvariance ==
  ASSUME JumpsInRange
  PROVE  Spec => []JumpInv
<1>1. Init => JumpInv
  BY ProgramTypes DEF Init, JumpInv, CursorInRange
<1>2. IInv /\ JumpInv /\ [Next]_vars => JumpInv'
  BY JumpInvNext
<1>3. QED
  BY <1>1, <1>2, Invariance, PTL DEF Spec

\* When jumps stay in range, the bounds check of execute_instruction() does not
\* fire: no sequence of calls leaves step_state_ past the end of a chain.
THEOREM CursorStaysInRange ==
  ASSUME JumpsInRange
  PROVE  Spec => []CursorInRange
<1>1. JumpInv => CursorInRange
  BY DEF JumpInv
<1>2. QED
  BY <1>1, JumpInvariance, PTL

\* When jumps stay in range, set_input() and set_inputs() change no input of a
\* run that has completed an instruction.
THEOREM InputsNeverChangeMidway ==
  ASSUME JumpsInRange
  PROVE  Spec => InputsFixed
<1>1. JumpInv /\ [Next]_vars => [inputs' # inputs => ~ran]_vars
  <2> SUFFICES ASSUME JumpInv, Next, inputs' # inputs PROVE ~ran
    BY SMTT(60)
  <2>1. \E x \in Inputs : SetInputs(x)
    BY DEF Next, CallStep, CallKernelOrDelegate, JumpFalse, MoveOrFree,
           UnknownInstruction, Succeed, Break, BadDelegateIndex, IndexOutOfRange,
           InstructionFailed, StepDone, ExecuteAdvance, ExecuteNextChain,
           ExecuteDone, ResetExecution, StepOverNothing, BeginStep, BeginExecute,
           ghosts
  <2>2. AtStart
    BY <2>1 DEF SetInputs
  <2>3. QED
    BY <2>2 DEF JumpInv
<1>2. QED
  BY <1>1, JumpInvariance, PTL DEF Spec, InputsFixed

-----------------------------------------------------------------------------
(* The refinement *)

\* The position of MethodRun that a state stands for.
Pos == Norm(chain_idx, IF phase = "reset" /\ status = "Ok" THEN next ELSE instr_idx)

RunStep ==
  \/ /\ Pos # End
     /\ mem' \in Effects(Pos, mem)
     /\ Pos' = Norm(Pos[1], NextInstr(Pos, mem))
  \/ Pos # End /\ mem' \in Failures(Pos, mem) /\ Pos' = Pos
  \/ Pos' = Start /\ mem' = mem
  \/ Pos = Start /\ (\E x \in Inputs : mem' = WriteInput(mem, x)) /\ Pos' = Pos
  \/ Pos' = Pos /\ mem' = mem

LEMMA SwitchRuns ==
  ASSUME IInv, CallKernelOrDelegate \/ JumpFalse \/ MoveOrFree \/ UnknownInstruction
  PROVE  RunStep
<1>1. \E ops : Succeed(ops) \/ Break(ops)
  BY DEF CallKernelOrDelegate, JumpFalse, MoveOrFree, UnknownInstruction
<1>2. Fetch
  BY <1>1 DEF Succeed, Break
<1>3. Pos = Here /\ Here[1] = chain_idx /\ Pos # End
  BY <1>2, ProgramTypes DEF Pos, Norm, Here, Fetch, End, IInv, TypeOK
<1>4. CASE \E ops : Succeed(ops)
  <2>1. Pos' = Norm(chain_idx, NextInstr(Here, mem))
    BY <1>4 DEF Succeed, Pos, cursor
  <2>2. mem' \in Effects(Here, mem)
    BY <1>4 DEF Succeed
  <2>3. QED
    BY <1>3, <2>1, <2>2 DEF RunStep
<1>5. CASE \E ops : Break(ops)
  <2>1. Pos' = Norm(chain_idx, instr_idx)
    BY <1>5 DEF Break, Pos, cursor
  <2>2. Pos = Norm(chain_idx, instr_idx)
    BY <1>2 DEF Pos, Fetch
  <2>3. mem' \in Failures(Here, mem)
    BY <1>5 DEF Break
  <2>4. QED
    BY <1>3, <2>1, <2>2, <2>3 DEF RunStep
<1>6. QED
  BY <1>1, <1>4, <1>5

LEMMA EachStepRuns == IInv /\ [Next]_vars => RunStep
<1> SUFFICES ASSUME IInv, [Next]_vars PROVE RunStep
  OBVIOUS
<1>0. /\ chain_idx \in Nat /\ chain_idx <= NChain /\ instr_idx \in Nat /\ next \in Nat
      /\ NChain \in Nat /\ phase \in {"fetch", "reset"}
      /\ \A c \in Nat : c < NChain => NInstr[c] \in Nat
      /\ CallInv
  BY ProgramTypes DEF IInv, TypeOK
<1> DEFINE Stutter == Pos' = Pos /\ mem' = mem
           Restart == Pos' = Start /\ mem' = mem
<1>a. /\ Stutter => RunStep
      /\ Restart => RunStep
  BY DEF RunStep
<1>1. CASE CallKernelOrDelegate \/ JumpFalse \/ MoveOrFree \/ UnknownInstruction
  BY <1>1, SwitchRuns
<1>2. CASE BadDelegateIndex
  BY <1>a, <1>2 DEF BadDelegateIndex, Fetch, Return, cursor, Pos
<1>3. CASE IndexOutOfRange
  BY <1>a, <1>3 DEF IndexOutOfRange, Return, cursor, Pos
<1>4. CASE InstructionFailed
  BY <1>a, <1>4 DEF InstructionFailed, Return, cursor, Pos
<1>5. CASE StepDone
  <2>1. Pos = Norm(chain_idx, next) /\ Pos' = Norm(chain_idx', instr_idx')
    BY <1>5 DEF StepDone, Return, Pos
  <2>2. next = NInstr[chain_idx] => Norm(chain_idx, next) = Norm(chain_idx + 1, 0)
    BY <1>0, EndOfChain
  <2>3. QED
    BY <1>a, <1>5, <2>1, <2>2 DEF StepDone
<1>6. CASE ExecuteAdvance
  BY <1>a, <1>6 DEF ExecuteAdvance, Pos
<1>7. CASE ExecuteNextChain
  <2>1. Pos = Norm(chain_idx, instr_idx) /\ Pos' = Norm(chain_idx + 1, instr_idx')
    BY <1>7 DEF ExecuteNextChain, Pos
  <2>2. Norm(chain_idx, instr_idx) = Norm(chain_idx + 1, 0)
    BY <1>0, <1>7, EndOfChain DEF ExecuteNextChain
  <2>3. Norm(chain_idx + 1, instr_idx') = Norm(chain_idx + 1, 0)
    <3>1. CASE chain_idx + 1 < NChain
      BY <1>7, <3>1 DEF ExecuteNextChain
    <3>2. CASE chain_idx + 1 >= NChain
      BY <1>0, <1>7, <3>2, EndOfChain DEF ExecuteNextChain
    <3>3. QED
      BY <1>0, <3>1, <3>2
  <2>4. QED
    BY <1>a, <1>7, <2>1, <2>2, <2>3 DEF ExecuteNextChain
<1>8. CASE ExecuteDone
  BY <1>a, <1>8 DEF ExecuteDone, Return, Pos, Start
<1>9. ASSUME NEW x \in Inputs, SetInputs(x) PROVE RunStep
  <2>1. Pos' = Pos
    BY <1>9 DEF SetInputs, cursor, Pos
  <2>2. AtStart => Pos = Start
    BY <1>0, <1>9 DEF SetInputs, CallInv, AtStart, Pos, Start
  <2>3. QED
    BY <1>9, <2>1, <2>2 DEF SetInputs, RunStep
<1>10. CASE ResetExecution
  BY <1>0, <1>a, <1>10 DEF ResetExecution, CallInv, cursor, Pos, Start
<1>11. CASE StepOverNothing
  <2>1. CASE chain_idx = NChain
    BY <1>0, <1>a, <1>11, <2>1 DEF StepOverNothing, Pos
  <2>2. CASE chain_idx < NChain
    <3>1. Pos = Norm(chain_idx, 0) /\ Pos' = Norm(chain_idx + 1, 0)
      BY <1>0, <1>11, <2>2 DEF StepOverNothing, CallInv, Pos
    <3>2. Norm(chain_idx, 0) = Norm(chain_idx + 1, 0)
      BY <1>0, <1>11, <2>2, EndOfChain DEF StepOverNothing
    <3>3. QED
      BY <1>a, <1>11, <3>1, <3>2 DEF StepOverNothing
  <2>3. QED
    BY <1>0, <2>1, <2>2
<1>12. CASE BeginStep
  BY <1>a, <1>12 DEF BeginStep, cursor, Pos
<1>13. CASE BeginExecute
  BY <1>0, <1>a, <1>13 DEF BeginExecute, CallInv, Pos, Start
<1>14. CASE UNCHANGED vars
  BY <1>a, <1>14 DEF vars, cursor, Pos
<1>15. QED
  BY <1>1, <1>2, <1>3, <1>4, <1>5, <1>6, <1>7, <1>8, <1>9, <1>10, <1>11, <1>12,
     <1>13, <1>14, ZenonT(60) DEF Next, CallStep

\* However step(), reset_execution() and execute() are mixed, and whatever
\* fails, the Method runs its instructions in the order MethodRun defines.
THEOREM ImplementsMethodRun == Spec => RunsProgram
<1>1. Init => Run!Init
  BY SMTT(60) DEF Init, Run!Init, Run!Start, Run!Norm, Run!FirstFrom, Run!NonEmpty, Run!End,
         Norm, FirstFrom, NonEmpty, End
<1>2. RunStep => [Run!Next]_<<Pos, mem>>
  BY Zenon DEF RunStep, Run!Next, Run!Advance, Run!FailInstruction, Run!StartOver,
         Run!SetInput, Run!Start, Run!Norm, Run!FirstFrom, Run!NonEmpty, Run!End,
         Run!NextInstr, Start, Pos, Norm, FirstFrom, NonEmpty, End, NextInstr
<1>3. QED
  BY <1>1, <1>2, EachStepRuns, Invariance, PTL DEF Spec, RunsProgram, Run!Spec, Pos
=============================================================================
