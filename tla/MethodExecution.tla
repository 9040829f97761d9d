--------------------------- MODULE MethodExecution ---------------------------
(***************************************************************************)
(* Running an initialized Method (runtime/executor/method.cpp): the caller *)
(* sets inputs, drives the program instruction by instruction with step()  *)
(* and reset_execution(), or in one go with execute(), in any order.       *)
(* Instructions may fail.  A Method is used by one thread; a call is cut   *)
(* where the state it shares with kernels changes: the kernel's writes to  *)
(* values_ and to the temp allocator come before the cursor moves.         *)
(***************************************************************************)
EXTENDS MethodProgram

CONSTANT NoInput  \* no input has been set yet

VARIABLES
  chain_idx, instr_idx, \* step_state_
  call,    \* the API call in progress, or "idle"
  phase,   \* "fetch" an instruction, or "reset" after it ran
  next,    \* next_instr_idx of execute_instruction()
  status,  \* err of execute_instruction()
  temp,    \* whether the temp allocator holds anything
  mem,     \* values_
  ret,     \* what the last call returned
  inputs,  \* history: the inputs that were set last
  ran,     \* history: an instruction of this run has completed
  clean    \* history: no instruction failed and no run was started over

cursor == <<chain_idx, instr_idx>>
ghosts == <<inputs, ran, clean>>
vars == <<cursor, call, phase, next, status, temp, mem, ret, ghosts>>

Returns == {"Ok", "Failed", "Internal", "EndOfMethod", "InvalidState"}

\* Every variable has its type.
TypeOK ==
  /\ chain_idx \in 0 .. NChain /\ instr_idx \in Nat
  /\ call \in {"idle", "step", "execute"} /\ phase \in {"fetch", "reset"}
  /\ next \in Nat /\ status \in {"Ok", "Failed"}
  /\ temp \in BOOLEAN /\ mem \in Mem
  /\ ret \in Returns
  /\ inputs \in Inputs \cup {NoInput}
  /\ ran \in BOOLEAN /\ clean \in BOOLEAN

\* As Method::init leaves it.
Init ==
  /\ chain_idx = 0 /\ instr_idx = 0
  /\ call = "idle" /\ phase = "fetch" /\ next = 0 /\ status = "Ok"
  /\ temp = FALSE /\ mem \in InitMem /\ ret = "Ok"
  /\ inputs = NoInput /\ ran = FALSE /\ clean = TRUE

-----------------------------------------------------------------------------
(* The caller *)

AtStart == chain_idx = 0 /\ instr_idx = 0

\* Mutant: set_input() checks the instruction but not the chain.
SetInputsBetweenChains(x) ==
  /\ call = "idle"
  /\ instr_idx = 0
  /\ mem' = WriteInput(mem, x) /\ inputs' = x /\ ret' = "Ok"
  /\ UNCHANGED <<cursor, call, phase, next, status, temp, ran, clean>>

\* set_input() and set_inputs().  An input that does not fit is refused after
\* the ones before it were written: x is what was written, if anything.
SetInputs(x) ==
  /\ call = "idle"
  /\ \/ /\ AtStart
        /\ mem' = WriteInput(mem, x) /\ inputs' = x /\ ret' \in {"Ok", "Failed"}
     \/ /\ AtStart
        /\ ret' = "Failed" /\ UNCHANGED <<mem, inputs>>
     \/ /\ ~AtStart
        /\ ret' = "InvalidState" /\ UNCHANGED <<mem, inputs>>
  /\ UNCHANGED <<cursor, call, phase, next, status, temp, ran, clean>>

ResetExecution ==
  /\ call = "idle"
  /\ \/ /\ chain_idx = NChain
        /\ chain_idx' = 0 /\ instr_idx' = 0 /\ ran' = FALSE /\ ret' = "Ok"
     \/ /\ chain_idx # NChain
        /\ ret' = "InvalidState" /\ UNCHANGED <<cursor, ran>>
  /\ UNCHANGED <<call, phase, next, status, temp, mem, inputs, clean>>

\* step() when there is nothing to execute: at the end, or in an empty chain.
StepOverNothing ==
  /\ call = "idle"
  /\ \/ /\ chain_idx = NChain
        /\ ret' = "EndOfMethod" /\ UNCHANGED chain_idx
     \/ /\ chain_idx < NChain /\ NInstr[chain_idx] = 0
        /\ chain_idx' = chain_idx + 1 /\ ret' = "Ok"
  /\ UNCHANGED <<instr_idx, call, phase, next, status, temp, mem, inputs, ran, clean>>

BeginStep ==
  /\ call = "idle"
  /\ chain_idx < NChain /\ NInstr[chain_idx] > 0
  /\ call' = "step"
  /\ UNCHANGED <<cursor, phase, next, status, temp, mem, ret, inputs, ran, clean>>

\* execute() does not look at step_state_ before it starts over.
BeginExecute ==
  /\ call = "idle"
  /\ call' = "execute"
  /\ chain_idx' = 0 /\ instr_idx' = 0
  /\ ran' = FALSE /\ clean' = (clean /\ (ran => chain_idx = NChain))
  /\ UNCHANGED <<phase, next, status, temp, mem, ret, inputs>>

-----------------------------------------------------------------------------
(* execute_instruction() *)

Here == <<chain_idx, instr_idx>>

\* An instruction is about to be executed, and it is in range.
Fetch == call # "idle" /\ phase = "fetch" /\ chain_idx < NChain
         /\ instr_idx < NInstr[chain_idx]

\* The switch statement: the instruction succeeds, or it fails and may have
\* written to values_ before.  Kernels and delegates may use the temp allocator.
Succeed(ops) ==
  /\ Fetch /\ Op[Here] \in ops
  /\ mem' \in Effects(Here, mem)
  /\ next' = NextInstr(Here, mem)
  /\ status' = "Ok" /\ phase' = "reset"
  /\ UNCHANGED <<cursor, call, ret, ghosts>>

Break(ops) ==
  /\ Fetch /\ Op[Here] \in ops
  /\ mem' \in Failures(Here, mem)
  /\ next' = instr_idx + 1
  /\ status' = "Failed" /\ phase' = "reset"
  /\ UNCHANGED <<cursor, call, ret, ghosts>>

CallKernelOrDelegate ==
  /\ Succeed({"KernelCall", "DelegateCall"}) \/ Break({"KernelCall", "DelegateCall"})
  /\ temp' \in BOOLEAN

JumpFalse == (Succeed({"JumpFalseCall"}) \/ Break({"JumpFalseCall"})) /\ UNCHANGED temp

MoveOrFree == Succeed({"MoveCall", "FreeCall"}) /\ UNCHANGED temp

UnknownInstruction == Break({"Unknown"}) /\ UNCHANGED temp

\* The call returns, with the cursor where it is.
Return(r) == call' = "idle" /\ phase' = "fetch" /\ ret' = r

\* delegate_idx >= n_delegate_ returns before the temp allocator is reset.
BadDelegateIndex ==
  /\ Fetch /\ Op[Here] = "DelegateCall"
  /\ Return("Failed") /\ clean' = FALSE
  /\ UNCHANGED <<cursor, next, status, temp, mem, inputs, ran>>

\* step() with a cursor past the end of its chain.
IndexOutOfRange ==
  /\ call = "step" /\ phase = "fetch" /\ instr_idx >= NInstr[chain_idx]
  /\ Return("Internal")
  /\ UNCHANGED <<cursor, next, status, temp, mem, ghosts>>

\* Mutant: an error returns before the temp allocator is reset.
InstructionFailedEarly ==
  /\ phase = "reset" /\ status = "Failed"
  /\ Return("Failed") /\ clean' = FALSE
  /\ UNCHANGED <<cursor, next, status, temp, mem, inputs, ran>>

\* The end of execute_instruction() after an error, and of the call.
InstructionFailed ==
  /\ phase = "reset" /\ status = "Failed"
  /\ temp' = FALSE
  /\ Return("Failed") /\ clean' = FALSE
  /\ UNCHANGED <<cursor, next, status, mem, inputs, ran>>

\* Mutant: step() goes into the next chain without going back to its first
\* instruction.
StepKeepsIndex ==
  /\ call = "step" /\ phase = "reset" /\ status = "Ok"
  /\ temp' = FALSE /\ ran' = TRUE
  /\ instr_idx' = next
  /\ chain_idx' = IF next = NInstr[chain_idx] THEN chain_idx + 1 ELSE chain_idx
  /\ Return("Ok")
  /\ UNCHANGED <<next, status, mem, inputs, clean>>

\* The end of execute_instruction() and of step().
StepDone ==
  /\ call = "step" /\ phase = "reset" /\ status = "Ok"
  /\ temp' = FALSE /\ ran' = TRUE
  /\ \/ /\ next = NInstr[chain_idx]
        /\ instr_idx' = 0 /\ chain_idx' = chain_idx + 1
     \/ /\ next # NInstr[chain_idx]
        /\ instr_idx' = next /\ UNCHANGED chain_idx
  /\ Return("Ok")
  /\ UNCHANGED <<next, status, mem, inputs, clean>>

\* The end of execute_instruction() in the loop of execute().
ExecuteAdvance ==
  /\ call = "execute" /\ phase = "reset" /\ status = "Ok"
  /\ temp' = FALSE /\ ran' = TRUE
  /\ instr_idx' = next /\ phase' = "fetch"
  /\ UNCHANGED <<chain_idx, call, next, status, mem, ret, inputs, clean>>

\* The outer loop of execute().
ExecuteNextChain ==
  /\ call = "execute" /\ phase = "fetch"
  /\ chain_idx < NChain /\ instr_idx >= NInstr[chain_idx]
  /\ chain_idx' = chain_idx + 1
  /\ instr_idx' = IF chain_idx + 1 < NChain THEN 0 ELSE instr_idx
  /\ UNCHANGED <<call, phase, next, status, temp, mem, ret, ghosts>>

\* The end of execute(): reset_execution().
ExecuteDone ==
  /\ call = "execute" /\ phase = "fetch" /\ chain_idx = NChain
  /\ chain_idx' = 0 /\ instr_idx' = 0 /\ ran' = FALSE
  /\ Return("Ok")
  /\ UNCHANGED <<next, status, temp, mem, inputs, clean>>

-----------------------------------------------------------------------------
\* A step of a call that is in progress.
CallStep ==
  \/ CallKernelOrDelegate \/ JumpFalse \/ MoveOrFree \/ UnknownInstruction
  \/ BadDelegateIndex \/ IndexOutOfRange \/ InstructionFailed
  \/ StepDone \/ ExecuteAdvance \/ ExecuteNextChain \/ ExecuteDone

Next ==
  \/ CallStep
  \/ \E x \in Inputs : SetInputs(x)
  \/ ResetExecution \/ StepOverNothing \/ BeginStep \/ BeginExecute

Spec == Init /\ [][Next]_vars

\* A call that has begun keeps running: it is synchronous code on one thread.
FairSpec == Spec /\ WF_vars(CallStep)

-----------------------------------------------------------------------------
(* Properties *)

\* Whatever mix of step(), reset_execution() and execute() drives it, failures
\* and restarts included, the Method walks over its instructions as MethodRun
\* says.  The cursor of the run moves when the instruction takes effect; the
\* ends of chains and the empty chains are invisible.
Run == INSTANCE MethodRun WITH
         pos <- Norm(chain_idx, IF phase = "reset" /\ status = "Ok"
                                THEN next ELSE instr_idx)

RunsProgram == Run!Spec

\* When jumps stay in range step() never finds its cursor past the end of a
\* chain: the bounds check of execute_instruction() does not fire, whatever
\* calls came before.
CursorInRange == ret # "Internal"

\* When no jump goes to instruction 0 all instructions of a run see the same
\* inputs: set_input() changes nothing once one of them has completed.
InputsFixed == [][inputs' # inputs => ~ran]_vars

\* The temp allocator "will be reset after every kernel or delegate call"
\* (memory_manager.h): no call returns, and no instruction starts, with memory
\* of an earlier instruction still in it, after failures as well.
TempReset == phase = "fetch" => ~temp
=============================================================================
