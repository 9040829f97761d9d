SPECIFICATION Spec
CONSTANTS
  NoInput = NoInput
  NChain = 4
  NInstr <- MCNInstr
  Op <- MCOp
  Dest <- MCDest
  Mem <- MCMem
  InitMem <- MCInitMem
  Inputs <- MCInputs
  WriteInput <- MCWriteInput
  Effects <- MCEffects
  Failures <- MCFailures
  CondFalse <- MCCondFalse
INVARIANTS TempReset
PROPERTIES RunsProgram InputsFixed
