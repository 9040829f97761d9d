SPECIFICATION FairSpec
CONSTANTS
  False = "False"
  Graph <- MCGraph
  Bound1 = 2
  Inputs <- MCInputs
  NoInput = NoInput
INVARIANTS ResultCorrect
PROPERTY CallsReturn
