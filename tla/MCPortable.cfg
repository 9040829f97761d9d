SPECIFICATION Spec
CONSTANTS
  Ins <- InsMC
  Pairs <- PairsMC
  Triples <- TriplesMC
  Instructions <- InstructionsMC
  Scalars <- ScalarsMC
  Shapes <- ShapesMC
  Ends <- EndsMC
  ReduceIns <- ReduceInsMC
  DimLists <- DimListsMC
  ReduceDims <- ReduceDimsMC
  Dtypes <- DtypesMC
  ShapeIns <- ShapeInsMC
  ShapeLists <- ShapeListsMC
  Ints <- IntsMC
  Bounds <- BoundsMC
  Steps <- StepsMC
  IntLists <- IntListsMC
  PadLists <- PadListsMC
INVARIANTS HistoryFree NoNarrowing ResultShape  ReducesSection
CHECK_DEADLOCK FALSE
