SPECIFICATION Spec
CONSTANTS
  t1 = t1
  t2 = t2
  Graphs = {1, 2}
  Models <- RtModels
  MaxQueryCount = 6
  MaxExecutions = 2
  Programs <- MCPrograms
  MaxCalls = 2
  Clients = {1}
  Buffers <- AllBuffers
  CallsPerClient = 2
  Lengths = {2}
  Faults = {"none", "reshape", "setup", "invoke", "shape", "timing", "int", "channels_last", "dims"}
  Managers = {"m1", "m2"}
  Setups <- SetupsMC
  Aot <- AotMC
  Slots <- SlotsMC
  SlotBytes = 16
  Infos <- InfosMC
  ArgTuples <- ArgTuplesMC
  Colliding <- CollidingMC
  MaxRename = 3
  MaxRuns = 2
SYMMETRY MCSymmetry
INVARIANTS   LoadsSound GraphAsLowered DeviceObjectsHold
CHECK_DEADLOCK FALSE
