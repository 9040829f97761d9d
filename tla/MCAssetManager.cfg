SPECIFICATION SpecMC
CONSTANTS
  Ids = {a, b}
  Callers = {c, d}
  PkgSize <- MCSizes
  MaxAssets = 2
  Faults = {"db", "move"}
  MaxCalls = 4
  MaxCrashes = 1
  Names = {"a", "b"}
  Bytes <- MCBytes
  Directories <- MCDirectories
  Targets <- MCTargets
  PageSize = 4
  FsAlignments = {1, 4}
  PyHeader = 1
  LargeModel = 20
  Texts <- MCTexts
  ChunkSize = 2
  MaxRead = 7
  MaxFsCalls = 2
SYMMETRY Symmetry
CHECK_DEADLOCK FALSE
INVARIANTS  FilesSurvive
  
