SPECIFICATION MCSpec
CONSTANTS
  m1 = m1
  m2 = m2
  local = local
  Objects <- MCObjects
  Local = local
  None = None
  NValue = 3
  IntLists = {1}
  NDelegate = 3
  Segments = {0, 2}
  NChain = 2
  NInstr <- MCNInstr
  Kind <- MCKind
  Nothing = Nothing
  Files <- MCFiles
  Modes = {"File", "FileAligned", "Mmap", "MmapUseMlock", "MmapUseMlockIgnoreErrors", "Buffer"}
  Spans <- MCSpans
  Given <- MCGiven
  Scripts <- MCScripts
  PageSize = 32
  MaxAlign = 4
  MaxKernels = 4
  MaxOps = 3
INVARIANTS ReleasedOnce NoLeak SegmentOutlivesHandle ReadyToRun LoadedBytes NothingLost
CHECK_DEADLOCK FALSE
