SPECIFICATION Spec
CONSTANTS
  Instructions <- InstructionsMC
  IndexIns <- IndexInsMC
  Indexes <- IndexesMC
  Sources <- SourcesMC
  IndexLists <- IndexListsMC
  IndexDims <- IndexDimsMC
  Matrices <- MatricesMC
  Vectors <- VectorsMC
  ConvIns <- ConvInsMC
  ConvWeights <- ConvWeightsMC
  ConvArgs <- ConvArgsMC
  PoolIns <- PoolInsMC
  PoolArgs <- PoolArgsMC
  NormIns <- NormInsMC
  NormShapes <- NormShapesMC
  Tables <- TablesMC
  Rows <- RowsMC
  VecSize = 2
  ChunkSize = 2
  Operands <- OperandsMC
  ScalarArgs <- ScalarArgsMC
  Factors <- FactorsMC
  GemmCalls <- GemmCallsMC
  SoftmaxIns <- SoftmaxInsMC
  NormalizedIns <- NormalizedInsMC
  NormalizedShapes <- NormalizedShapesMC
  Affine <- AffineMC
  QTables <- QTablesMC
  TableScales <- TableScalesMC
  TableIndices <- TableIndicesMC
  Weights <- WeightsMC
  WeightScales <- WeightScalesMC
  FloatIns <- FloatInsMC
  QuantIns <- QuantInsMC
  ChannelScales <- ChannelScalesMC
  ChannelZeros <- ChannelZerosMC
  Samples <- SamplesMC
  QuantRanges <- QuantRangesMC
  Signals <- SignalsMC
  Filters <- FiltersMC
  Batches <- BatchesMC
  QRows <- QRowsMC
  QSplit = 3
  KVSplit = 4
  Queries <- QueriesMC
  Caches <- CachesMC
  Masks <- MasksMC
  Images <- ImagesMC
INVARIANTS ElementsNamed OptimizedLoops Quantizing CustomOps
CHECK_DEADLOCK FALSE
