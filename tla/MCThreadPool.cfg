SPECIFICATION Spec
CONSTANTS
  Apps <- MCApps
  Workers = {1}
  Counts = {0, 1, 2}
  Default = 1
  Ranges <- MCRanges
  Inner = {"none", "run"}
  MaxPools = 3
INVARIANTS ProcessedOnce SerializedOnLivePool OwnSlot
PROPERTY CallsReturn
CHECK_DEADLOCK FALSE
