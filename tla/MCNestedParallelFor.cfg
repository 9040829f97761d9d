SPECIFICATION Spec
CONSTANTS
  Apps <- MCApps
  Workers = {1}
  Counts = {0, 1, 2}
  Default = 1
  Ranges <- MCRanges
  Inner = {"none", "run", "parallel_for"}
  MaxPools = 3
PROPERTY CallsReturn
CHECK_DEADLOCK FALSE
