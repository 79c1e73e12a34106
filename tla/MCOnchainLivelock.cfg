SPECIFICATION FairSpec
CONSTANTS
  Worlds <- Uncanceled
  RangeSize = 3
  Overlap = 1
  LegacyHeads = {}
  MaxBlock = 6
  MaxFaults = 2
PROPERTY BaselineCompletes
