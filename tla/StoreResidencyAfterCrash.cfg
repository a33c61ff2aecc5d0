CONSTANTS
  Keys = {k1, k2}
  NoKey = NoKey
  TotalSlots = 1
  MaxGeneration = 1
  RankCount = 2
  MaxPins = 0
  MaxCheckpointSeq = 2
  ReadFaults = FALSE
SPECIFICATION Spec
INVARIANT ResidencyNeverOverReports
