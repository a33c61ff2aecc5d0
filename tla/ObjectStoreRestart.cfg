CONSTANTS
  Keys = {k1}
  NoKey = NoKey
  TotalSlots = 2
  MaxGeneration = 1
  RankCount = 1
  MaxPins = 0
  MaxCheckpointSeq = 4
  ReadFaults = FALSE
SPECIFICATION Spec
PROPERTIES DurableCacheSpec
