CONSTANTS
  Keys = {k1, k2}
  NoKey = NoKey
  TotalSlots = 1
  MaxGeneration = 1
  RankCount = 1
  MaxPins = 0
  MaxCheckpointSeq = 2
  ReadFaults = TRUE
SPECIFICATION Spec
INVARIANT ServesOwnPayload
