CONSTANTS
  Keys = {k1, k2}
  NoKey = NoKey
  TotalSlots = 2
  MaxGeneration = 1
  RankCount = 1
  MaxPins = 0
  MaxCheckpointSeq = 2
  ReadFaults = FALSE
SYMMETRY KeySymmetry
SPECIFICATION Spec
INVARIANTS ServesOwnPayload StoreInv
