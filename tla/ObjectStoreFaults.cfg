CONSTANTS
  Keys = {k1, k2}
  NoKey = NoKey
  TotalSlots = 2
  MaxGeneration = 1
  RankCount = 1
  MaxPins = 1
  MaxCheckpointSeq = 1
  ReadFaults = TRUE
SYMMETRY KeySymmetry
SPECIFICATION Spec
INVARIANTS TypeOK LiveSlotsAreExclusive
PROPERTIES PinnedObjectsStay
