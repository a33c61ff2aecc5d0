CONSTANTS
  TotalSlots = 3
  MaxGeneration = 2
SPECIFICATION AllocSpec
INVARIANTS
  AllocTypeOK
  SlotsPartitioned
PROPERTIES
  ScrubBeforeReuse
