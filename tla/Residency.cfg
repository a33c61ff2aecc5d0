SPECIFICATION Spec
CONSTANTS
  k1 = k1
  k2 = k2
  k3 = k3
  r1 = r1
  r2 = r2
  Keys = {k1, k2, k3}
  Ranks = {r1, r2}
  Capacity = 2
  MaxLoads = 1
  MaxSaves = 2
  SchedulerAge = 3
  WorkerAge = 2
SYMMETRY SyncSymmetry
INVARIANTS
  SyncTypeOK
  ReadsAreProtected
  CapacityHolds
  ReservationsSettleInStep
PROPERTIES
  PublishedIsHeldByAll
  GhostHitsHeal
