SPECIFICATION Spec
CONSTANTS
  th1 = th1
  th2 = th2
  Threads = {th1, th2}
  Memories = {1}
  NMemories = 1
  NTargets = 2
  NPaths = 2
  AsyncPaths = {1, 2}
  OpNames = {1}
  MaxIo = 1
  MaxInFlight = 2
  MaxOpens = 1
  MaxBatch = 2
  MaxTerminal = 2
  Faults = {"reject", "guard", "progress", "observe"}
SYMMETRY ThreadSymmetry
INVARIANTS
  InFlightOpsStayDriven
  ReleasesAreRemembered
\* A stopped runtime stays stopped.
CHECK_DEADLOCK FALSE
