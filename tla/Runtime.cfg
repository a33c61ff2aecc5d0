SPECIFICATION Spec
CONSTANTS
  th1 = th1
  th2 = th2
  Threads = {th1, th2}
  Memories = {1}
  NMemories = 1
  NTargets = 1
  NPaths = 1
  AsyncPaths = {}
  OpNames = {1, 2}
  MaxIo = 2
  MaxInFlight = 2
  MaxOpens = 1
  MaxBatch = 1
  MaxTerminal = 1
  Faults = {"progress", "observe", "query", "timeout"}
SYMMETRY ThreadSymmetry
INVARIANTS
  RuntimeTypeOK
  AccountsBalance
  
  WaitIsTruthful
\* A stopped runtime stays stopped.
CHECK_DEADLOCK FALSE
