--------------------------- MODULE MCResidencySync ---------------------------
(* Model values for ResidencySync.  Chunk keys are interchangeable, and so  *)
(* are the ranks.                                                           *)
EXTENDS ResidencySync

CONSTANTS k1, k2, k3, r1, r2

SyncSymmetry == Permutations({k1, k2, k3}) \cup Permutations({r1, r2})
==============================================================================
