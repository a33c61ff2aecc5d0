-------------------------- MODULE MCStorageRuntime --------------------------
(* Model values and symmetry for the runs of StorageRuntime. *)
EXTENDS StorageRuntime

CONSTANTS th1, th2


\* Threads only differ in the call they are in.  Used by the runs that check
\* invariants, not by the one that checks a liveness property.
ThreadSymmetry == Permutations({th1, th2})
=============================================================================
