---------------------------- MODULE DurableCache ----------------------------
(***************************************************************************)
(* What the object store promises across restarts.                         *)
(*                                                                         *)
(* A copy is one storing of a key: storing a key again after it was        *)
(* released makes another copy.  live is the set of copies lookups find    *)
(* while the store is up, recoverable the set of copies the next start     *)
(* will find.  Losing a copy costs a recomputation, so a commit alone      *)
(* promises nothing; but a checkpoint makes every live copy recoverable at *)
(* once, no crash, failed write or later checkpoint attempt takes a live   *)
(* copy out of recoverable, and a start brings back exactly what is        *)
(* recoverable.                                                            *)
(***************************************************************************)
CONSTANT Copies

VARIABLES up, live, recoverable

cacheVars == <<up, live, recoverable>>

Init ==
  /\ up = FALSE
  /\ live = {}
  /\ recoverable = {}

Start ==
  /\ ~up
  /\ up' = TRUE
  /\ live' = recoverable
  /\ UNCHANGED recoverable

\* A crash, or a shutdown that may have saved the live copies.
Stop ==
  /\ up
  /\ up' = FALSE
  /\ live' = {}
  /\ recoverable' \in {recoverable, live}

\* More copies become live; copies whose header reached the media may become
\* recoverable without a checkpoint, and none that is live stops being so.
Commit ==
  /\ up
  /\ live \subseteq live' /\ live' \in SUBSET Copies
  /\ recoverable \cap live \subseteq recoverable'
  /\ recoverable' \in SUBSET Copies
  /\ UNCHANGED up

Release(c) ==
  /\ live' = live \ {c}
  /\ UNCHANGED <<up, recoverable>>

\* The space of a copy that is not live is scrubbed.
Forget(c) ==
  /\ up
  /\ c \notin live
  /\ recoverable' = recoverable \ {c}
  /\ UNCHANGED <<up, live>>

Save ==
  /\ up
  /\ recoverable' = live
  /\ UNCHANGED <<up, live>>

Next ==
  \/ Start
  \/ Stop
  \/ Commit
  \/ \E c \in live : Release(c)
  \/ \E c \in recoverable : Forget(c)
  \/ Save

Spec == Init /\ [][Next]_cacheVars
=============================================================================
