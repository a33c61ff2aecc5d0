----------------------------- MODULE ChunkIndex -----------------------------
(***************************************************************************)
(* The semantic index of chunk keys (tutti/index/chunk_index.py): one copy *)
(* in the scheduler process and one in every worker.  An index is a record *)
(* of the resident keys, oldest first, and of the age of every pending     *)
(* reservation; each method is an operator from an index to the next one.  *)
(* Pin counts are kept by the callers, which pass the pinned keys.         *)
(*                                                                         *)
(* pend[k] is 0 when k is not pending and otherwise 1 + epoch - the epoch  *)
(* of its plan.  The _planned_store_keys set that both users of the index  *)
(* keep beside it always equals the pending keys and is not repeated.      *)
(***************************************************************************)
EXTENDS Naturals, Integers, Sequences, SequencesExt, FiniteSets

CONSTANTS
  Keys,       \* chunk keys
  Capacity    \* chunks the index may hold

EmptyIndex == [res |-> <<>>, pend |-> [k \in Keys |-> 0]]

Resident(i) == ToSet(i.res)
Pending(i) == {k \in Keys : i.pend[k] > 0}

Without(s, K) == SelectSeq(s, LAMBDA k : k \notin K)
MoveToEnd(s, k) == Append(Without(s, {k}), k)

\* A hit makes every matched chunk the most recently used, in prefix order.
LookupPrefix(i, ks) == [i EXCEPT !.res = FoldLeft(MoveToEnd, @, ks)]

\* advance_epoch, then reclaim_stale_pending.
OnlyAdvance(i, maxAge) ==
  [i EXCEPT !.pend = [k \in Keys |-> IF @[k] = 0 THEN 0 ELSE @[k] + 1]]
BeginStep(i, maxAge) ==
  [i EXCEPT !.pend = [k \in Keys |->
     IF @[k] = 0 \/ @[k] >= maxAge THEN 0 ELSE @[k] + 1]]

(* ---- plan_store ---- *)

NewKeys(i, ks) == Without(ks, Resident(i))
DeficitIgnoringPending(i, ks) ==
  Len(NewKeys(i, ks)) - (Capacity - Len(i.res))
Deficit(i, ks) ==
  Len(NewKeys(i, ks)) - (Capacity - Len(i.res) - Cardinality(Pending(i)))

\* The oldest resident keys that are neither in the batch nor pinned.
Evictable(i, ks, pinned) == Without(i.res, ToSet(ks) \cup pinned)
Victims(i, ks, pinned) ==
  IF Deficit(i, ks) > 0
  THEN SubSeq(Evictable(i, ks, pinned), 1, Deficit(i, ks)) ELSE <<>>

\* plan_store answers None, changing nothing, unless this holds.
CanPlan(i, ks, pinned) ==
  /\ ToSet(ks) \cap Pending(i) = {}
  /\ Len(Evictable(i, ks, pinned)) >= Deficit(i, ks)

PlanStore(i, ks, pinned) ==
  [res  |-> Without(i.res, ToSet(Victims(i, ks, pinned))),
   pend |-> [k \in Keys |->
               IF k \in ToSet(NewKeys(i, ks)) THEN 1 ELSE i.pend[k]]]

(* ---- confirm_store and forget ---- *)

\* Settled keys stop being pending, and with ok become the most recent ones,
\* also when they were not pending.
ConfirmStore(i, ks, ok) ==
  [res  |-> IF ok THEN FoldLeft(MoveToEnd, i.res, ks) ELSE i.res,
   pend |-> [k \in Keys |-> IF k \in ToSet(ks) THEN 0 ELSE i.pend[k]]]

Forget(i, K, pinned) == [i EXCEPT !.res = Without(@, K \ pinned)]

\* Ages stay below the limit at which begin_step reclaims them.
IndexType(maxAge) ==
  [res : UNION {[1..n -> Keys] : n \in 0..Cardinality(Keys)},
   pend : [Keys -> 0..maxAge]]
=============================================================================
