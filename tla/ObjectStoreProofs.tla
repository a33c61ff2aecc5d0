-------------------------- MODULE ObjectStoreProofs --------------------------
(***************************************************************************)
(* Proofs about the object store, for every set of keys and every number   *)
(* of slots: when metadata reads do not fail, StoreInv is inductive, so    *)
(* ServesOwnPayload holds through every crash and restart.                 *)
(***************************************************************************)
EXTENDS StoreOperationProofs

USE NoKeyAssumption, RankCountAssumption, MaxPinsAssumption,
    MaxCheckpointSeqAssumption, ReadFaultsAssumption, TotalSlotsAssumption,
    MaxGenerationAssumption

-----------------------------------------------------------------------------
\* A step that leaves index, allocator and media alone keeps the invariant.
LEMMA QuietStep ==
  ASSUME StoreInv, TypeOK', UNCHANGED <<allocVars, opened, index>>,
         UNCHANGED <<header, payload, containers>>
  PROVE  StoreInv'
<1>1. SlotsPartitioned'
  BY AllocUnchanged DEF StoreInv, TypeOK, AllocInv
<1>2. LiveSlotsAreExclusive' /\ ServesOwnPayload'
  BY DEF StoreInv, LiveSlotsAreExclusive, ServesOwnPayload, Live, Committed,
         allocVars
<1>3. ClosedIsFresh'
  BY DEF StoreInv, ClosedIsFresh, AllocInit, allocVars
<1>4. ContainersOrdered' /\ Newest' = Newest
  BY ContainersUnchanged DEF StoreInv
<1>5. NewestIsTrue'
  BY <1>4 DEF StoreInv, NewestIsTrue, Newest, HeaderMatches, Protected, Live,
              allocVars
<1> QED
  BY <1>1, <1>2, <1>3, <1>4, <1>5 DEF StoreInv

\* pin() and unpin() touch only the pin counts.
LEMMA PinsInv ==
  ASSUME StoreInv, NEW k \in Keys, Pin(k) \/ Unpin(k)
  PROVE  StoreInv'
<1>1. pins' \in [Keys -> 0 .. MaxPins]
  BY DEF Pin, Unpin, SetPins, StoreInv, TypeOK
<1>2. UNCHANGED <<allocVars, opened, index, checkpoint_seq, checkpoint_dirty,
                  mediaVars>>
  BY DEF Pin, Unpin, SetPins
<1>3. TypeOK'
  BY <1>1, <1>2 DEF StoreInv, TypeOK, AllocTypeOK, allocVars, mediaVars
<1> QED
  BY <1>2, <1>3, QuietStep DEF mediaVars

-----------------------------------------------------------------------------
\* drain_reclaim() in the allocator: the oldest queued slot becomes free.
LEMMA RecycleInv ==
  ASSUME StoreInv, DrainReclaim
  PROVE  AllocInv'
<1> USE DEF AllocInv, SlotsPartitioned
<1> DEFINE slot == Head(reclaim_queue)
<1>1. /\ reclaim_queue' \in Seq(Slots) /\ slot \in Slots
      /\ slot \in Elements(reclaim_queue) /\ NoDuplicates(reclaim_queue')
      /\ Elements(reclaim_queue') = Elements(reclaim_queue) \ {slot}
  BY TailElements DEF DrainReclaim, StoreInv, TypeOK, AllocTypeOK, ReclaimExact
<1>2. /\ generations[slot] < MaxGeneration
      /\ generations' = [generations EXCEPT ![slot] = @ + 1]
      /\ states' = [states EXCEPT ![slot] = "free"]
      /\ free_list' = Append(free_list, slot)
      /\ UNCHANGED <<reclaim_in_flight, high_water, ready_limit>>
  BY DEF DrainReclaim
<1> HIDE DEF slot
<1>3. states[slot] = "reclaiming" /\ slot \notin reclaim_in_flight
      /\ slot \notin Elements(free_list) /\ slot < high_water
  BY <1>1 DEF ReclaimExact, FreeListExact, StoreInv, TypeOK, AllocTypeOK, Slots
<1>4. /\ free_list' \in Seq(Slots) /\ NoDuplicates(free_list')
      /\ Elements(free_list') = Elements(free_list) \cup {slot}
  <2>1. free_list \in Seq(Slots) /\ NoDuplicates(free_list)
    BY DEF StoreInv, TypeOK, AllocTypeOK, FreeListExact
  <2> QED
    BY <1>1, <1>2, <1>3, <2>1, AppendElements
<1>5. AllocTypeOK'
  BY <1>1, <1>2, <1>4 DEF StoreInv, TypeOK, AllocTypeOK, SlotState
<1>6. FreeListExact'
  BY <1>1, <1>2, <1>3, <1>4 DEF StoreInv, TypeOK, AllocTypeOK, FreeListExact
<1>7. ReclaimExact'
  BY <1>1, <1>2, <1>3 DEF StoreInv, TypeOK, AllocTypeOK, ReclaimExact
<1> QED
  BY <1>5, <1>6, <1>7

\* drain_reclaim(): the slot loses its header before it can be handed out.
LEMMA DrainReclaimInv ==
  ASSUME StoreInv, DrainReclaim
  PROVE  StoreInv'
<1> DEFINE slot == Head(reclaim_queue)
<1>1. slot \in Slots /\ states[slot] = "reclaiming"
  BY TailElements DEF DrainReclaim, StoreInv, TypeOK, AllocTypeOK,
                      SlotsPartitioned, ReclaimExact
<1>2. /\ header' = [header EXCEPT ![slot] = NoHeader]
      /\ payload' = [payload EXCEPT ![slot] = NoKey]
      /\ states' = [states EXCEPT ![slot] = "free"]
      /\ UNCHANGED memVars /\ UNCHANGED <<containers, residency>> /\ opened
  BY DEF DrainReclaim
<1> HIDE DEF slot
<1>3. AllocInv'
  BY RecycleInv
<1>4. NoHeader \in Header
  BY DEF NoHeader, Header
<1>5. TypeOK'
  BY <1>1, <1>2, <1>3, <1>4 DEF StoreInv, TypeOK, AllocInv, memVars
<1>6. \A s \in Slots : s # slot => /\ states'[s] = states[s]
                                   /\ payload'[s] = payload[s]
                                   /\ header'[s] = header[s]
  BY <1>1, <1>2 DEF StoreInv, TypeOK, AllocTypeOK
<1>7. \A k \in Keys : /\ index[k].slot \in Slots
                      /\ Live(k) => index[k].slot # slot
  BY <1>1 DEF StoreInv, TypeOK, Entry, LiveSlotsAreExclusive
<1>8. index' = index /\ opened'
  BY <1>2 DEF memVars
<1>9. LiveSlotsAreExclusive'
  BY <1>6, <1>7, <1>8 DEF StoreInv, LiveSlotsAreExclusive, Live
<1>10. ServesOwnPayload'
  BY <1>6, <1>7, <1>8 DEF StoreInv, ServesOwnPayload, Committed, Live
<1>11. ClosedIsFresh'
  BY <1>8 DEF ClosedIsFresh
<1>12. ContainersOrdered'
  BY <1>2, ContainersUnchanged DEF StoreInv
<1>13. header'[slot] = NoHeader
  BY <1>1, <1>2 DEF StoreInv, TypeOK
<1>14. \A e \in CheckpointEntry :
         header'[e.slot] # NoHeader /\ Protected(e) => Protected(e)'
  BY <1>6, <1>8, <1>13 DEF Protected, Live, CheckpointEntry
<1>15. \A s \in Slots : \/ header'[s] = header[s] /\ payload'[s] = payload[s]
                        \/ header'[s] = NoHeader
  BY <1>6, <1>13
<1>16. NewestIsTrue'
  BY <1>2, <1>14, <1>15, NewestKept
<1> QED
  BY <1>3, <1>5, <1>9, <1>10, <1>11, <1>12, <1>16 DEF StoreInv, AllocInv

\* drain_reclaim() that fails rotates the queue and at most scrubs the slot,
\* header first.
LEMMA DrainReclaimFailsInv ==
  ASSUME StoreInv, DrainReclaimFails
  PROVE  StoreInv'
<1> DEFINE slot == Head(reclaim_queue)
<1>1. /\ slot \in Slots /\ states[slot] = "reclaiming"
      /\ slot \in Elements(reclaim_queue)
      /\ Tail(reclaim_queue) \in Seq(Slots) /\ NoDuplicates(Tail(reclaim_queue))
      /\ Elements(Tail(reclaim_queue)) = Elements(reclaim_queue) \ {slot}
  BY TailElements DEF DrainReclaimFails, StoreInv, TypeOK, AllocTypeOK,
                      SlotsPartitioned, ReclaimExact
<1>2. /\ reclaim_queue' = Append(Tail(reclaim_queue), slot)
      /\ UNCHANGED <<states, generations, free_list, reclaim_in_flight,
                     high_water, ready_limit>>
      /\ UNCHANGED memVars /\ UNCHANGED <<containers, residency>> /\ opened
      /\ \/ header' = header /\ payload' = payload
         \/ /\ header' = [header EXCEPT ![slot] = NoHeader]
            /\ payload' = payload
               \/ payload' = [payload EXCEPT ![slot] = NoKey]
  BY DEF DrainReclaimFails
<1> HIDE DEF slot
<1>3. /\ reclaim_queue' \in Seq(Slots) /\ NoDuplicates(reclaim_queue')
      /\ Elements(reclaim_queue') = Elements(reclaim_queue)
  <2>1. slot \notin Elements(Tail(reclaim_queue))
    BY <1>1
  <2>2. /\ reclaim_queue' \in Seq(Slots) /\ NoDuplicates(reclaim_queue')
        /\ Elements(reclaim_queue') = Elements(Tail(reclaim_queue)) \cup {slot}
    <3> DEFINE t == Tail(reclaim_queue)
    <3>1. /\ t \in Seq(Slots) /\ NoDuplicates(t) /\ slot \notin Elements(t)
          /\ slot \in Slots /\ reclaim_queue' = Append(t, slot)
      BY <1>1, <1>2, <2>1
    <3> HIDE DEF t
    <3>2. /\ reclaim_queue' \in Seq(Slots) /\ NoDuplicates(reclaim_queue')
          /\ Elements(reclaim_queue') = Elements(t) \cup {slot}
      BY <3>1, AppendElements
    <3> QED
      BY <3>2 DEF t
  <2> QED
    BY <1>1, <2>2
<1>4. SlotsPartitioned'
  <2>1. FreeListExact'
    <3>1. FreeListExact /\ UNCHANGED <<states, free_list, high_water>>
      BY <1>2 DEF StoreInv, SlotsPartitioned
    <3> QED
      BY <3>1 DEF FreeListExact, NoDuplicates, Elements
  <2>2. ReclaimExact'
    BY <1>2, <1>3 DEF StoreInv, SlotsPartitioned, ReclaimExact
  <2> QED
    BY <2>1, <2>2 DEF SlotsPartitioned
<1>5. NoHeader \in Header
  BY DEF NoHeader, Header
<1>6. header' \in [Slots -> Header] /\ payload' \in [Slots -> Keys \cup {NoKey}]
  <2>1. header \in [Slots -> Header] /\ payload \in [Slots -> Keys \cup {NoKey}]
    BY DEF StoreInv, TypeOK
  <2>2. header' \in [Slots -> Header]
    BY <1>1, <1>2, <1>5, <2>1
  <2>3. payload' \in [Slots -> Keys \cup {NoKey}]
    BY <1>1, <1>2, <2>1
  <2> QED
    BY <2>2, <2>3
<1>7. TypeOK'
  BY <1>2, <1>3, <1>6 DEF StoreInv, TypeOK, AllocTypeOK, memVars
<1>8. /\ \A s \in Slots : s # slot => /\ payload'[s] = payload[s]
                                      /\ header'[s] = header[s]
      /\ \/ header'[slot] = header[slot] /\ payload'[slot] = payload[slot]
         \/ header'[slot] = NoHeader
  BY <1>1, <1>2 DEF StoreInv, TypeOK
<1>9. \A k \in Keys : /\ index[k].slot \in Slots
                      /\ Live(k) => index[k].slot # slot
  BY <1>1, Zenon DEF StoreInv, TypeOK, Entry, LiveSlotsAreExclusive
<1>10. index' = index /\ opened' /\ states' = states
  BY <1>2 DEF memVars
<1>11. LiveSlotsAreExclusive'
  BY <1>10 DEF StoreInv, LiveSlotsAreExclusive, Live
<1>12. ServesOwnPayload'
  BY <1>8, <1>9, <1>10 DEF StoreInv, ServesOwnPayload, Committed, Live
<1>13. ClosedIsFresh'
  BY <1>10 DEF ClosedIsFresh
<1>14. ContainersOrdered'
  BY <1>2, ContainersUnchanged DEF StoreInv
<1>15. \A e \in CheckpointEntry : Protected(e) => Protected(e)'
  BY <1>10 DEF Protected, Live
<1>16. \A s \in Slots : \/ header'[s] = header[s] /\ payload'[s] = payload[s]
                        \/ header'[s] = NoHeader
  BY <1>8
<1>17. NewestIsTrue'
  BY <1>2, <1>15, <1>16, NewestKept
<1> QED
  BY <1>4, <1>7, <1>11, <1>12, <1>13, <1>14, <1>17 DEF StoreInv

-----------------------------------------------------------------------------
\* Every step of the store keeps the invariant.
LEMMA NextInv ==
  ASSUME ReadFaults = FALSE
  PROVE  StoreInv /\ [Next]_vars => StoreInv'
<1> SUFFICES ASSUME StoreInv, [Next]_vars PROVE StoreInv'
  OBVIOUS
<1>1. CASE UNCHANGED vars
  <2>1. UNCHANGED <<allocVars, memVars, mediaVars>>
    BY <1>1 DEF vars
  <2>2. TypeOK'
    BY <2>1 DEF StoreInv, TypeOK, AllocTypeOK, allocVars, memVars, mediaVars
  <2> QED
    BY <2>1, <2>2, QuietStep DEF memVars, mediaVars
<1>2. CASE \E k \in Keys : Reserve(k) \/ WritePayload(k) \/ Abort(k)
                           \/ Release(k) \/ Pin(k) \/ Unpin(k)
  BY <1>2, ReserveKeyInv, WritePayloadInv, AbortInv, ReleaseInv, PinsInv
<1>3. CASE \E K \in SUBSET Keys : Commit(K) \/ \E f \in Keys : CommitFails(K, f)
  BY <1>3, CommitKeysInv, CommitFailsInv
<1>4. CASE DrainReclaim \/ DrainReclaimFails \/ Checkpoint \/ CheckpointFails
  BY <1>4, DrainReclaimInv, DrainReclaimFailsInv, CheckpointInv,
     CheckpointFailsInv, Zenon
<1>5. CASE Open \/ Close \/ Crash
  BY <1>5, OpenInv, CloseInv, CrashInv, Zenon
<1> QED
  BY <1>1, <1>2, <1>3, <1>4, <1>5 DEF Next

\* The inductive invariant holds in every reachable state.
THEOREM StoreInvariant ==
  ASSUME ReadFaults = FALSE
  PROVE  Spec => []StoreInv
  BY InitInv, NextInv, PTL DEF Spec

\* The fields of the store and the media keep their types.
THEOREM StoreTypeCorrect ==
  ASSUME ReadFaults = FALSE
  PROVE  Spec => []TypeOK
<1>1. StoreInv => TypeOK
  BY DEF StoreInv
<1> QED
  BY <1>1, StoreInvariant, PTL

\* As long as metadata reads do not fail, a key that lookup() finds is served
\* its own whole payload, for any number of keys, slots and restarts.
THEOREM StoreServesOwnPayload ==
  ASSUME ReadFaults = FALSE
  PROVE  Spec => []ServesOwnPayload
<1>1. StoreInv => ServesOwnPayload
  BY DEF StoreInv
<1> QED
  BY <1>1, StoreInvariant, PTL

\* Two keys never share a slot and no live slot is free or being reclaimed.
THEOREM StoreSlotsExclusive ==
  ASSUME ReadFaults = FALSE
  PROVE  Spec => []LiveSlotsAreExclusive
<1>1. StoreInv => LiveSlotsAreExclusive
  BY DEF StoreInv
<1> QED
  BY <1>1, StoreInvariant, PTL
=============================================================================
