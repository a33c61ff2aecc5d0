-------------------------- MODULE CheckpointProofs ---------------------------
(***************************************************************************)
(* Proofs about the checkpoint containers and about recovery: a container  *)
(* write, whatever it leaves, keeps the newest container truthful, and     *)
(* checkpoint(), close(), a crash and open() preserve StoreInv.            *)
(***************************************************************************)
EXTENDS ObjectStore, SpaceAllocatorProofs

Newest == SelectContainer(Sequences({}))

USE NoKeyAssumption, RankCountAssumption, MaxPinsAssumption,
    MaxCheckpointSeqAssumption, ReadFaultsAssumption, TotalSlotsAssumption,
    MaxGenerationAssumption

-----------------------------------------------------------------------------
\* The containers.

\* Without read faults every pass over the media sees all of it.
LEMMA NoFaults == ASSUME ReadFaults = FALSE, NEW S PROVE FaultSets(S) = {{}}
  BY DEF FaultSets

\* select_checkpoint_container() picks the container with the larger
\* sequence.
LEMMA NewestFacts ==
  ASSUME TypeOK
  PROVE  /\ Sequences({}) = [c \in Containers |-> containers[c].seq]
         /\ Newest \in Containers
         /\ containers[0].seq \in Nat /\ containers[1].seq \in Nat
         /\ Newest = IF containers[1].seq > containers[0].seq THEN 1 ELSE 0
         /\ HighestSeq(Sequences({})) = containers[Newest].seq
<1>1. Sequences({}) = [c \in Containers |-> containers[c].seq]
  BY DEF Sequences
<1>2. containers[0].seq \in Nat /\ containers[1].seq \in Nat
  BY DEF TypeOK, Container, Containers
<1> QED
  BY <1>1, <1>2 DEF Newest, SelectContainer, HighestSeq, Containers

\* A checkpoint write that fails without landing cannot disturb the newest
\* container: next_checkpoint_container() never picks it.
LEMMA NewestSurvives ==
  ASSUME TypeOK, ContainersOrdered,
         NEW found \in {containers[NextContainer(Sequences({}))], NoCheckpoint},
         containers' =
           [containers EXCEPT ![NextContainer(Sequences({}))] = found]
  PROVE  /\ containers' \in [Containers -> Container]
         /\ ContainersOrdered'
         /\ containers'[Newest'].entries \subseteq containers[Newest].entries
<1> DEFINE t == NextContainer(Sequences({}))
<1>1. t \in Containers
      /\ t = IF containers[0].seq = 0 THEN 0
             ELSE IF containers[1].seq = 0 THEN 1
             ELSE IF containers[1].seq < containers[0].seq THEN 1 ELSE 0
  BY NewestFacts DEF NextContainer, Containers
<1>2. NoCheckpoint \in Container /\ containers \in [Containers -> Container]
  BY DEF NoCheckpoint, Container, TypeOK
<1> HIDE DEF t
<1>3. containers' \in [Containers -> Container]
  BY <1>1, <1>2 DEF t
<1>4. /\ containers' = [containers EXCEPT ![t] = found]
      /\ found = containers[t] \/ found = NoCheckpoint
  BY DEF t
<1>5. \A c \in Containers : containers'[c] = IF c = t THEN found
                                                       ELSE containers[c]
  BY <1>2, <1>4
<1>6. ContainersOrdered'
  BY <1>1, <1>4, <1>5, NewestFacts
     DEF ContainersOrdered, NoCheckpoint, Containers
<1>7. Newest' = IF containers'[1].seq > containers'[0].seq THEN 1 ELSE 0
  BY <1>3 DEF Newest, Sequences, SelectContainer, Containers
<1>8. containers'[Newest'].entries \subseteq containers[Newest].entries
  <2>1. CASE found = containers[t]
    BY <1>2, <1>4, <1>5, <1>7, <2>1, NewestFacts DEF Containers
  <2>2. CASE found = NoCheckpoint
    BY <1>1, <1>2, <1>5, <1>7, <2>2, NewestFacts
       DEF ContainersOrdered, NoCheckpoint, Containers
  <2> QED
    BY <1>4, <2>1, <2>2
<1> QED
  BY <1>3, <1>6, <1>8

\* A checkpoint image that reaches the media becomes the newest container.
LEMMA ImageIsNewest ==
  ASSUME TypeOK, ContainersOrdered,
         WriteContainer(Sequences({}), CheckpointImage(Sequences({})))
  PROVE  /\ containers' \in [Containers -> Container]
         /\ ContainersOrdered'
         /\ containers'[Newest'].entries = CommittedEntries
         /\ NextSeq(Sequences({})) \in 0 .. MaxCheckpointSeq
<1> DEFINE t == NextContainer(Sequences({}))
           image == CheckpointImage(Sequences({}))
<1>1. t \in Containers
  BY NewestFacts DEF NextContainer, Containers
<1>2. /\ image.seq \in 0 .. MaxCheckpointSeq
      /\ image.seq > containers[0].seq /\ image.seq > containers[1].seq
  BY NewestFacts DEF CheckpointImage, NextSeq, WriteContainer, TypeOK,
                     Containers
<1>3. CommittedEntries \subseteq CheckpointEntry
  BY DEF CommittedEntries, CheckpointEntry, TypeOK, Entry
<1>4. image = [seq |-> image.seq, entries |-> CommittedEntries]
  BY DEF CheckpointImage
<1>5. image \in Container
  BY <1>2, <1>3, <1>4 DEF Container
<1>6. containers' = [containers EXCEPT ![t] = image]
  BY DEF WriteContainer
<1>7. image.seq = NextSeq(Sequences({}))
  BY DEF CheckpointImage
<1> HIDE DEF t, image
<1>8. /\ containers' \in [Containers -> Container]
      /\ \A c \in Containers : containers'[c] = IF c = t THEN image
                                                         ELSE containers[c]
  BY <1>1, <1>5, <1>6 DEF TypeOK
<1>9. \A e, f \in CommittedEntries : e.key = f.key => e = f
  BY DEF CommittedEntries
<1>10. ContainersOrdered'
  <2>1. \A c \in Containers :
          /\ containers'[c].seq = 0 => containers'[c].entries = {}
          /\ \A e, f \in containers'[c].entries : e.key = f.key => e = f
    BY <1>2, <1>4, <1>8, <1>9, NewestFacts DEF ContainersOrdered
  <2>2. containers'[0].seq = containers'[1].seq => containers'[0].seq = 0
    BY <1>1, <1>2, <1>8, NewestFacts DEF ContainersOrdered, Containers
  <2> QED
    BY <2>1, <2>2 DEF ContainersOrdered
<1>11. Newest' = IF containers'[1].seq > containers'[0].seq THEN 1 ELSE 0
  BY <1>8 DEF Newest, Sequences, SelectContainer, Containers
<1>12. Newest' = t
  BY <1>1, <1>2, <1>8, <1>11, NewestFacts DEF Containers
<1> QED
  BY <1>1, <1>2, <1>4, <1>7, <1>8, <1>10, <1>12

\* A step that leaves the containers alone leaves the newest one alone.
LEMMA ContainersUnchanged ==
  ASSUME containers' = containers
  PROVE  Newest' = Newest /\ (ContainersOrdered => ContainersOrdered')
  BY DEF Newest, Sequences, SelectContainer, ContainersOrdered

-----------------------------------------------------------------------------
\* A sequence number that is not zero is positive.
LEMMA PositiveNat == \A n \in Nat : n # 0 => n > 0
  OBVIOUS

\* A key that is not in the index has a well-formed entry.
LEMMA AbsentFacts == Absent \in Entry /\ Absent.state = "absent"
<1>1. 0 \in Slots
  BY TotalSlotsAssumption DEF Slots
<1>2. 0 \in 0 .. MaxGeneration
  BY MaxGenerationAssumption
<1> QED
  BY <1>1, <1>2, SMTT(30) DEF Absent, Entry

-----------------------------------------------------------------------------
\* Whatever persist_checkpoint_locked() leaves in its target container, the
\* newest container stays truthful about the payloads.
LEMMA ContainerWrite ==
  ASSUME StoreInv, opened, NEW found \in FailedWrites(Sequences({})),
         WriteContainer(Sequences({}), found)
  PROVE  /\ containers' \in [Containers -> Container]
         /\ ContainersOrdered'
         /\ \A e \in containers'[Newest'].entries :
              HeaderMatches(e) => payload[e.slot] = e.key /\ Protected(e)
<1>1. CASE found = CheckpointImage(Sequences({}))
  <2>1. /\ containers' \in [Containers -> Container] /\ ContainersOrdered'
        /\ containers'[Newest'].entries = CommittedEntries
    BY <1>1, ImageIsNewest DEF StoreInv
  <2>2. \A e \in CommittedEntries :
          \E k \in Keys : Committed(k) /\ e.key = k /\ e.slot = index[k].slot
    BY DEF CommittedEntries
  <2>3. ASSUME NEW e \in CommittedEntries
        PROVE  payload[e.slot] = e.key /\ Protected(e)
    <3>1. PICK k \in Keys : Committed(k) /\ e.key = k /\ e.slot = index[k].slot
      BY <2>2, <2>3
    <3>2. payload[e.slot] = e.key
      BY <3>1 DEF StoreInv, ServesOwnPayload
    <3>3. Live(e.key) /\ index[e.key].slot = e.slot
      BY <3>1 DEF Live, Committed
    <3> QED
      BY <3>2, <3>3 DEF Protected
  <2> QED
    BY <2>1, <2>3
<1>2. CASE found \in {containers[NextContainer(Sequences({}))], NoCheckpoint}
  <2>1. /\ containers' \in [Containers -> Container] /\ ContainersOrdered'
        /\ containers'[Newest'].entries \subseteq containers[Newest].entries
    BY <1>2, NewestSurvives, Zenon DEF StoreInv, WriteContainer
  <2> QED
    BY <2>1 DEF StoreInv, NewestIsTrue, Newest
<1> QED
  BY <1>1, <1>2 DEF FailedWrites

\* checkpoint(), successful or not.
LEMMA CheckpointStep ==
  ASSUME StoreInv, opened, NEW found \in FailedWrites(Sequences({})),
         WriteContainer(Sequences({}), found),
         UNCHANGED <<allocVars, opened, index, pins, header, payload, residency>>,
         checkpoint_seq' \in 0 .. MaxCheckpointSeq,
         checkpoint_dirty' \in BOOLEAN
  PROVE  StoreInv'
<1>1. /\ containers' \in [Containers -> Container] /\ ContainersOrdered'
      /\ \A e \in containers'[Newest'].entries :
           HeaderMatches(e) => payload[e.slot] = e.key /\ Protected(e)
  BY ContainerWrite
<1>2. TypeOK'
  BY <1>1 DEF StoreInv, TypeOK, AllocTypeOK, allocVars
<1>3. SlotsPartitioned'
  BY AllocUnchanged DEF StoreInv, TypeOK, AllocInv
<1>4. LiveSlotsAreExclusive' /\ ServesOwnPayload'
  BY DEF StoreInv, LiveSlotsAreExclusive, ServesOwnPayload, Live, Committed,
         allocVars
<1>5. ClosedIsFresh'
  BY DEF ClosedIsFresh
<1>6. NewestIsTrue'
  BY <1>1 DEF NewestIsTrue, Newest, HeaderMatches, Protected, Live, allocVars
<1> QED
  BY <1>1, <1>2, <1>3, <1>4, <1>5, <1>6 DEF StoreInv

\* checkpoint() that succeeds.
LEMMA CheckpointInv ==
  ASSUME StoreInv, ReadFaults = FALSE, Checkpoint
  PROVE  StoreInv'
<1>1. /\ WriteContainer(Sequences({}), CheckpointImage(Sequences({})))
      /\ checkpoint_seq' = NextSeq(Sequences({}))
  BY NoFaults, Zenon DEF Checkpoint
<1>2. CheckpointImage(Sequences({})) \in FailedWrites(Sequences({}))
  BY DEF FailedWrites
<1>3. checkpoint_seq' \in 0 .. MaxCheckpointSeq
  BY <1>1, ImageIsNewest DEF StoreInv
<1>4. /\ opened /\ checkpoint_dirty' \in BOOLEAN
      /\ UNCHANGED <<allocVars, opened, index, pins, header, payload, residency>>
  BY Zenon DEF Checkpoint
<1> QED
  BY <1>1, <1>2, <1>3, <1>4, CheckpointStep

\* checkpoint() whose container write fails.
LEMMA CheckpointFailsInv ==
  ASSUME StoreInv, ReadFaults = FALSE, CheckpointFails
  PROVE  StoreInv'
<1>1. PICK found \in FailedWrites(Sequences({})) :
        WriteContainer(Sequences({}), found)
  BY NoFaults, Zenon DEF CheckpointFails
<1>2. /\ opened /\ checkpoint_dirty' \in BOOLEAN
      /\ checkpoint_seq' \in 0 .. MaxCheckpointSeq
      /\ UNCHANGED <<allocVars, opened, index, pins, header, payload, residency>>
  BY DEF CheckpointFails, memVars, StoreInv, TypeOK
<1> QED
  BY <1>1, <1>2, CheckpointStep

-----------------------------------------------------------------------------
\* A fresh allocator is partitioned.
LEMMA ResetInv == AllocReset => AllocInv'
<1> SUFFICES ASSUME AllocReset PROVE AllocInv'
  OBVIOUS
<1>1. AllocTypeOK'
  BY DEF AllocReset, AllocTypeOK, Slots, SlotState
<1>2. Elements(<< >>) = {}
  BY DEF Elements
<1>3. FreeListExact'
  BY <1>2 DEF AllocReset, FreeListExact, NoDuplicates, Slots
<1>4. ReclaimExact'
  BY <1>2 DEF AllocReset, ReclaimExact, NoDuplicates, Slots
<1> QED
  BY <1>1, <1>3, <1>4 DEF AllocInv, SlotsPartitioned

\* The end of an instance loses only what recovery does not need.
LEMMA EndStep ==
  ASSUME StoreInv, EndInstance, UNCHANGED <<header, payload, residency>>,
         containers' \in [Containers -> Container], ContainersOrdered',
         \A e \in containers'[Newest'].entries :
           HeaderMatches(e) => payload[e.slot] = e.key
  PROVE  StoreInv'
<1>1. AllocInv'
  BY ResetInv DEF EndInstance
<1>2. Absent \in Entry /\ Absent.state = "absent"
  BY AbsentFacts
<1>3. TypeOK'
  <2>1. /\ index' \in [Keys -> Entry] /\ pins' \in [Keys -> 0 .. MaxPins]
        /\ checkpoint_seq' \in 0 .. MaxCheckpointSeq
        /\ checkpoint_dirty' \in BOOLEAN /\ opened' \in BOOLEAN
    <3>1. index' = [k \in Keys |-> Absent] /\ pins' = [k \in Keys |-> 0]
      BY DEF EndInstance
    <3>2. index' \in [Keys -> Entry]
      BY <1>2, <3>1
    <3>3. pins' \in [Keys -> 0 .. MaxPins]
      BY <3>1
    <3>4. checkpoint_seq' \in 0 .. MaxCheckpointSeq
      BY DEF EndInstance
    <3>5. checkpoint_dirty' \in BOOLEAN /\ opened' \in BOOLEAN
      BY Zenon DEF EndInstance
    <3> QED
      BY <3>2, <3>3, <3>4, <3>5
  <2>2. /\ header' \in [Slots -> Header] /\ residency' \subseteq Slots
        /\ payload' \in [Slots -> Keys \cup {NoKey}]
    BY DEF StoreInv, TypeOK
  <2>3. AllocTypeOK'
    BY <1>1 DEF AllocInv
  <2> QED
    BY <2>1, <2>2, <2>3 DEF TypeOK
<1>4. \A k \in Keys : index'[k] = Absent
  BY DEF EndInstance
<1>5. LiveSlotsAreExclusive' /\ ServesOwnPayload'
  BY <1>2, <1>4 DEF LiveSlotsAreExclusive, ServesOwnPayload, Live, Committed
<1>6. ClosedIsFresh'
  BY <1>4 DEF ClosedIsFresh, EndInstance, AllocReset, AllocInit
<1>7. NewestIsTrue'
  BY DEF NewestIsTrue, Newest, HeaderMatches, EndInstance
<1> QED
  BY <1>1, <1>3, <1>5, <1>6, <1>7 DEF StoreInv, AllocInv

\* A crash at any point.
LEMMA CrashInv == StoreInv /\ Crash => StoreInv'
<1> SUFFICES ASSUME StoreInv, Crash PROVE StoreInv'
  OBVIOUS
<1>1. /\ EndInstance /\ containers' = containers
      /\ UNCHANGED <<header, payload, residency>>
  BY DEF Crash, mediaVars
<1>2. ContainersOrdered' /\ Newest' = Newest
  BY <1>1, ContainersUnchanged DEF StoreInv
<1>3. containers' \in [Containers -> Container]
  BY <1>1 DEF StoreInv, TypeOK
<1>4. \A e \in containers'[Newest'].entries :
        HeaderMatches(e) => payload[e.slot] = e.key
  BY <1>1, <1>2 DEF StoreInv, NewestIsTrue, Newest
<1> QED
  BY <1>1, <1>2, <1>3, <1>4, EndStep

\* close(), whether or not its checkpoint reaches the media.
LEMMA CloseInv ==
  ASSUME StoreInv, ReadFaults = FALSE, Close
  PROVE  StoreInv'
<1>1. opened /\ EndInstance /\ UNCHANGED <<header, payload, residency>>
  BY DEF Close
<1>2. CASE containers' = containers
  <2>1. ContainersOrdered' /\ Newest' = Newest
    BY <1>2, ContainersUnchanged DEF StoreInv
  <2>2. containers' \in [Containers -> Container]
    BY <1>2 DEF StoreInv, TypeOK
  <2>3. \A e \in containers'[Newest'].entries :
          HeaderMatches(e) => payload[e.slot] = e.key
    BY <1>2, <2>1 DEF StoreInv, NewestIsTrue, Newest
  <2> QED
    BY <1>1, <2>1, <2>2, <2>3, EndStep
<1>3. CASE \E found \in FailedWrites(Sequences({})) :
             WriteContainer(Sequences({}), found)
  <2>1. PICK found \in FailedWrites(Sequences({})) :
          WriteContainer(Sequences({}), found)
    BY <1>3
  <2>2. /\ containers' \in [Containers -> Container] /\ ContainersOrdered'
        /\ \A e \in containers'[Newest'].entries :
             HeaderMatches(e) => payload[e.slot] = e.key
    BY <1>1, <2>1, ContainerWrite
  <2> QED
    BY <1>1, <2>2, EndStep
<1> QED
  BY <1>2, <1>3, NoFaults, Zenon DEF Close

-----------------------------------------------------------------------------
\* The entries recovery accepts name distinct keys and distinct slots, and
\* tell the truth about the payloads.
LEMMA VerifiedFacts ==
  ASSUME StoreInv
  PROVE  /\ Verified({}, {}) \subseteq CheckpointEntry
         /\ \A e \in Verified({}, {}) : HeaderMatches(e) /\ payload[e.slot] = e.key
         /\ \A e, f \in Verified({}, {}) :
              e.key = f.key \/ e.slot = f.slot => e = f
         /\ \A e \in containers[Newest].entries :
              HeaderMatches(e) => e \in Verified({}, {})
<1>1. /\ Newest \in Containers /\ containers[Newest] \in Container
      /\ HighestSeq(Sequences({})) = containers[Newest].seq
      /\ containers[Newest].seq \in Nat
  BY NewestFacts DEF StoreInv, TypeOK, Containers
<1>2. Verified({}, {}) = {e \in containers[Newest].entries :
                            containers[Newest].seq > 0 /\ HeaderMatches(e)}
  BY <1>1 DEF Verified, Newest
<1>3. Verified({}, {}) \subseteq CheckpointEntry
  BY <1>1, <1>2 DEF Container
<1>4. \A e \in Verified({}, {}) : HeaderMatches(e) /\ payload[e.slot] = e.key
  BY <1>2 DEF StoreInv, NewestIsTrue, Newest
<1>5. \A e, f \in Verified({}, {}) : e.key = f.key => e = f
  BY <1>1, <1>2 DEF StoreInv, ContainersOrdered
<1>6. \A e, f \in Verified({}, {}) : e.slot = f.slot => e.key = f.key
  BY <1>4
<1>7. \A e \in containers[Newest].entries :
        HeaderMatches(e) => e \in Verified({}, {})
  <2>1. containers[Newest].entries # {} => containers[Newest].seq # 0
    BY <1>1 DEF StoreInv, ContainersOrdered
  <2>2. containers[Newest].seq # 0 => containers[Newest].seq > 0
    BY <1>1, PositiveNat, Zenon
  <2> QED
    BY <1>2, <2>1, <2>2
<1> QED
  BY <1>3, <1>4, <1>5, <1>6, <1>7

\* Claiming the recovered slots on a fresh allocator leaves it partitioned.
LEMMA AdoptInv ==
  ASSUME AllocInit, NEW S \in SUBSET Slots, AdoptSlots(S)
  PROVE  AllocInv' /\ \A s \in S : states'[s] = "committed"
<1> DEFINE G == Gaps(S)
<1>1. G \subseteq Slots /\ G \cap S = {}
  BY DEF Gaps
<1>2. PICK n \in 0 .. TotalSlots : \E q \in [1 .. n -> G] :
        /\ Elements(q) = G
        /\ \A i, j \in 1 .. n : i < j => q[i] < q[j]
        /\ reclaim_queue' = q
  BY DEF AdoptSlots
<1>3. PICK q \in [1 .. n -> G] :
        /\ Elements(q) = G
        /\ \A i, j \in 1 .. n : i < j => q[i] < q[j]
        /\ reclaim_queue' = q
  BY <1>2
<1>4. /\ states' = [s \in Slots |-> IF s \in S THEN "committed"
                                    ELSE IF s \in G THEN "reclaiming"
                                    ELSE "free"]
      /\ high_water' \in 0 .. TotalSlots
      /\ \A s \in Slots : s < high_water' <=> s \in S \cup G
      /\ generations' = generations /\ free_list' = free_list
      /\ reclaim_in_flight' = reclaim_in_flight /\ ready_limit' = ready_limit
  BY DEF AdoptSlots
<1> HIDE DEF G
<1>5. reclaim_queue' \in Seq(Slots)
  <2>1. q \in [1 .. n -> Slots]
    BY <1>1, <1>3
  <2> QED
    BY <1>3, <2>1
<1>6. NoDuplicates(reclaim_queue')
  <2>1. DOMAIN q = 1 .. n /\ \A i \in 1 .. n : q[i] \in Slots
    BY <1>1, <1>3
  <2>2. \A i \in 1 .. n : q[i] \in Nat
    BY <2>1 DEF Slots
  <2> QED
    BY <1>3, <2>1, <2>2 DEF NoDuplicates
<1>7. /\ free_list' = << >> /\ reclaim_in_flight' = {}
      /\ generations' = [s \in Slots |-> 0] /\ ready_limit' = TotalSlots
  BY <1>4 DEF AllocInit
<1>8. AllocTypeOK'
  <2>1. states' \in [Slots -> SlotState]
    BY <1>4 DEF SlotState
  <2>2. generations' \in [Slots -> 0 .. MaxGeneration]
    BY <1>7
  <2> QED
    BY <1>4, <1>5, <1>7, <2>1, <2>2, SMTT(30) DEF AllocTypeOK
<1>9. FreeListExact'
  <2>1. Elements(free_list') = {} /\ NoDuplicates(free_list')
    BY <1>7 DEF Elements, NoDuplicates
  <2>2. \A s \in Slots : s >= high_water' <=> ~(s < high_water')
    BY <1>4 DEF Slots
  <2> QED
    BY <1>4, <2>1, <2>2 DEF FreeListExact
<1>10. ReclaimExact'
  BY <1>1, <1>3, <1>4, <1>6, <1>7 DEF ReclaimExact
<1> QED
  BY <1>4, <1>8, <1>9, <1>10 DEF AllocInv, SlotsPartitioned

\* open(): the recovered index serves only payloads the headers vouch for.
LEMMA OpenInv ==
  ASSUME StoreInv, ReadFaults = FALSE, Open
  PROVE  StoreInv'
<1> DEFINE A == Verified({}, {})
           adopted(e) == [state |-> "committed", slot |-> e.slot,
                          generation |-> e.generation]
<1>1. /\ index' = [k \in Keys |->
                     IF \E e \in A : e.key = k
                     THEN adopted(CHOOSE e \in A : e.key = k)
                     ELSE Absent]
      /\ checkpoint_seq' = HighestSeq(Sequences({}))
      /\ AdoptSlots({e.slot : e \in A})
  <2>1. PICK lost \in FaultSets(Containers), unreadable \in FaultSets(Slots) :
          LET accepted == Verified(lost, unreadable)
          IN /\ index' = [k \in Keys |->
                            IF \E e \in accepted : e.key = k
                            THEN LET e == CHOOSE e \in accepted : e.key = k
                                 IN adopted(e)
                            ELSE Absent]
             /\ checkpoint_seq' = HighestSeq(Sequences(lost))
             /\ AdoptSlots({e.slot : e \in accepted})
    BY Zenon DEF Open
  <2>2. lost = {} /\ unreadable = {}
    BY NoFaults, Zenon
  <2> QED
    BY <2>1, <2>2
<1>2. ~opened /\ opened' = TRUE /\ UNCHANGED <<pins, checkpoint_dirty, mediaVars>>
  BY DEF Open
<1>3. /\ A \subseteq CheckpointEntry
      /\ \A e \in A : HeaderMatches(e) /\ payload[e.slot] = e.key
      /\ \A e, f \in A : e.key = f.key \/ e.slot = f.slot => e = f
      /\ \A e \in containers[Newest].entries : HeaderMatches(e) => e \in A
  BY VerifiedFacts
<1> HIDE DEF A
<1>4. \A e \in A : e.key \in Keys /\ e.slot \in Slots
                   /\ e.generation \in 0 .. MaxGeneration
  BY <1>3 DEF CheckpointEntry
<1>5. AllocInv' /\ \A e \in A : states'[e.slot] = "committed"
  <2> DEFINE S == {e.slot : e \in A}
  <2>1. S \in SUBSET Slots /\ \A e \in A : e.slot \in S
    BY <1>4
  <2>2. AllocInit /\ AdoptSlots(S)
    BY <1>1, <1>2 DEF StoreInv, ClosedIsFresh
  <2> HIDE DEF S
  <2> QED
    BY <2>1, <2>2, AdoptInv
<1>6. \A e \in A : index'[e.key] = adopted(e)
  <2> SUFFICES ASSUME NEW e \in A PROVE index'[e.key] = adopted(e)
    BY Zenon
  <2>1. (CHOOSE f \in A : f.key = e.key) = e
    BY <1>3
  <2> QED
    BY <1>1, <1>4, <2>1
<1>7. \A k \in Keys : index'[k] = Absent
                      \/ \E e \in A : e.key = k /\ index'[k] = adopted(e)
  BY <1>1, <1>6, Zenon
<1>8. Absent \in Entry /\ Absent.state = "absent"
  BY AbsentFacts
<1>9. TypeOK'
  <2>1. \A e \in A : adopted(e) \in Entry
    BY <1>4 DEF Entry
  <2>2. index' \in [Keys -> Entry]
    BY <1>1, <1>7, <1>8, <2>1
  <2>3. checkpoint_seq' \in 0 .. MaxCheckpointSeq
    <3>1. /\ containers[Newest] \in Container
          /\ HighestSeq(Sequences({})) = containers[Newest].seq
      BY NewestFacts DEF StoreInv, TypeOK
    <3> QED
      BY <1>1, <3>1 DEF Container
  <2> QED
    BY <1>2, <1>5, <2>2, <2>3 DEF StoreInv, TypeOK, AllocInv, mediaVars
<1>10. \A k \in Keys : Live(k)' =>
         \E e \in A : e.key = k /\ index'[k].slot = e.slot
  <2>1. \A e \in A : adopted(e).slot = e.slot
    OBVIOUS
  <2> HIDE DEF adopted
  <2> QED
    BY <1>7, <1>8, <2>1, SMTT(30) DEF Live
<1>11. LiveSlotsAreExclusive'
  <2>1. ASSUME NEW j \in Keys, NEW k \in Keys, Live(j)', Live(k)',
               index'[j].slot = index'[k].slot
        PROVE  j = k
    <3>1. PICK e \in A : e.key = j /\ index'[j].slot = e.slot
      BY <1>10, <2>1
    <3>2. PICK f \in A : f.key = k /\ index'[k].slot = f.slot
      BY <1>10, <2>1
    <3>3. e.slot = f.slot
      BY <2>1, <3>1, <3>2, Zenon
    <3>4. e = f
      BY <1>3, <3>3
    <3> QED
      BY <3>1, <3>2, <3>4
  <2>2. ASSUME NEW k \in Keys, Live(k)'
        PROVE  states'[index'[k].slot] \in {"reserved", "committed"}
    BY <1>5, <1>10, <2>2
  <2> QED
    BY <2>1, <2>2 DEF LiveSlotsAreExclusive
<1>12. ServesOwnPayload'
  <2> SUFFICES ASSUME NEW k \in Keys, Committed(k)'
               PROVE  payload'[index'[k].slot] = k
    BY DEF ServesOwnPayload
  <2>1. Live(k)'
    BY DEF Live, Committed
  <2>2. payload' = payload
    BY <1>2 DEF mediaVars
  <2> QED
    <3>1. PICK e \in A : e.key = k /\ index'[k].slot = e.slot
      BY <1>10, <2>1
    <3>2. payload[e.slot] = e.key
      BY <1>3
    <3> QED
      BY <2>2, <3>1, <3>2
<1>13. ClosedIsFresh'
  BY <1>2 DEF ClosedIsFresh
<1>14. ContainersOrdered' /\ Newest' = Newest
  BY <1>2, ContainersUnchanged DEF StoreInv, mediaVars
<1>15. NewestIsTrue'
  <2> SUFFICES ASSUME NEW e \in containers[Newest].entries, HeaderMatches(e)
               PROVE  payload[e.slot] = e.key /\ Protected(e)'
    <3>1. UNCHANGED <<header, payload, containers>> /\ Newest' = Newest
      BY <1>2, <1>14 DEF mediaVars
    <3> QED
      BY <3>1 DEF NewestIsTrue, Newest, HeaderMatches
  <2>1. e \in A
    BY <1>3
  <2>2. index'[e.key] = adopted(e)
    BY <1>6, <2>1
  <2>3. index'[e.key].state = "committed" /\ index'[e.key].slot = e.slot
    <3>1. adopted(e).state = "committed" /\ adopted(e).slot = e.slot
      OBVIOUS
    <3> HIDE DEF adopted
    <3> QED
      BY <2>2, <3>1
  <2>4. payload[e.slot] = e.key
    BY <1>3, <2>1
  <2>5. Live(e.key)'
    BY <2>3 DEF Live
  <2> QED
    BY <2>3, <2>4, <2>5 DEF Protected
<1> QED
  BY <1>5, <1>9, <1>11, <1>12, <1>13, <1>14, <1>15 DEF StoreInv, AllocInv

=============================================================================
