------------------------ MODULE StoreOperationProofs -------------------------
(***************************************************************************)
(* Proofs about the operations on one object: reserve(), the payload       *)
(* writes, commit(), abort() and release() preserve StoreInv.              *)
(***************************************************************************)
EXTENDS CheckpointProofs

USE NoKeyAssumption, RankCountAssumption, MaxPinsAssumption,
    MaxCheckpointSeqAssumption, ReadFaultsAssumption, TotalSlotsAssumption,
    MaxGenerationAssumption

-----------------------------------------------------------------------------
\* The initial state satisfies the invariant.
LEMMA InitInv == Init => StoreInv
<1> SUFFICES ASSUME Init PROVE StoreInv
  OBVIOUS
<1>1. AllocInv
  BY AllocInitInv DEF Init
<1>2. 0 \in Slots /\ Absent \in Entry /\ NoHeader \in Header
      /\ NoCheckpoint \in Container
  BY DEF Slots, Absent, Entry, NoHeader, Header, NoCheckpoint, Container
<1>3. TypeOK
  <2>1. /\ index \in [Keys -> Entry] /\ pins \in [Keys -> 0 .. MaxPins]
        /\ checkpoint_seq \in 0 .. MaxCheckpointSeq
    BY <1>2 DEF Init
  <2>2. /\ header \in [Slots -> Header] /\ residency \subseteq Slots
        /\ payload \in [Slots -> Keys \cup {NoKey}]
        /\ containers \in [Containers -> Container]
    BY <1>2 DEF Init
  <2> QED
    BY <1>1, <2>1, <2>2, Zenon DEF Init, TypeOK, AllocInv
<1>4. LiveSlotsAreExclusive /\ ServesOwnPayload
  BY DEF Init, LiveSlotsAreExclusive, ServesOwnPayload, Live, Committed, Absent
<1>5. ClosedIsFresh
  BY DEF Init, ClosedIsFresh
<1>6. ContainersOrdered
  BY DEF Init, ContainersOrdered, NoCheckpoint, Containers
<1>7. NewestIsTrue
  BY <1>3, NewestFacts DEF NewestIsTrue, Init, NoCheckpoint, Newest, Containers
<1> QED
  BY <1>1, <1>3, <1>4, <1>5, <1>6, <1>7 DEF StoreInv, AllocInv

\* reserve(): the new owner's slot was free, so no entry that recovery would
\* accept names it.
LEMMA ReserveKeyInv ==
  ASSUME StoreInv, NEW k \in Keys, Reserve(k)
  PROVE  StoreInv'
<1> USE DEF StoreInv
<1>1. PICK slot \in Slots : /\ AllocReserve(slot)
                            /\ index' = [index EXCEPT ![k] = Reserved(slot)]
  BY Zenon DEF Reserve
<1>2. AllocInv' /\ states[slot] = "free"
  BY <1>1, ReserveInv, ReservedWasFree DEF AllocInv, TypeOK
<1>3. /\ Reserved(slot) \in Entry
      /\ Reserved(slot).slot = slot /\ Reserved(slot).state = "reserved"
  BY DEF Reserved, Entry, TypeOK, AllocTypeOK
<1>4. TypeOK'
  BY <1>1, <1>2, <1>3 DEF TypeOK, Reserve, AllocInv, mediaVars
<1>5. states' = [states EXCEPT ![slot] = "reserved"]
  BY <1>1 DEF AllocReserve
<1>6. \A j \in Keys : /\ j # k => index'[j] = index[j]
                      /\ index'[k] = Reserved(slot)
  BY <1>1 DEF TypeOK
<1>7. \A j \in Keys : Live(j) => index[j].slot # slot /\ index[j].slot \in Slots
  BY <1>2 DEF LiveSlotsAreExclusive, TypeOK, Entry
<1>8. LiveSlotsAreExclusive'
  <2>1. \A j \in Keys : j # k => (Live(j)' <=> Live(j))
    BY <1>6 DEF Live
  <2>2. \A i, j \in Keys :
          Live(i)' /\ Live(j)' /\ index'[i].slot = index'[j].slot => i = j
    BY <1>3, <1>6, <1>7, <2>1 DEF LiveSlotsAreExclusive
  <2>3. \A s \in Slots : states'[s] = IF s = slot THEN "reserved" ELSE states[s]
    BY <1>5 DEF TypeOK, AllocTypeOK
  <2>4. ASSUME NEW j \in Keys, Live(j)'
        PROVE  states'[index'[j].slot] \in {"reserved", "committed"}
    <3>1. CASE j = k
      BY <3>1, <1>3, <1>6, <2>3
    <3>2. CASE j # k
      BY <2>4, <3>2, <1>6, <1>7, <2>1, <2>3 DEF LiveSlotsAreExclusive
    <3> QED
      BY <3>1, <3>2
  <2> QED
    BY <2>2, <2>4 DEF LiveSlotsAreExclusive, Live
<1>9. ServesOwnPayload'
  BY <1>3, <1>6 DEF ServesOwnPayload, Committed, Reserve, mediaVars
<1>10. ClosedIsFresh'
  BY DEF ClosedIsFresh, Reserve
<1>11. ContainersOrdered' /\ Newest' = Newest
  BY ContainersUnchanged DEF Reserve, mediaVars
<1>12. NewestIsTrue'
  <2> SUFFICES ASSUME NEW e \in containers[Newest].entries, HeaderMatches(e)
               PROVE  payload[e.slot] = e.key /\ Protected(e)'
    BY <1>11 DEF NewestIsTrue, Newest, HeaderMatches, Reserve, mediaVars
  <2>1. e.slot \in Slots /\ e.key \in Keys
    BY NewestFacts DEF TypeOK, Container, CheckpointEntry
  <2>2. payload[e.slot] = e.key /\ Protected(e)
    BY DEF NewestIsTrue, Newest, Reserve
  <2>3. e.slot # slot
    BY <1>2, <1>7, <2>1, <2>2 DEF Protected
  <2>4. Protected(e)'
    <3>1. states'[e.slot] = states[e.slot]
      BY <1>5, <2>1, <2>3 DEF TypeOK, AllocTypeOK
    <3>2. /\ ~Live(k)
          /\ \A j \in Keys : j # k => (Live(j)' <=> Live(j)) /\ index'[j] = index[j]
      BY <1>6 DEF Reserve, Live
    <3>3. index'[k].slot # e.slot
      BY <1>3, <1>6, <2>3
    <3>4. CASE Live(e.key) /\ index[e.key].slot = e.slot
      BY <2>1, <3>2, <3>4, Zenon DEF Protected
    <3>5. CASE /\ states[e.slot] # "free"
               /\ \A j \in Keys : Live(j) => index[j].slot # e.slot
      <4>1. \A j \in Keys : Live(j)' => index'[j].slot # e.slot
        BY <3>2, <3>3, <3>5, Zenon
      <4> QED
        BY <3>1, <3>5, <4>1, Zenon DEF Protected
    <3> QED
      BY <2>2, <3>4, <3>5, Zenon DEF Protected
  <2> QED
    BY <2>2, <2>4
<1> QED
  BY <1>2, <1>4, <1>8, <1>9, <1>10, <1>11, <1>12 DEF AllocInv

\* The caller's writes to a reserved slot cannot spoil a payload that
\* recovery would accept: such a slot already holds this key's payload.
LEMMA WritePayloadInv ==
  ASSUME StoreInv, NEW k \in Keys, WritePayload(k)
  PROVE  StoreInv'
<1> USE DEF StoreInv
<1>1. /\ index' = index /\ states' = states /\ containers' = containers
      /\ header' = header /\ opened' = opened /\ opened
  BY DEF WritePayload, memVars, allocVars
<1>2. PICK content \in {NoKey, k} :
        payload' = [payload EXCEPT ![index[k].slot] = content]
  BY Zenon DEF WritePayload
<1>3. TypeOK'
  BY <1>2, Zenon DEF TypeOK, AllocTypeOK, WritePayload, memVars, allocVars
<1>4. SlotsPartitioned'
  BY DEF WritePayload, allocVars, SlotsPartitioned, FreeListExact,
         ReclaimExact, Elements, NoDuplicates
<1>5. LiveSlotsAreExclusive'
  BY <1>1 DEF LiveSlotsAreExclusive, Live
<1>6. \A s \in Slots : s # index[k].slot => payload'[s] = payload[s]
  BY <1>2 DEF TypeOK
<1>7. \A j \in Keys : index[j].slot \in Slots
  BY DEF TypeOK, Entry
<1>8. Live(k) /\ ~Committed(k) /\ payload[index[k].slot] # k
  BY DEF WritePayload, Live, Committed
<1>9. ServesOwnPayload'
  BY <1>1, <1>6, <1>7, <1>8
     DEF ServesOwnPayload, LiveSlotsAreExclusive, Live, Committed
<1>10. ClosedIsFresh'
  BY <1>1 DEF ClosedIsFresh
<1>11. ContainersOrdered' /\ Newest' = Newest
  BY <1>1, ContainersUnchanged
<1>12. NewestIsTrue'
  <2> SUFFICES ASSUME NEW e \in containers[Newest].entries, HeaderMatches(e)
               PROVE  payload'[e.slot] = e.key /\ Protected(e)'
    BY <1>1, <1>11 DEF NewestIsTrue, Newest, HeaderMatches
  <2>1. e.slot \in Slots /\ e.key \in Keys
    BY NewestFacts DEF TypeOK, Container, CheckpointEntry
  <2>2. payload[e.slot] = e.key /\ Protected(e)
    BY <1>1 DEF NewestIsTrue, Newest
  <2>3. e.slot # index[k].slot
    BY <1>8, <2>1, <2>2 DEF Protected, LiveSlotsAreExclusive
  <2>4. Protected(e)'
    BY <1>1, <2>2 DEF Protected, Live
  <2> QED
    BY <1>6, <2>1, <2>2, <2>3, <2>4
<1> QED
  BY <1>3, <1>4, <1>5, <1>9, <1>10, <1>11, <1>12

-----------------------------------------------------------------------------
\* A step keeps NewestIsTrue when each slot keeps header and payload, loses
\* its header, or gets the header of a live key whose payload it holds, and
\* when no protection is lost.
LEMMA NewestKept ==
  ASSUME StoreInv, opened, containers' = containers,
         \A s \in Slots :
           \/ header'[s] = header[s] /\ payload'[s] = payload[s]
           \/ header'[s] = NoHeader
           \/ \E k \in Keys :
                /\ header'[s].key = k /\ payload'[s] = k
                /\ Live(k)' /\ index'[k].slot = s,
         \A e \in CheckpointEntry :
           header'[e.slot] # NoHeader /\ Protected(e) => Protected(e)'
  PROVE  NewestIsTrue'
<1>1. Newest' = Newest
  BY ContainersUnchanged
<1> SUFFICES ASSUME NEW e \in containers[Newest].entries, HeaderMatches(e)'
             PROVE  payload'[e.slot] = e.key /\ Protected(e)'
  BY <1>1 DEF NewestIsTrue, Newest
<1>2. e \in CheckpointEntry /\ e.slot \in Slots /\ e.key \in Keys
  <2>1. containers[Newest] \in Container
    BY NewestFacts DEF StoreInv, TypeOK
  <2>2. e \in CheckpointEntry
    BY <2>1 DEF Container
  <2> QED
    BY <2>2 DEF CheckpointEntry
<1>3. header'[e.slot].key = e.key /\ header'[e.slot] # NoHeader
  BY <1>2 DEF HeaderMatches, NoHeader
<1>4. CASE header'[e.slot] = header[e.slot] /\ payload'[e.slot] = payload[e.slot]
  <2>1. HeaderMatches(e)
    BY <1>4 DEF HeaderMatches
  <2> QED
    BY <1>2, <1>3, <1>4, <2>1 DEF StoreInv, NewestIsTrue, Newest
<1>5. CASE \E k \in Keys : /\ header'[e.slot].key = k /\ payload'[e.slot] = k
                           /\ Live(k)' /\ index'[k].slot = e.slot
  BY <1>3, <1>5 DEF Protected, Live
<1> QED
  BY <1>2, <1>3, <1>4, <1>5

\* write_header_locked() writes the header of each committed key's own slot
\* and no other.
LEMMA HeaderWrittenFacts ==
  ASSUME StoreInv, NEW K \in SUBSET Keys, \A k \in K : Committable(k)
  PROVE  /\ HeaderWritten(K) \in [Slots -> Header]
         /\ \A s \in Slots :
              \/ HeaderWritten(K)[s] = header[s]
              \/ \E k \in K : /\ index[k].slot = s
                              /\ HeaderWritten(K)[s].key = k
<1>1. \A k \in Keys : /\ index[k].slot \in Slots
                      /\ index[k].generation \in 0 .. MaxGeneration
  BY DEF StoreInv, TypeOK, Entry
<1>2. ASSUME NEW s \in Slots
      PROVE  LET h == IF \E k \in K : index[k].slot = s
                      THEN LET k == CHOOSE k \in K : index[k].slot = s
                           IN [key |-> k, generation |-> index[k].generation]
                      ELSE header[s]
             IN /\ h \in Header
                /\ h = header[s] \/ \E k \in K : index[k].slot = s /\ h.key = k
  <2>1. CASE \E k \in K : index[k].slot = s
    <3> DEFINE k == CHOOSE k \in K : index[k].slot = s
    <3>1. k \in K /\ index[k].slot = s
      BY <2>1
    <3> HIDE DEF k
    <3>2. [key |-> k, generation |-> index[k].generation] \in Header
      BY <1>1, <3>1 DEF Header
    <3> QED
      BY <2>1, <3>1, <3>2 DEF k
  <2>2. CASE ~ \E k \in K : index[k].slot = s
    BY <2>2 DEF StoreInv, TypeOK
  <2> QED
    BY <2>1, <2>2
<1> QED
  BY <1>2 DEF HeaderWritten

\* Marking keys committed changes neither the live keys nor their slots.
LEMMA IndexCommittedFacts ==
  ASSUME StoreInv, NEW K \in SUBSET Keys, \A k \in K : Committable(k),
         index' = IndexCommitted(K)
  PROVE  /\ index' \in [Keys -> Entry]
         /\ \A k \in Keys : /\ index'[k].slot = index[k].slot
                            /\ Live(k)' <=> Live(k)
                            /\ Committed(k)' <=> Committed(k) \/ k \in K
<1>1. \A k \in Keys : index[k] \in Entry
  BY DEF StoreInv, TypeOK
<1>2. \A k \in Keys : [index[k] EXCEPT !.state = "committed"] =
                        [state |-> "committed", slot |-> index[k].slot,
                         generation |-> index[k].generation]
  BY <1>1 DEF Entry
<1>3. \A k \in Keys : /\ index'[k] \in Entry
                      /\ index'[k].slot = index[k].slot
                      /\ k \in K => index'[k].state = "committed"
                      /\ k \notin K => index'[k] = index[k]
  BY <1>1, <1>2 DEF IndexCommitted, Entry
<1>4. index' = [k \in Keys |-> index'[k]]
  BY DEF IndexCommitted
<1>5. index' \in [Keys -> Entry]
  BY <1>3, <1>4
<1>6. \A k \in K : Live(k)
  BY DEF Committable, Live
<1> QED
  BY <1>3, <1>5, <1>6 DEF Live, Committed

\* commit(), whole or cut short: a header is written only over a slot that
\* holds its key's payload, so the committed keys and the entries recovery
\* would accept stay true.
LEMMA CommitStep ==
  ASSUME StoreInv, opened, opened',
         NEW K \in SUBSET Keys, \A k \in K : Committable(k),
         index' = IndexCommitted(K), payload' = payload,
         containers' = containers, AllocInv',
         \A s \in Slots : states[s] \in {"reserved", "committed"} =>
                            states'[s] \in {"reserved", "committed"},
         \A s \in Slots : states[s] # "free" => states'[s] # "free",
         header' \in [Slots -> Header],
         \A s \in Slots :
           \/ header'[s] = header[s]
           \/ header'[s] = NoHeader
           \/ \E k \in Keys : Committable(k) /\ index[k].slot = s
                              /\ header'[s].key = k,
         pins' = pins, checkpoint_seq' = checkpoint_seq,
         checkpoint_dirty' \in BOOLEAN, residency' \subseteq Slots
  PROVE  StoreInv'
<1>1. \A k \in Keys : index[k].slot \in Slots
  BY DEF StoreInv, TypeOK, Entry
<1>2. TypeOK'
  BY IndexCommittedFacts DEF StoreInv, TypeOK, AllocInv
<1>3. LiveSlotsAreExclusive'
  <2>1. \A k \in Keys : /\ Live(k)' <=> Live(k)
                        /\ index'[k].slot = index[k].slot
    BY IndexCommittedFacts
  <2>2. LiveSlotsAreExclusive
    BY DEF StoreInv
  <2>3. ASSUME NEW k \in Keys, Live(k)'
        PROVE  states'[index'[k].slot] \in {"reserved", "committed"}
    BY <1>1, <2>1, <2>2, <2>3 DEF LiveSlotsAreExclusive
  <2>4. ASSUME NEW j \in Keys, NEW k \in Keys, Live(j)', Live(k)',
               index'[j].slot = index'[k].slot
        PROVE  j = k
    BY <2>1, <2>2, <2>4 DEF LiveSlotsAreExclusive
  <2> QED
    BY <2>3, <2>4 DEF LiveSlotsAreExclusive
<1>4. ServesOwnPayload'
  <2> SUFFICES ASSUME NEW k \in Keys, Committed(k)'
               PROVE  payload'[index'[k].slot] = k
    BY DEF ServesOwnPayload
  <2>1. /\ index'[k].slot = index[k].slot
        /\ Committed(k) \/ k \in K
    BY IndexCommittedFacts
  <2>2. payload[index[k].slot] = k
    BY <2>1 DEF StoreInv, ServesOwnPayload, Committable
  <2> QED
    BY <2>1, <2>2
<1>5. ClosedIsFresh'
  BY DEF ClosedIsFresh
<1>6. ContainersOrdered'
  BY ContainersUnchanged DEF StoreInv
<1>7. \A e \in CheckpointEntry : Protected(e) => Protected(e)'
  BY IndexCommittedFacts DEF Protected, CheckpointEntry
<1>8. \A s \in Slots :
        \/ header'[s] = header[s] /\ payload'[s] = payload[s]
        \/ header'[s] = NoHeader
        \/ \E k \in Keys : /\ header'[s].key = k /\ payload'[s] = k
                           /\ Live(k)' /\ index'[k].slot = s
  <2>1. \A k \in Keys : Committable(k) => Live(k) /\ payload[index[k].slot] = k
    BY DEF Committable, Live
  <2>2. \A k \in Keys : index'[k].slot = index[k].slot /\ (Live(k)' <=> Live(k))
    BY IndexCommittedFacts, Zenon
  <2>3. ASSUME NEW s \in Slots, header'[s] # header[s], header'[s] # NoHeader
        PROVE  \E k \in Keys : /\ header'[s].key = k /\ payload'[s] = k
                               /\ Live(k)' /\ index'[k].slot = s
    <3>1. PICK k \in Keys : Committable(k) /\ index[k].slot = s
                            /\ header'[s].key = k
      BY <2>3
    <3>2. payload'[s] = k /\ Live(k)' /\ index'[k].slot = s
      BY <2>1, <2>2, <3>1
    <3> QED
      BY <3>1, <3>2, Zenon
  <2> QED
    BY <2>3, Zenon
<1>9. NewestIsTrue'
  BY <1>7, <1>8, NewestKept
<1> QED
  BY <1>2, <1>3, <1>4, <1>5, <1>6, <1>9 DEF StoreInv, AllocInv

\* commit() of a whole batch.
LEMMA CommitKeysInv ==
  ASSUME StoreInv, NEW K \in SUBSET Keys, Commit(K)
  PROVE  StoreInv'
<1>1. \A k \in K : Committable(k)
  BY DEF Commit
<1>2. SlotsOf(K) \in SUBSET Slots /\ residency' \subseteq Slots
  BY DEF StoreInv, TypeOK, Entry, SlotsOf, Commit, SetResidency
<1>3. AllocInv'
  BY <1>2, CommitInv DEF StoreInv, TypeOK, AllocInv, Commit
<1>4. \A s \in Slots :
        /\ states[s] \in {"reserved", "committed"} =>
             states'[s] \in {"reserved", "committed"}
        /\ states[s] # "free" => states'[s] # "free"
  BY DEF Commit, AllocCommit
<1>5. /\ header' \in [Slots -> Header]
      /\ \A s \in Slots : \/ header'[s] = header[s]
                          \/ \E k \in Keys : Committable(k) /\ index[k].slot = s
                                             /\ header'[s].key = k
  BY <1>1, HeaderWrittenFacts, SMTT(30) DEF Commit
<1>6. /\ opened /\ opened' /\ index' = IndexCommitted(K) /\ payload' = payload
      /\ containers' = containers /\ pins' = pins
      /\ checkpoint_seq' = checkpoint_seq /\ checkpoint_dirty' \in BOOLEAN
  BY DEF Commit
<1> QED
  BY <1>1, <1>2, <1>3, <1>4, <1>5, <1>6, CommitStep

\* commit() that stops at a failing header write, torn or not.
LEMMA CommitFailsInv ==
  ASSUME StoreInv, NEW K \in SUBSET Keys, NEW f \in Keys, CommitFails(K, f)
  PROVE  StoreInv'
<1>1. /\ \A k \in K : Committable(k)
      /\ \A k \in K \cup {f} : Committable(k)
      /\ K \cup {f} \in SUBSET Keys
  BY DEF CommitFails
<1>2. SlotsOf(K) \in SUBSET Slots /\ residency' \subseteq Slots
  BY DEF StoreInv, TypeOK, Entry, SlotsOf, CommitFails, SetResidency
<1>3. AllocInv'
  BY AllocUnchanged DEF CommitFails, StoreInv, TypeOK, AllocInv
<1>4. states' = states
  BY DEF CommitFails, allocVars
<1>5. NoHeader \in Header /\ index[f].slot \in Slots
  BY DEF NoHeader, Header, StoreInv, TypeOK, Entry
<1>6. /\ header' \in [Slots -> Header]
      /\ \A s \in Slots : \/ header'[s] = header[s]
                          \/ header'[s] = NoHeader
                          \/ \E k \in Keys : Committable(k) /\ index[k].slot = s
                                             /\ header'[s].key = k
  <2>1. CASE header' = HeaderWritten(K)
    BY <1>1, <2>1, HeaderWrittenFacts
  <2>2. CASE header' = HeaderWritten(K \cup {f})
    <3> DEFINE L == K \cup {f}
    <3>1. L \in SUBSET Keys /\ \A k \in L : Committable(k) /\ k \in Keys
      BY <1>1
    <3>2. header' = HeaderWritten(L)
      BY <2>2
    <3> HIDE DEF L
    <3> QED
      BY <3>1, <3>2, HeaderWrittenFacts
  <2>3. CASE header' = [HeaderWritten(K) EXCEPT ![index[f].slot] = NoHeader]
    <3>1. HeaderWritten(K) \in [Slots -> Header]
      BY <1>1, HeaderWrittenFacts
    <3>2. \A s \in Slots : header'[s] = NoHeader
                           \/ header'[s] = HeaderWritten(K)[s]
      BY <1>5, <2>3, <3>1
    <3>3. header' \in [Slots -> Header]
      BY <1>5, <2>3, <3>1
    <3>4. \A s \in Slots :
            \/ HeaderWritten(K)[s] = header[s]
            \/ \E k \in Keys : Committable(k) /\ index[k].slot = s
                               /\ HeaderWritten(K)[s].key = k
      BY <1>1, HeaderWrittenFacts
    <3> QED
      BY <3>2, <3>3, <3>4
  <2> QED
    BY <2>1, <2>2, <2>3 DEF CommitFails
<1>7. /\ opened /\ opened' /\ index' = IndexCommitted(K) /\ payload' = payload
      /\ containers' = containers /\ pins' = pins
      /\ checkpoint_seq' = checkpoint_seq /\ checkpoint_dirty' \in BOOLEAN
  BY DEF CommitFails, StoreInv, TypeOK
<1> QED
  BY <1>1, <1>2, <1>3, <1>4, <1>6, <1>7, CommitStep

-----------------------------------------------------------------------------
\* abort() and release(): the slot of the dropped key is never free at once,
\* so an entry that still names it stays harmless until the slot is zeroed.
LEMMA DropKey ==
  ASSUME StoreInv, opened, opened', NEW k \in Keys, Live(k),
         NEW from \in {"reserved", "committed"},
         StartReclaim(index[k].slot, from),
         index' = [index EXCEPT ![k] = Absent],
         header' = header, payload' = payload, containers' = containers,
         pins' = pins, checkpoint_seq' = checkpoint_seq,
         checkpoint_dirty' \in BOOLEAN, residency' \subseteq Slots
  PROVE  StoreInv'
<1>1. index[k].slot \in Slots /\ \A j \in Keys : index[j].slot \in Slots
  BY DEF StoreInv, TypeOK, Entry
<1>2. AllocInv'
  BY <1>1, StartReclaimInv DEF StoreInv, TypeOK, AllocInv
<1>3. Absent \in Entry /\ Absent.state = "absent"
  BY AbsentFacts
<1>4. \A j \in Keys : index'[j] = IF j = k THEN Absent ELSE index[j]
  BY DEF StoreInv, TypeOK
<1>5. \A j \in Keys : Live(j)' <=> Live(j) /\ j # k
  BY <1>3, <1>4 DEF Live
<1>6. \A s \in Slots : /\ s # index[k].slot => states'[s] = states[s]
                       /\ states[s] # "free" => states'[s] # "free"
  BY <1>1 DEF StartReclaim, allocVars, StoreInv, TypeOK, AllocTypeOK
<1>7. TypeOK'
  BY <1>2, <1>3 DEF StoreInv, TypeOK, AllocInv
<1>8. LiveSlotsAreExclusive'
  <2>1. \A j \in Keys : Live(j)' => Live(j) /\ j # k /\ index'[j] = index[j]
    BY <1>4, <1>5
  <2>2. \A i, j \in Keys :
          Live(i)' /\ Live(j)' /\ index'[i].slot = index'[j].slot => i = j
    BY <2>1 DEF StoreInv, LiveSlotsAreExclusive
  <2>3. ASSUME NEW j \in Keys, Live(j)'
        PROVE  states'[index'[j].slot] \in {"reserved", "committed"}
    <3>1. Live(j) /\ index'[j] = index[j] /\ index[j].slot # index[k].slot
      BY <2>1, <2>3 DEF StoreInv, LiveSlotsAreExclusive
    <3>2. states'[index[j].slot] = states[index[j].slot]
      BY <1>1, <1>6, <3>1
    <3> QED
      BY <3>1, <3>2 DEF StoreInv, LiveSlotsAreExclusive
  <2> QED
    BY <2>2, <2>3 DEF LiveSlotsAreExclusive
<1>9. ServesOwnPayload'
  BY <1>3, <1>4 DEF StoreInv, ServesOwnPayload, Committed
<1>10. ClosedIsFresh'
  BY DEF ClosedIsFresh
<1>11. ContainersOrdered'
  BY ContainersUnchanged DEF StoreInv
<1>12. ASSUME NEW e \in CheckpointEntry, Protected(e)
       PROVE  Protected(e)'
  <2>1. e.slot \in Slots /\ e.key \in Keys
    BY DEF CheckpointEntry
  <2>2. CASE Live(e.key) /\ index[e.key].slot = e.slot /\ e.key # k
    BY <1>4, <1>5, <2>1, <2>2 DEF Protected
  <2>3. CASE index[k].slot = e.slot /\ e.key = k
    <3>1. \A j \in Keys : Live(j)' => index'[j].slot # e.slot
      <4> SUFFICES ASSUME NEW j \in Keys, Live(j)'
                   PROVE  index'[j].slot # e.slot
        OBVIOUS
      <4>1. Live(j) /\ j # k /\ index'[j] = index[j]
        BY <1>4, <1>5, Zenon
      <4>2. index[j].slot # index[k].slot
        BY <4>1 DEF StoreInv, LiveSlotsAreExclusive
      <4> QED
        BY <2>3, <4>1, <4>2, Zenon
    <3>2. states[e.slot] # "free"
      BY <2>1, <2>3 DEF StoreInv, LiveSlotsAreExclusive
    <3> QED
      BY <1>6, <2>1, <3>1, <3>2 DEF Protected
  <2>4. CASE /\ states[e.slot] # "free"
             /\ \A j \in Keys : Live(j) => index[j].slot # e.slot
    <3>1. states'[e.slot] # "free"
      BY <1>6, <2>1, <2>4, Zenon
    <3>2. \A j \in Keys : Live(j)' => Live(j) /\ index'[j] = index[j]
      BY <1>4, <1>5, Zenon
    <3>3. \A j \in Keys : Live(j)' => index'[j].slot # e.slot
      BY <2>4, <3>2, Zenon
    <3> QED
      BY <3>1, <3>3, Zenon DEF Protected
  <2> QED
    BY <1>12, <2>2, <2>3, <2>4 DEF Protected
<1>13. NewestIsTrue'
  BY <1>12, NewestKept
<1> QED
  BY <1>2, <1>7, <1>8, <1>9, <1>10, <1>11, <1>13 DEF StoreInv, AllocInv

\* abort() of a reserved key.
LEMMA AbortInv ==
  ASSUME StoreInv, NEW k \in Keys, Abort(k)
  PROVE  StoreInv'
<1>1. Live(k) /\ StartReclaim(index[k].slot, "reserved")
  BY DEF Abort, AllocAbort, Live
<1>2. /\ opened /\ opened' /\ index' = [index EXCEPT ![k] = Absent]
      /\ header' = header /\ payload' = payload /\ containers' = containers
      /\ pins' = pins /\ checkpoint_seq' = checkpoint_seq
      /\ checkpoint_dirty' \in BOOLEAN /\ residency' \subseteq Slots
  BY DEF Abort, mediaVars, StoreInv, TypeOK
<1> QED
  BY <1>1, <1>2, DropKey, Zenon

\* release() of a committed key.
LEMMA ReleaseInv ==
  ASSUME StoreInv, NEW k \in Keys, Release(k)
  PROVE  StoreInv'
<1>1. Live(k) /\ StartReclaim(index[k].slot, "committed")
  BY DEF Release, AllocRelease, Live, Committed
<1>2. /\ opened /\ opened' /\ index' = [index EXCEPT ![k] = Absent]
      /\ header' = header /\ payload' = payload /\ containers' = containers
      /\ pins' = pins /\ checkpoint_seq' = checkpoint_seq
      /\ checkpoint_dirty' \in BOOLEAN /\ residency' \subseteq Slots
  BY DEF Release, ClearResidency, StoreInv, TypeOK
<1> QED
  BY <1>1, <1>2, DropKey, Zenon

=============================================================================
