------------------------ MODULE SpaceAllocatorProofs ------------------------
(***************************************************************************)
(* Proofs about the slot allocator, for every number of slots and every    *)
(* generation bound: the types, SlotsPartitioned and ScrubBeforeReuse.     *)
(***************************************************************************)
EXTENDS SpaceAllocator, TLAPS

-----------------------------------------------------------------------------
\* Appending a new element to a deque without duplicates adds just that
\* element (the push_back calls of the allocator).
LEMMA AppendElements ==
  ASSUME NEW S, NEW q \in Seq(S), NEW x \in S,
         NoDuplicates(q), x \notin Elements(q)
  PROVE  /\ Append(q, x) \in Seq(S)
         /\ NoDuplicates(Append(q, x))
         /\ Elements(Append(q, x)) = Elements(q) \cup {x}
<1> DEFINE r == Append(q, x)
<1>1. r \in Seq(S) /\ Len(r) = Len(q) + 1 /\ Len(q) \in Nat
  OBVIOUS
<1>2. \A i \in 1 .. Len(q) : r[i] = q[i] /\ q[i] \in S
  OBVIOUS
<1>3. r[Len(q) + 1] = x
  OBVIOUS
<1>4. DOMAIN q = 1 .. Len(q) /\ DOMAIN r = 1 .. Len(q) + 1
  BY <1>1
<1> HIDE DEF r
<1>5. NoDuplicates(r)
  BY <1>1, <1>2, <1>3, <1>4 DEF NoDuplicates, Elements
<1>6. Elements(r) = Elements(q) \cup {x}
  BY <1>1, <1>2, <1>3, <1>4 DEF Elements
<1> QED
  BY <1>1, <1>5, <1>6 DEF r

\* Popping the front of a deque without duplicates removes just that element
\* (the pop_front calls of the allocator).
LEMMA TailElements ==
  ASSUME NEW S, NEW q \in Seq(S), q # << >>, NoDuplicates(q)
  PROVE  /\ Tail(q) \in Seq(S)
         /\ Head(q) \in S /\ Head(q) \in Elements(q)
         /\ NoDuplicates(Tail(q))
         /\ Elements(Tail(q)) = Elements(q) \ {Head(q)}
<1> DEFINE r == Tail(q)
<1>1. /\ r \in Seq(S) /\ Len(q) \in Nat /\ Len(q) > 0 /\ Len(r) = Len(q) - 1
      /\ Head(q) = q[1] /\ q[1] \in S
  OBVIOUS
<1>2. \A i \in 1 .. Len(q) - 1 : r[i] = q[i + 1]
  OBVIOUS
<1>3. DOMAIN q = 1 .. Len(q) /\ DOMAIN r = 1 .. Len(q) - 1
  BY <1>1
<1> HIDE DEF r
<1>4. NoDuplicates(r)
  BY <1>1, <1>2, <1>3 DEF NoDuplicates
<1>5. Elements(r) \subseteq Elements(q) \ {q[1]}
  <2> SUFFICES ASSUME NEW i \in DOMAIN r
               PROVE  r[i] \in Elements(q) /\ r[i] # q[1]
    BY DEF Elements
  <2>1. r[i] = q[i + 1] /\ i + 1 \in DOMAIN q /\ 1 \in DOMAIN q /\ i + 1 # 1
    BY <1>1, <1>2, <1>3
  <2> QED
    BY <2>1 DEF NoDuplicates, Elements
<1>6. ASSUME NEW y \in Elements(q), y # q[1]
      PROVE  y \in Elements(r)
  <2>1. PICK i \in 1 .. Len(q) : q[i] = y
    BY <1>3, <1>6 DEF Elements
  <2>2. i - 1 \in 1 .. Len(q) - 1 /\ r[i - 1] = y
    BY <2>1, <1>6, <1>1, <1>2
  <2> QED
    BY <2>2, <1>3 DEF Elements
<1>7. q[1] \in Elements(q)
  BY <1>1, <1>3 DEF Elements
<1> QED
  BY <1>1, <1>4, <1>5, <1>6, <1>7 DEF r

-----------------------------------------------------------------------------
\* The inductive invariant of the allocator.
AllocInv == AllocTypeOK /\ SlotsPartitioned

\* configure() establishes the invariant.
LEMMA AllocInitInv == AllocInit => AllocInv
<1> SUFFICES ASSUME AllocInit PROVE AllocInv
  OBVIOUS
<1> USE TotalSlotsAssumption, MaxGenerationAssumption DEF AllocInit
<1>1. AllocTypeOK
  BY DEF AllocTypeOK, Slots, SlotState
<1>2. Elements(<< >>) = {}
  BY DEF Elements
<1>3. FreeListExact
  BY <1>2 DEF FreeListExact, NoDuplicates, Slots
<1>4. ReclaimExact
  BY <1>2 DEF ReclaimExact, NoDuplicates, Slots
<1> QED
  BY <1>1, <1>3, <1>4 DEF AllocInv, SlotsPartitioned

-----------------------------------------------------------------------------
\* reserve() takes the slot from the free list or from the frontier.
LEMMA ReserveInv ==
  ASSUME AllocInv, NEW slot \in Slots, AllocReserve(slot)
  PROVE  AllocInv'
<1> USE TotalSlotsAssumption, MaxGenerationAssumption
        DEF AllocInv, SlotsPartitioned
<1>1. CASE free_list # << >>
  <2>1. slot = Head(free_list) /\ free_list' = Tail(free_list)
        /\ high_water' = high_water
    BY <1>1 DEF AllocReserve, TakeFreeSlot
  <2>2. /\ free_list' \in Seq(Slots) /\ NoDuplicates(free_list')
        /\ Elements(free_list') = Elements(free_list) \ {slot}
        /\ slot \in Elements(free_list)
    BY <1>1, <2>1, TailElements DEF AllocTypeOK, FreeListExact
  <2>3. AllocTypeOK'
    BY <2>1, <2>2 DEF AllocTypeOK, AllocReserve, SlotState
  <2>4. slot < high_water /\ \A s \in Slots : s >= high_water => s # slot
    BY <2>2 DEF AllocTypeOK, FreeListExact, Slots
  <2>5. FreeListExact'
    BY <2>1, <2>2, <2>4 DEF AllocTypeOK, AllocReserve, FreeListExact
  <2>6. ReclaimExact'
    BY <2>2 DEF AllocTypeOK, AllocReserve, FreeListExact, ReclaimExact
  <2> QED
    BY <2>3, <2>5, <2>6
<1>2. CASE free_list = << >>
  <2>1. slot = high_water /\ high_water' = high_water + 1
        /\ free_list' = free_list /\ high_water < TotalSlots
    BY <1>2 DEF AllocReserve, TakeFreeSlot, Slots
  <2>2. /\ high_water' \in 0 .. TotalSlots
        /\ states[slot] = "free"
        /\ \A s \in Slots : s < high_water' <=> s < high_water \/ s = slot
        /\ \A s \in Slots : s >= high_water' <=> ~(s < high_water')
        /\ \A s \in Slots : s >= high_water <=> ~(s < high_water)
    BY <2>1 DEF AllocTypeOK, FreeListExact, Slots
  <2>3. AllocTypeOK'
    BY <2>1, <2>2 DEF AllocTypeOK, AllocReserve, SlotState
  <2>4. slot \notin Elements(free_list)
    BY <1>2 DEF Elements
  <2>5. FreeListExact'
    BY <2>1, <2>2, <2>4 DEF AllocTypeOK, AllocReserve, FreeListExact
  <2>6. ReclaimExact'
    BY <2>2 DEF AllocTypeOK, AllocReserve, ReclaimExact
  <2> QED
    BY <2>3, <2>5, <2>6
<1> QED
  BY <1>1, <1>2

\* reserve() only hands out a free slot.
LEMMA ReservedWasFree ==
  ASSUME AllocInv, NEW slot \in Slots, AllocReserve(slot)
  PROVE  states[slot] = "free"
<1> USE TotalSlotsAssumption DEF AllocInv
<1>1. CASE free_list # << >>
  BY <1>1, TailElements
     DEF AllocReserve, TakeFreeSlot, SlotsPartitioned, FreeListExact,
         AllocTypeOK
<1>2. CASE free_list = << >>
  BY <1>2
     DEF AllocReserve, TakeFreeSlot, SlotsPartitioned, FreeListExact,
         AllocTypeOK, Slots
<1> QED
  BY <1>1, <1>2

\* commit() keeps the types and the partition.
LEMMA CommitInv ==
  ASSUME AllocInv, NEW S \in SUBSET Slots, AllocCommit(S)
  PROVE  AllocInv'
<1> USE DEF AllocInv, SlotsPartitioned
<1>1. AllocTypeOK'
  BY DEF AllocTypeOK, AllocCommit, SlotState
<1>2. FreeListExact'
  BY DEF AllocTypeOK, AllocCommit, FreeListExact
<1>3. ReclaimExact'
  BY DEF AllocTypeOK, AllocCommit, ReclaimExact
<1> QED
  BY <1>1, <1>2, <1>3

\* abort() and release() move a slot to the reclaim queue.
LEMMA StartReclaimInv ==
  ASSUME AllocInv, NEW slot \in Slots, NEW from \in {"reserved", "committed"},
         StartReclaim(slot, from)
  PROVE  AllocInv'
<1> USE DEF AllocInv, SlotsPartitioned
<1>1. CASE states[slot] # from
  BY <1>1 DEF StartReclaim, allocVars, AllocTypeOK, FreeListExact,
              ReclaimExact, Elements, NoDuplicates
<1>2. CASE states[slot] = from
  <2>1. slot \notin Elements(reclaim_queue) /\ slot \notin reclaim_in_flight
        /\ slot \notin Elements(free_list) /\ slot < high_water
    BY <1>2 DEF ReclaimExact, FreeListExact, AllocTypeOK, Slots
  <2>2. /\ reclaim_queue' \in Seq(Slots) /\ NoDuplicates(reclaim_queue')
        /\ Elements(reclaim_queue') = Elements(reclaim_queue) \cup {slot}
    <3>1. reclaim_queue' = Append(reclaim_queue, slot)
          /\ reclaim_queue \in Seq(Slots) /\ NoDuplicates(reclaim_queue)
      BY <1>2 DEF StartReclaim, AllocTypeOK, ReclaimExact
    <3> QED
      BY <2>1, <3>1, AppendElements
  <2>3. AllocTypeOK'
    BY <1>2, <2>2, Zenon DEF StartReclaim, AllocTypeOK, SlotState
  <2>4. FreeListExact'
    BY <1>2, <2>1 DEF StartReclaim, AllocTypeOK, FreeListExact
  <2>5. ReclaimExact'
    BY <1>2, <2>1, <2>2 DEF StartReclaim, AllocTypeOK, ReclaimExact
  <2> QED
    BY <2>3, <2>4, <2>5
<1> QED
  BY <1>1, <1>2

\* take_reclaimable() moves a slot from the queue to in flight.
LEMMA TakeReclaimableInv ==
  ASSUME AllocInv, TakeReclaimable
  PROVE  AllocInv'
<1> USE DEF AllocInv, SlotsPartitioned
<1> DEFINE slot == Head(reclaim_queue)
<1>1. /\ reclaim_queue' \in Seq(Slots) /\ slot \in Slots
      /\ slot \in Elements(reclaim_queue) /\ NoDuplicates(reclaim_queue')
      /\ Elements(reclaim_queue') = Elements(reclaim_queue) \ {slot}
  BY TailElements DEF TakeReclaimable, AllocTypeOK, ReclaimExact
<1>2. reclaim_in_flight' = reclaim_in_flight \cup {slot}
  BY DEF TakeReclaimable
<1> HIDE DEF slot
<1>3. AllocTypeOK'
  BY <1>1, <1>2 DEF TakeReclaimable, AllocTypeOK
<1>4. FreeListExact'
  BY DEF TakeReclaimable, FreeListExact, NoDuplicates, Elements
<1>5. ReclaimExact'
  BY <1>1, <1>2 DEF TakeReclaimable, ReclaimExact
<1> QED
  BY <1>3, <1>4, <1>5

\* finish_reclaim() moves a slot from in flight to the free list.
LEMMA FinishReclaimInv ==
  ASSUME AllocInv, NEW slot \in Slots, FinishReclaim(slot)
  PROVE  AllocInv'
<1> USE MaxGenerationAssumption DEF AllocInv, SlotsPartitioned
<1>1. states[slot] = "reclaiming" /\ slot \notin Elements(reclaim_queue)
      /\ slot \notin Elements(free_list) /\ slot < high_water
  BY DEF FinishReclaim, ReclaimExact, FreeListExact, AllocTypeOK, Slots
<1>2. /\ free_list' \in Seq(Slots) /\ NoDuplicates(free_list')
      /\ Elements(free_list') = Elements(free_list) \cup {slot}
  BY <1>1, AppendElements DEF FinishReclaim, AllocTypeOK, FreeListExact
<1>3. AllocTypeOK'
  BY <1>2 DEF FinishReclaim, AllocTypeOK, SlotState
<1>4. FreeListExact'
  BY <1>1, <1>2 DEF FinishReclaim, AllocTypeOK, FreeListExact
<1>5. ReclaimExact'
  BY <1>1 DEF FinishReclaim, AllocTypeOK, ReclaimExact
<1> QED
  BY <1>3, <1>4, <1>5

\* requeue_reclaim() moves a slot from in flight back to the queue.
LEMMA RequeueReclaimInv ==
  ASSUME AllocInv, NEW slot \in Slots, RequeueReclaim(slot)
  PROVE  AllocInv'
<1> USE DEF AllocInv, SlotsPartitioned
<1>1. slot \notin Elements(reclaim_queue)
  BY DEF RequeueReclaim, ReclaimExact
<1>2. /\ reclaim_queue' \in Seq(Slots) /\ NoDuplicates(reclaim_queue')
      /\ Elements(reclaim_queue') = Elements(reclaim_queue) \cup {slot}
  BY <1>1, AppendElements DEF RequeueReclaim, AllocTypeOK, ReclaimExact
<1>3. AllocTypeOK'
  BY <1>2 DEF RequeueReclaim, AllocTypeOK
<1>4. FreeListExact'
  BY DEF RequeueReclaim, FreeListExact, NoDuplicates, Elements
<1>5. ReclaimExact'
  BY <1>1, <1>2 DEF RequeueReclaim, ReclaimExact
<1> QED
  BY <1>3, <1>4, <1>5

\* A step that leaves the allocator alone keeps its invariant.
LEMMA AllocUnchanged ==
  ASSUME AllocInv, UNCHANGED allocVars
  PROVE  AllocInv'
<1>1. AllocTypeOK'
  BY DEF AllocInv, AllocTypeOK, allocVars
<1>2. FreeListExact'
  BY DEF AllocInv, SlotsPartitioned, FreeListExact, NoDuplicates, Elements,
         allocVars
<1>3. ReclaimExact'
  BY DEF AllocInv, SlotsPartitioned, ReclaimExact, NoDuplicates, Elements,
         allocVars
<1> QED
  BY <1>1, <1>2, <1>3 DEF AllocInv, SlotsPartitioned

-----------------------------------------------------------------------------
\* Every call of the allocator keeps the invariant.
LEMMA AllocNextInv == AllocInv /\ [AllocNext]_allocVars => AllocInv'
<1> SUFFICES ASSUME AllocInv, [AllocNext]_allocVars PROVE AllocInv'
  OBVIOUS
<1>1. ASSUME NEW limit \in 0 .. TotalSlots, AllocSetReadyLimit(limit)
      PROVE  AllocInv'
  BY <1>1 DEF AllocSetReadyLimit, AllocInv, SlotsPartitioned, AllocTypeOK,
              FreeListExact, ReclaimExact, NoDuplicates, Elements
<1>2. CASE UNCHANGED allocVars
  BY <1>2, AllocUnchanged
<1> QED
  BY <1>1, <1>2, ReserveInv, CommitInv, StartReclaimInv, TakeReclaimableInv,
     FinishReclaimInv, RequeueReclaimInv
     DEF AllocNext, AllocAbort, AllocRelease

\* The fields of the allocator always have their types.
THEOREM AllocTypeCorrect == AllocSpec => []AllocTypeOK
<1>1. AllocInv => AllocTypeOK
  BY DEF AllocInv
<1> QED
  BY <1>1, AllocInitInv, AllocNextInv, PTL DEF AllocSpec

\* No sequence of allocator calls hands a slot out twice or loses one.
THEOREM AllocPartitionCorrect == AllocSpec => []SlotsPartitioned
<1>1. AllocInv => SlotsPartitioned
  BY DEF AllocInv
<1> QED
  BY <1>1, AllocInitInv, AllocNextInv, PTL DEF AllocSpec

\* A slot is scrubbed and its generation bumped between two reservations.
THEOREM AllocScrubCorrect == AllocSpec => ScrubBeforeReuse
<1> DEFINE Step ==
      \A s \in Slots :
        /\ states[s] \in {"committed", "reclaiming"} => states'[s] # "reserved"
        /\ states[s] # "free" /\ states'[s] = "free"
             => states[s] = "reclaiming" /\ generations'[s] > generations[s]
<1>1. ASSUME AllocInv, [AllocNext]_allocVars PROVE [Step]_allocVars
  <2> USE <1>1, TotalSlotsAssumption DEF AllocInv
  <2>1. ASSUME NEW limit \in 0 .. TotalSlots, AllocSetReadyLimit(limit)
        PROVE  Step
    BY <2>1 DEF AllocSetReadyLimit, AllocTypeOK
  <2>2. ASSUME NEW slot \in Slots, AllocReserve(slot) PROVE Step
    <3>1. states[slot] = "free"
      BY <2>2, ReservedWasFree
    <3> QED
      BY <2>2, <3>1 DEF AllocReserve, AllocTypeOK
  <2>3. ASSUME NEW S \in SUBSET Slots, AllocCommit(S) PROVE Step
    BY <2>3 DEF AllocCommit, AllocTypeOK
  <2>4. ASSUME NEW slot \in Slots, NEW from, StartReclaim(slot, from)
        PROVE  [Step]_allocVars
    BY <2>4, Zenon DEF StartReclaim, AllocTypeOK
  <2>5. TakeReclaimable => Step
    BY DEF TakeReclaimable, AllocTypeOK
  <2>6. ASSUME NEW slot \in Slots, FinishReclaim(slot) PROVE Step
    BY <2>6, MaxGenerationAssumption
       DEF FinishReclaim, AllocTypeOK, SlotsPartitioned, ReclaimExact
  <2>7. ASSUME NEW slot \in Slots, RequeueReclaim(slot) PROVE Step
    BY <2>7 DEF RequeueReclaim, AllocTypeOK
  <2> HIDE DEF Step
  <2> QED
    BY <2>1, <2>2, <2>3, <2>4, <2>5, <2>6, <2>7
       DEF AllocNext, AllocAbort, AllocRelease
<1> QED
  BY <1>1, AllocInitInv, AllocNextInv, PTL DEF AllocSpec, ScrubBeforeReuse
=============================================================================
