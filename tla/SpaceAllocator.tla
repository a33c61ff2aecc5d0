--------------------------- MODULE SpaceAllocator ---------------------------
(***************************************************************************)
(* The slot-number allocator of the object store                           *)
(* (csrc/storage_objects/space_allocator.{h,cpp}).                         *)
(*                                                                         *)
(* A slot is Free, Reserved, Committed or Reclaiming.  Slots at or above   *)
(* high_water have never been handed out; slots below it that are Free     *)
(* wait in free_list; Reclaiming slots wait in reclaim_queue or are being  *)
(* zeroed (reclaim_in_flight).  Every method runs under one mutex, so one  *)
(* method call is one action.  The loops of commit, abort, release,        *)
(* finish_reclaim and requeue_reclaim have no early exit and treat each    *)
(* slot alone: a batch is the composition of one-slot calls.               *)
(***************************************************************************)
EXTENDS Naturals, Sequences

CONSTANTS TotalSlots,     \* total_slots_, fixed by configure()
          MaxGeneration   \* bound on the 64-bit generation counters

ASSUME TotalSlotsAssumption == TotalSlots \in Nat \ {0}
ASSUME MaxGenerationAssumption == MaxGeneration \in Nat

Slots == 0 .. TotalSlots - 1

SlotState == {"free", "reserved", "committed", "reclaiming"}

VARIABLES states, generations, free_list, reclaim_queue, reclaim_in_flight,
          high_water, ready_limit

allocVars == <<states, generations, free_list, reclaim_queue,
               reclaim_in_flight, high_water, ready_limit>>

Elements(q) == {q[i] : i \in DOMAIN q}

\* configure(): every slot free, no slot ever handed out.  ready_limit_ is
\* not touched; a fresh allocator has no limit.
AllocInit ==
  /\ states = [s \in Slots |-> "free"]
  /\ generations = [s \in Slots |-> 0]
  /\ free_list = << >>
  /\ reclaim_queue = << >>
  /\ reclaim_in_flight = {}
  /\ high_water = 0
  /\ ready_limit = TotalSlots

\* A new instance: configure() on a fresh allocator.
AllocReset ==
  /\ states' = [s \in Slots |-> "free"]
  /\ generations' = [s \in Slots |-> 0]
  /\ free_list' = << >>
  /\ reclaim_queue' = << >>
  /\ reclaim_in_flight' = {}
  /\ high_water' = 0
  /\ ready_limit' = TotalSlots

AllocSetReadyLimit(limit) ==
  /\ ready_limit' = limit
  /\ UNCHANGED <<states, generations, free_list, reclaim_queue,
                 reclaim_in_flight, high_water>>

\* take_free_slot_locked(): a recycled slot first, else the next never-used
\* slot below the ready limit, else the sentinel TotalSlots.
TakeFreeSlot ==
  IF free_list # << >> THEN Head(free_list)
  ELSE IF high_water < TotalSlots /\ high_water < ready_limit
       THEN high_water
       ELSE TotalSlots

\* Mutant of AllocReserve: the high-water mark moves for a recycled slot too.
AllocReserveAlwaysAdvances(slot) ==
  /\ slot = TakeFreeSlot
  /\ slot \in Slots
  /\ states' = [states EXCEPT ![slot] = "reserved"]
  /\ free_list' = IF free_list # << >> THEN Tail(free_list) ELSE free_list
  /\ high_water' = high_water + 1
  /\ UNCHANGED <<generations, reclaim_queue, reclaim_in_flight, ready_limit>>

\* reserve(1).  slot is the one handed out; an exhausted allocator changes
\* nothing, so it has no action.
AllocReserve(slot) ==
  /\ slot = TakeFreeSlot
  /\ slot \in Slots
  /\ states' = [states EXCEPT ![slot] = "reserved"]
  /\ IF free_list # << >>
     THEN free_list' = Tail(free_list) /\ UNCHANGED high_water
     ELSE high_water' = high_water + 1 /\ UNCHANGED free_list
  /\ UNCHANGED <<generations, reclaim_queue, reclaim_in_flight, ready_limit>>

\* commit(): Reserved -> Committed; any other state is ignored.
AllocCommit(S) ==
  /\ states' = [s \in Slots |->
                  IF s \in S /\ states[s] = "reserved" THEN "committed"
                                                       ELSE states[s]]
  /\ UNCHANGED <<generations, free_list, reclaim_queue, reclaim_in_flight,
                 high_water, ready_limit>>

\* Mutant of StartReclaim: the state test of the loop body is dropped.
StartReclaimUnguarded(slot, from) ==
  /\ states' = [states EXCEPT ![slot] = "reclaiming"]
  /\ reclaim_queue' = Append(reclaim_queue, slot)
  /\ UNCHANGED <<generations, free_list, reclaim_in_flight, high_water,
                 ready_limit>>

\* The loop body shared by abort() and release(): a slot in state `from`
\* starts reclaiming, a slot in any other state is left alone.
StartReclaim(slot, from) ==
  IF states[slot] = from
  THEN /\ states' = [states EXCEPT ![slot] = "reclaiming"]
       /\ reclaim_queue' = Append(reclaim_queue, slot)
       /\ UNCHANGED <<generations, free_list, reclaim_in_flight, high_water,
                      ready_limit>>
  ELSE UNCHANGED allocVars

AllocAbort(slot) == StartReclaim(slot, "reserved")

AllocRelease(slot) == StartReclaim(slot, "committed")

\* take_reclaimable(1): the oldest queued slot goes in flight.
TakeReclaimable ==
  /\ reclaim_queue # << >>
  /\ reclaim_in_flight' = reclaim_in_flight \cup {Head(reclaim_queue)}
  /\ reclaim_queue' = Tail(reclaim_queue)
  /\ UNCHANGED <<states, generations, free_list, high_water, ready_limit>>

\* Mutant of FinishReclaim: the generation is not bumped.
FinishReclaimSameGeneration(slot) ==
  /\ slot \in reclaim_in_flight
  /\ reclaim_in_flight' = reclaim_in_flight \ {slot}
  /\ states' = [states EXCEPT ![slot] = "free"]
  /\ free_list' = Append(free_list, slot)
  /\ UNCHANGED <<generations, reclaim_queue, high_water, ready_limit>>

\* finish_reclaim(): Reclaiming -> Free with a new generation.
FinishReclaim(slot) ==
  /\ slot \in reclaim_in_flight
  /\ generations[slot] < MaxGeneration
  /\ reclaim_in_flight' = reclaim_in_flight \ {slot}
  /\ generations' = [generations EXCEPT ![slot] = @ + 1]
  /\ states' = [states EXCEPT ![slot] = "free"]
  /\ free_list' = Append(free_list, slot)
  /\ UNCHANGED <<reclaim_queue, high_water, ready_limit>>

\* requeue_reclaim(): zeroing failed, the slot goes back to the queue.
RequeueReclaim(slot) ==
  /\ slot \in reclaim_in_flight
  /\ reclaim_in_flight' = reclaim_in_flight \ {slot}
  /\ reclaim_queue' = Append(reclaim_queue, slot)
  /\ UNCHANGED <<states, generations, free_list, high_water, ready_limit>>

AllocNext ==
  \/ \E limit \in 0 .. TotalSlots : AllocSetReadyLimit(limit)
  \/ \E slot \in Slots : AllocReserve(slot)
  \/ \E S \in SUBSET Slots : AllocCommit(S)
  \/ \E slot \in Slots : AllocAbort(slot)
  \/ \E slot \in Slots : AllocRelease(slot)
  \/ TakeReclaimable
  \/ \E slot \in Slots : FinishReclaim(slot)
  \/ \E slot \in Slots : RequeueReclaim(slot)

AllocSpec == AllocInit /\ [][AllocNext]_allocVars

-----------------------------------------------------------------------------

\* The allocator's state has the types of the fields of SpaceAllocator.
AllocTypeOK ==
  /\ states \in [Slots -> SlotState]
  /\ generations \in [Slots -> 0 .. MaxGeneration]
  /\ free_list \in Seq(Slots)
  /\ reclaim_queue \in Seq(Slots)
  /\ reclaim_in_flight \subseteq Slots
  /\ high_water \in 0 .. TotalSlots
  /\ ready_limit \in 0 .. TotalSlots

NoDuplicates(q) == \A i, j \in DOMAIN q : q[i] = q[j] => i = j

\* A slot can be handed out (free_list or at the frontier) only when it is
\* Free, and is listed once.
FreeListExact ==
  /\ NoDuplicates(free_list)
  /\ \A s \in Slots :
       s \in Elements(free_list) <=> states[s] = "free" /\ s < high_water
  /\ \A s \in Slots : s >= high_water => states[s] = "free"

\* A slot is Reclaiming exactly when it waits in reclaim_queue (once) or is
\* being zeroed (reclaim_in_flight), and never both.
ReclaimExact ==
  /\ NoDuplicates(reclaim_queue)
  /\ Elements(reclaim_queue) \cap reclaim_in_flight = {}
  /\ \A s \in Slots :
       s \in Elements(reclaim_queue) \cup reclaim_in_flight
         <=> states[s] = "reclaiming"

\* Every slot is in exactly one place whatever the order of reserve, commit,
\* abort, release and the reclaimer's calls: no slot can be handed out twice,
\* and none is lost (space_allocator.cpp, all methods).
SlotsPartitioned == FreeListExact /\ ReclaimExact

\* A slot that holds data never becomes reservable in one step: it passes
\* through Reclaiming, and it leaves Reclaiming only with a new generation
\* (take_free_slot_locked, finish_reclaim).
ScrubBeforeReuse ==
  [][\A s \in Slots :
       /\ states[s] \in {"committed", "reclaiming"} => states'[s] # "reserved"
       /\ states[s] # "free" /\ states'[s] = "free"
            => states[s] = "reclaiming" /\ generations'[s] > generations[s]
    ]_allocVars
=============================================================================
