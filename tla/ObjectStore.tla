----------------------------- MODULE ObjectStore -----------------------------
(***************************************************************************)
(* The durable object store of one rank                                    *)
(* (csrc/storage_objects/object_store_core.{h,cpp} and the files it        *)
(* assembles), with crashes, restarts and failing media IO.                *)
(*                                                                         *)
(* Memory: index_ (key -> slot), pins_, the slot allocator and the         *)
(* checkpoint bookkeeping.  Media: one object header and one payload per   *)
(* slot, two checkpoint containers, the residency bitmap.  Every public    *)
(* method holds mutex_ throughout, so one call is one action; a crash in   *)
(* the middle of a call is the failing variant of that call followed by    *)
(* Crash, because nothing else of a half-done call outlives the process.   *)
(* reserve, abort, release, pin and unpin treat the keys of a batch one by *)
(* one without early exit, so their batches are compositions of one-key    *)
(* calls; commit does have an early exit and takes the batch as a set.     *)
(*                                                                         *)
(* The capacity is one file group, all of it materialised.  commit_seq_ is *)
(* left out: nothing compares it.  slot_owner_, the inverse of index_, is  *)
(* left out: it is read only to drop duplicate checkpoint entries, and a   *)
(* checkpoint never holds two entries of one key or of one slot            *)
(* (LiveSlotsAreExclusive).                                                *)
(***************************************************************************)
EXTENDS SpaceAllocator

CONSTANTS Keys,              \* object keys, opaque byte strings
          NoKey,             \* what a slot holds that holds no whole object
          RankCount,         \* config_.rank_count; 1 = no residency bitmap
          MaxPins,           \* bound on the pin counts
          MaxCheckpointSeq,  \* bound on the checkpoint sequence numbers
          ReadFaults         \* may metadata reads fail transiently?

ASSUME NoKeyAssumption == NoKey \notin Keys
ASSUME RankCountAssumption == RankCount \in Nat \ {0}
ASSUME MaxPinsAssumption == MaxPins \in Nat
ASSUME MaxCheckpointSeqAssumption == MaxCheckpointSeq \in Nat
ASSUME ReadFaultsAssumption == ReadFaults \in BOOLEAN

VARIABLES
  opened,            \* opened_ of the live instance
  index,             \* index_: key -> Entry
  pins,              \* pins_
  checkpoint_seq,    \* checkpoint_seq_
  checkpoint_dirty,  \* checkpoint_dirty_
  header,            \* media: the object header of every slot
  payload,           \* media: the key whose whole payload the slot holds
  containers,        \* media: the mirrored checkpoint containers
  residency          \* this rank's mmapped bitmap; outlives the process

memVars == <<opened, index, pins, checkpoint_seq, checkpoint_dirty>>
mediaVars == <<header, payload, containers, residency>>
vars == <<allocVars, memVars, mediaVars>>

Containers == {0, 1}     \* CheckpointLayout::kContainerCount

Entry == [state : {"absent", "reserved", "committed"},
          slot : Slots, generation : 0 .. MaxGeneration]
Absent == [state |-> "absent", slot |-> 0, generation |-> 0]

\* What decode_object_header() can tell apart: a header that names a key and
\* a generation, and anything else (never written, zeroed or torn).
Header == [key : Keys \cup {NoKey}, generation : 0 .. MaxGeneration]
NoHeader == [key |-> NoKey, generation |-> 0]

CheckpointEntry == [key : Keys, slot : Slots, generation : 0 .. MaxGeneration]
\* seq = 0: empty, torn or otherwise rejected by decode_checkpoint().
Container == [seq : 0 .. MaxCheckpointSeq, entries : SUBSET CheckpointEntry]
NoCheckpoint == [seq |-> 0, entries |-> {}]

Live(k) == index[k].state # "absent"
Committed(k) == index[k].state = "committed"

\* decode_object_header() with the expectation built from checkpoint entry e.
HeaderMatches(e) ==
  header[e.slot] = [key |-> e.key, generation |-> e.generation]

-----------------------------------------------------------------------------
\* The checkpoint containers.

\* read_container_sequences_locked(), with the containers of `lost` unreadable.
Sequences(lost) ==
  [c \in Containers |-> IF c \in lost THEN 0 ELSE containers[c].seq]

\* Mutant of NextContainer: the newest container is the one overwritten.
NextContainerNewest(seqs) ==
  IF seqs[0] = 0 THEN 0
  ELSE IF seqs[1] = 0 THEN 1
  ELSE IF seqs[1] < seqs[0] THEN 0 ELSE 1

\* next_checkpoint_container(): the first empty container, else the oldest.
NextContainer(seqs) ==
  IF seqs[0] = 0 THEN 0
  ELSE IF seqs[1] = 0 THEN 1
  ELSE IF seqs[1] < seqs[0] THEN 1 ELSE 0

\* select_checkpoint_container(): the first container with the highest
\* sequence.  With no sequence above zero the code selects none; the entries
\* of a container with sequence zero are empty, so the choice is harmless.
SelectContainer(seqs) == IF seqs[1] > seqs[0] THEN 1 ELSE 0

HighestSeq(seqs) == seqs[SelectContainer(seqs)]

\* The media reads that may fail in one pass over containers or headers.
FaultSets(S) == IF ReadFaults THEN SUBSET S ELSE {{}}

\* persist_checkpoint_locked(): the image written over NextContainer(seqs).
NextSeq(seqs) ==
  1 + (IF checkpoint_seq > HighestSeq(seqs) THEN checkpoint_seq
                                            ELSE HighestSeq(seqs))

CommittedEntries ==
  {[key |-> k, slot |-> index[k].slot, generation |-> index[k].generation] :
     k \in {j \in Keys : Committed(j)}}

CheckpointImage(seqs) == [seq |-> NextSeq(seqs), entries |-> CommittedEntries]

\* write_checkpoint_container() leaves `found` in the target.  A write that
\* fails leaves the old container, a torn one, or the new image after all.
WriteContainer(seqs, found) ==
  /\ NextSeq(seqs) <= MaxCheckpointSeq
  /\ containers' = [containers EXCEPT ![NextContainer(seqs)] = found]

FailedWrites(seqs) ==
  {containers[NextContainer(seqs)], NoCheckpoint, CheckpointImage(seqs)}

-----------------------------------------------------------------------------
\* open, close and the end of the process.

Init ==
  /\ opened = FALSE
  /\ index = [k \in Keys |-> Absent]
  /\ pins = [k \in Keys |-> 0]
  /\ checkpoint_seq = 0
  /\ checkpoint_dirty = FALSE
  /\ AllocInit
  /\ header = [s \in Slots |-> NoHeader]
  /\ payload = [s \in Slots |-> NoKey]
  /\ containers = [c \in Containers |-> NoCheckpoint]
  /\ residency = {}

\* The instance is gone; the next open() is on a fresh one.
EndInstance ==
  /\ opened' = FALSE
  /\ index' = [k \in Keys |-> Absent]
  /\ pins' = [k \in Keys |-> 0]
  /\ checkpoint_seq' = 0
  /\ checkpoint_dirty' = FALSE
  /\ AllocReset

\* The slots below the highest recovered one that were not recovered.
Gaps(S) == {s \in Slots : s \notin S /\ \E t \in S : s < t}

\* Mutant of AdoptSlots: the recovered slots are not claimed.
AdoptSlotsUnclaimed(S) ==
  UNCHANGED allocVars

\* The allocator part of load_checkpoint_locked(), on a freshly configured
\* allocator: slots 0 .. max(S) are reserved, those of S are committed and
\* the gaps aborted in ascending order.
AdoptSlots(S) ==
  /\ states' = [s \in Slots |-> IF s \in S THEN "committed"
                                ELSE IF s \in Gaps(S) THEN "reclaiming"
                                ELSE "free"]
  /\ \E n \in 0 .. TotalSlots : \E q \in [1 .. n -> Gaps(S)] :
       /\ Elements(q) = Gaps(S)
       /\ \A i, j \in 1 .. n : i < j => q[i] < q[j]
       /\ reclaim_queue' = q
  /\ high_water' \in 0 .. TotalSlots
  /\ \A s \in Slots : s < high_water' <=> s \in S \cup Gaps(S)
  /\ UNCHANGED <<generations, free_list, reclaim_in_flight, ready_limit>>

\* The checkpoint entries load_checkpoint_locked() keeps: those of the newest
\* readable container that the header of their slot confirms.
Verified(lost, unreadable) ==
  {e \in containers[SelectContainer(Sequences(lost))].entries :
     /\ HighestSeq(Sequences(lost)) > 0
     /\ e.slot \notin unreadable
     /\ HeaderMatches(e)}

\* open() on a fresh instance.  The rebuild of the bitmap at the end of
\* load_checkpoint_locked() does nothing: own_residency_ is mapped later in
\* open(), so it is not usable() yet.
Open ==
  /\ ~opened
  /\ \E lost \in FaultSets(Containers), unreadable \in FaultSets(Slots) :
       LET accepted == Verified(lost, unreadable)
       IN /\ index' = [k \in Keys |->
                         IF \E e \in accepted : e.key = k
                         THEN LET e == CHOOSE e \in accepted : e.key = k
                              IN [state |-> "committed", slot |-> e.slot,
                                  generation |-> e.generation]
                         ELSE Absent]
          /\ checkpoint_seq' = HighestSeq(Sequences(lost))
          /\ AdoptSlots({e.slot : e \in accepted})
  /\ opened' = TRUE
  /\ UNCHANGED <<pins, checkpoint_dirty, mediaVars>>

\* close() and the destruction of the instance, which PyObjectStore::close()
\* does whatever the status: a dirty index is checkpointed first.
Close ==
  /\ opened
  /\ \E lost \in FaultSets(Containers) :
       LET seqs == Sequences(lost)
       IN IF checkpoint_dirty
          THEN \E found \in FailedWrites(seqs) : WriteContainer(seqs, found)
          ELSE UNCHANGED containers
  /\ EndInstance
  /\ UNCHANGED <<header, payload, residency>>

\* The process ends without close().  The bitmap is a shared file mapping:
\* its bits outlive the process.
Crash ==
  /\ opened
  /\ EndInstance
  /\ UNCHANGED mediaVars

-----------------------------------------------------------------------------
\* The write path.

Reserved(slot) ==
  [state |-> "reserved", slot |-> slot, generation |-> generations[slot]]

\* reserve() of one key that is not in the index.  (A key that is gets its
\* placement back, and an exhausted allocator rejects: neither changes state.)
Reserve(k) ==
  /\ opened
  /\ ~Live(k)
  /\ \E slot \in Slots :
       /\ AllocReserve(slot)
       /\ index' = [index EXCEPT ![k] = Reserved(slot)]
  /\ UNCHANGED <<opened, pins, checkpoint_seq, checkpoint_dirty, mediaVars>>

\* The caller's payload writes to a slot it has reserved: they leave part of
\* the payload, or all of it.  Rewriting a whole payload leaves it whole.
WritePayload(k) ==
  /\ opened
  /\ index[k].state = "reserved"
  /\ payload[index[k].slot] # k
  /\ \E content \in {NoKey, k} :
       payload' = [payload EXCEPT ![index[k].slot] = content]
  /\ UNCHANGED <<allocVars, memVars, header, containers, residency>>

\* own_residency_.set() and clear(): without a usable bitmap they do nothing.
SetResidency(S) == residency' = IF RankCount > 1 THEN residency \cup S
                                                 ELSE residency
ClearResidency(slot) == residency' = residency \ {slot}

\* What the caller of commit() guarantees: the payload is durable.
Committable(k) == index[k].state = "reserved" /\ payload[index[k].slot] = k

SlotsOf(K) == {index[k].slot : k \in K}

\* write_header_locked() for every key of K.
HeaderWritten(K) ==
  [s \in Slots |->
     IF \E k \in K : index[k].slot = s
     THEN LET k == CHOOSE k \in K : index[k].slot = s
          IN [key |-> k, generation |-> index[k].generation]
     ELSE header[s]]

IndexCommitted(K) ==
  [k \in Keys |-> IF k \in K THEN [index[k] EXCEPT !.state = "committed"]
                             ELSE index[k]]

\* commit() of a batch whose reserved keys are K, all headers written.
Commit(K) ==
  /\ opened
  /\ \A k \in K : Committable(k)
  /\ header' = HeaderWritten(K)
  /\ index' = IndexCommitted(K)
  /\ AllocCommit(SlotsOf(K))
  /\ SetResidency(SlotsOf(K))
  /\ checkpoint_dirty' = TRUE
  /\ UNCHANGED <<opened, pins, checkpoint_seq, payload, containers>>

\* commit() that returns at key f, whose header write fails after the keys
\* of K were done: the allocator and checkpoint_dirty_ are not told of K.
\* The failed write leaves the old header, a torn one, or the new one.
CommitFails(K, f) ==
  /\ opened
  /\ f \notin K
  /\ \A k \in K \cup {f} : Committable(k)
  /\ \/ header' = HeaderWritten(K)
     \/ header' = [HeaderWritten(K) EXCEPT ![index[f].slot] = NoHeader]
     \/ header' = HeaderWritten(K \cup {f})
  /\ index' = IndexCommitted(K)
  /\ SetResidency(SlotsOf(K))
  /\ UNCHANGED <<allocVars, opened, pins, checkpoint_seq, checkpoint_dirty,
                 payload, containers>>

\* abort() of one reserved key; keys that are committed or absent are ignored.
Abort(k) ==
  /\ opened
  /\ index[k].state = "reserved"
  /\ index' = [index EXCEPT ![k] = Absent]
  /\ AllocAbort(index[k].slot)
  /\ UNCHANGED <<opened, pins, checkpoint_seq, checkpoint_dirty, mediaVars>>

-----------------------------------------------------------------------------
\* release, pins, reclamation, checkpoint.

\* Mutant of Release: the pin count is not consulted.
ReleasePinned(k) ==
  /\ opened
  /\ Committed(k)
  /\ ClearResidency(index[k].slot)
  /\ index' = [index EXCEPT ![k] = Absent]
  /\ AllocRelease(index[k].slot)
  /\ checkpoint_dirty' = TRUE
  /\ UNCHANGED <<opened, pins, checkpoint_seq, header, payload, containers>>

\* release() of one committed key that is not pinned.
Release(k) ==
  /\ opened
  /\ Committed(k)
  /\ pins[k] = 0
  /\ ClearResidency(index[k].slot)
  /\ index' = [index EXCEPT ![k] = Absent]
  /\ AllocRelease(index[k].slot)
  /\ checkpoint_dirty' = TRUE
  /\ UNCHANGED <<opened, pins, checkpoint_seq, header, payload, containers>>

SetPins(k, n) ==
  /\ opened
  /\ pins' = [pins EXCEPT ![k] = n]
  /\ UNCHANGED <<allocVars, opened, index, checkpoint_seq, checkpoint_dirty,
                 mediaVars>>

Pin(k) == pins[k] < MaxPins /\ SetPins(k, pins[k] + 1)

\* Mutant of Unpin: the count of a key that is not pinned wraps around.
UnpinWraps(k) == SetPins(k, IF pins[k] = 0 THEN MaxPins + 1 ELSE pins[k] - 1)

Unpin(k) == pins[k] > 0 /\ SetPins(k, pins[k] - 1)

\* Mutant of DrainReclaim: a slot goes back to the free list unscrubbed.
DrainReclaimUnscrubbed ==
  /\ opened
  /\ reclaim_queue # << >>
  /\ LET slot == Head(reclaim_queue)
     IN /\ generations[slot] < MaxGeneration
        /\ generations' = [generations EXCEPT ![slot] = @ + 1]
        /\ states' = [states EXCEPT ![slot] = "free"]
        /\ free_list' = Append(free_list, slot)
  /\ reclaim_queue' = Tail(reclaim_queue)
  /\ UNCHANGED <<reclaim_in_flight, high_water, ready_limit, memVars,
                 mediaVars>>

\* drain_reclaim() of the oldest slot: take_reclaimable(), zero_file_range()
\* over header and payload, finish_reclaim().
DrainReclaim ==
  /\ opened
  /\ reclaim_queue # << >>
  /\ LET slot == Head(reclaim_queue)
     IN /\ generations[slot] < MaxGeneration
        /\ header' = [header EXCEPT ![slot] = NoHeader]
        /\ payload' = [payload EXCEPT ![slot] = NoKey]
        /\ generations' = [generations EXCEPT ![slot] = @ + 1]
        /\ states' = [states EXCEPT ![slot] = "free"]
        /\ free_list' = Append(free_list, slot)
  /\ reclaim_queue' = Tail(reclaim_queue)
  /\ UNCHANGED <<reclaim_in_flight, high_water, ready_limit, memVars,
                 containers, residency>>

\* drain_reclaim() whose zero_file_range() fails, before or after the header
\* (the first block of the range) is zeroed: requeue_reclaim().
DrainReclaimFails ==
  /\ opened
  /\ reclaim_queue # << >>
  /\ LET slot == Head(reclaim_queue)
     IN /\ reclaim_queue' = Append(Tail(reclaim_queue), slot)
        /\ \/ UNCHANGED <<header, payload>>
           \/ /\ header' = [header EXCEPT ![slot] = NoHeader]
              /\ \/ UNCHANGED payload
                 \/ payload' = [payload EXCEPT ![slot] = NoKey]
  /\ UNCHANGED <<states, generations, free_list, reclaim_in_flight,
                 high_water, ready_limit, memVars, containers, residency>>

Checkpoint ==
  /\ opened
  /\ \E lost \in FaultSets(Containers) :
       LET seqs == Sequences(lost)
       IN /\ WriteContainer(seqs, CheckpointImage(seqs))
          /\ checkpoint_seq' = NextSeq(seqs)
  /\ checkpoint_dirty' = FALSE
  /\ UNCHANGED <<allocVars, opened, index, pins, header, payload, residency>>

CheckpointFails ==
  /\ opened
  /\ \E lost \in FaultSets(Containers) :
       LET seqs == Sequences(lost)
       IN \E found \in FailedWrites(seqs) : WriteContainer(seqs, found)
  /\ UNCHANGED <<allocVars, memVars, header, payload, residency>>

Next ==
  \/ Open
  \/ Close
  \/ Crash
  \/ \E k \in Keys : Reserve(k)
  \/ \E k \in Keys : WritePayload(k)
  \/ \E K \in SUBSET Keys \ {{}} : Commit(K)
  \/ \E K \in SUBSET Keys, f \in Keys : CommitFails(K, f)
  \/ \E k \in Keys : Abort(k)
  \/ \E k \in Keys : Release(k)
  \/ \E k \in Keys : Pin(k)
  \/ \E k \in Keys : Unpin(k)
  \/ DrainReclaim
  \/ DrainReclaimFails
  \/ Checkpoint
  \/ CheckpointFails

Spec == Init /\ [][Next]_vars

-----------------------------------------------------------------------------
\* Properties.

\* The fields of ObjectStoreCore, the media and the allocator have their types.
TypeOK ==
  /\ AllocTypeOK
  /\ opened \in BOOLEAN
  /\ index \in [Keys -> Entry]
  /\ pins \in [Keys -> 0 .. MaxPins]
  /\ checkpoint_seq \in 0 .. MaxCheckpointSeq
  /\ checkpoint_dirty \in BOOLEAN
  /\ header \in [Slots -> Header]
  /\ payload \in [Slots -> Keys \cup {NoKey}]
  /\ containers \in [Containers -> Container]
  /\ residency \subseteq Slots

\* A key that lookup() finds is served its own, whole payload: whatever the
\* order of writes, failed commits, releases, reclaims, torn checkpoints,
\* crashes and restarts, the slot the index names holds that payload
\* (commit's "a valid header implies durable data", load_checkpoint_locked's
\* "accepting an invalid one corrupts results").
ServesOwnPayload ==
  \A k \in Keys : Committed(k) => payload[index[k].slot] = k

\* Two keys never share a slot, and a slot that belongs to a key can neither
\* be handed out again nor be zeroed by the reclaimer: the index and the
\* allocator, updated by separate calls and rebuilt separately at recovery,
\* stay compatible.
LiveSlotsAreExclusive ==
  /\ \A j, k \in Keys :
       Live(j) /\ Live(k) /\ index[j].slot = index[k].slot => j = k
  /\ \A k \in Keys :
       Live(k) => states[index[k].slot] \in {"reserved", "committed"}

\* Without an instance there is no index and the allocator is fresh.
ClosedIsFresh ==
  ~opened => AllocInit /\ \A k \in Keys : index[k] = Absent

\* The two containers never carry the same sequence, an unusable one offers
\* nothing, and a container names each key once.
ContainersOrdered ==
  /\ containers[0].seq = containers[1].seq => containers[0].seq = 0
  /\ \A c \in Containers :
       /\ containers[c].seq = 0 => containers[c].entries = {}
       /\ \A e, f \in containers[c].entries : e.key = f.key => e = f

\* A live key other than e.key, or a later reserve(), must not get the slot
\* of an entry that the next recovery would accept.
Protected(e) ==
  \/ Live(e.key) /\ index[e.key].slot = e.slot
  \/ /\ states[e.slot] # "free"
     /\ \A k \in Keys : Live(k) => index[k].slot # e.slot

\* Every entry the next recovery would accept tells the truth about its
\* payload, and while the store is open its slot is protected.
NewestIsTrue ==
  \A e \in containers[SelectContainer(Sequences({}))].entries :
    HeaderMatches(e) =>
      /\ payload[e.slot] = e.key
      /\ opened => Protected(e)

\* The inductive invariant behind ServesOwnPayload: what commit, reserve,
\* reclaim, checkpoint and recovery must each preserve so that a restart at
\* any point serves only whole payloads.
StoreInv ==
  /\ TypeOK
  /\ SlotsPartitioned
  /\ LiveSlotsAreExclusive
  /\ ServesOwnPayload
  /\ ClosedIsFresh
  /\ ContainersOrdered
  /\ NewestIsTrue

\* While a process runs, an object that is pinned stays where it is with its
\* payload untouched: no release, reclaim, abort or other client's write
\* moves or overwrites it (release() skips pinned keys).
PinnedObjectsStay ==
  [][opened' =>
       \A k \in Keys : Committed(k) /\ pins[k] > 0 =>
         /\ index'[k] = index[k]
         /\ payload'[index[k].slot] = payload[index[k].slot]]_vars

\* The bitmap peers read claims no slot that holds no committed object of
\* this rank (load_checkpoint_locked: "it never claims an object that
\* recovery rejected").
ResidencyNeverOverReports ==
  opened => residency \subseteq SlotsOf({k \in Keys : Committed(k)})

\* What lookup() finds, and what the next open() would find, as a durable
\* cache.
RecoverableCopies == Verified({}, {})

Cache == INSTANCE DurableCache
           WITH up <- opened, live <- CommittedEntries,
                recoverable <- RecoverableCopies,
                Copies <- [key : Keys, slot : Slots,
                           generation : 0 .. MaxGeneration]

\* The store implements the durable cache: a checkpoint saves every live copy
\* at once, a live copy that is saved survives every later crash, torn
\* checkpoint or header write, and open() brings back exactly the saved ones.
DurableCacheSpec == Cache!Spec

\* An index that close() need not checkpoint is one a restart restores in
\* full (close: without the flush "a clean restart would report every object
\* committed since the last checkpoint as absent").
CleanIndexIsSaved ==
  opened /\ ~checkpoint_dirty => CommittedEntries \subseteq RecoverableCopies
=============================================================================
