---------------------------- MODULE ResidencySync ----------------------------
(***************************************************************************)
(* How the scheduler's index of resident chunks and the indexes of the     *)
(* tensor-parallel workers follow each other (vLLM connector, scheduler    *)
(* metadata index, worker and engine).  Every step the scheduler looks up  *)
(* hits, reserves room for the chunks to save and names victims            *)
(* (build_connector_meta); each rank pins what it loads, executes the      *)
(* evictions, plans and writes its own batch (start_load_kv), settles it   *)
(* once all ranks agree that the loads succeeded (wait_for_save), and      *)
(* reports; the aggregated report moves the scheduler's index              *)
(* (update_connector_output).  One step is in flight at a time.            *)
(*                                                                         *)
(* A key loaded or saved in a step is a chunk of some request scheduled in *)
(* it: one request loads within the step, one asynchronously, and the save *)
(* spans of all requests are one batch.  A failed write raises out of      *)
(* wait_for_save and ends the engine, so it has no action here.            *)
(***************************************************************************)
EXTENDS ChunkIndex

CONSTANTS
  Ranks,        \* tensor-parallel ranks
  MaxLoads,     \* bound on the chunks one request loads
  MaxSaves,     \* bound on the chunks saved in a step
  SchedulerAge, \* _PENDING_MAX_AGE_STEPS
  WorkerAge     \* _WORKER_PENDING_MAX_AGE_STEPS

ASSUME SyncAssumption ==
  /\ Capacity \in Nat \ {0}
  /\ IsFiniteSet(Keys) /\ IsFiniteSet(Ranks) /\ Ranks # {}
  /\ {MaxLoads, MaxSaves, SchedulerAge, WorkerAge} \subseteq Nat \ {0}

VARIABLES
  sched,    \* the scheduler's index
  counts,   \* _rank_commit_counts
  step,     \* the metadata of the step: loads, async loads, saves, victims
  stage,    \* rank -> where it is in the step
  work,     \* rank -> its index
  disk,     \* rank -> keys whose object its store has committed
  pins,     \* rank -> keys pinned by the step's load and by the async load
  lfail,    \* rank -> _load_failed
  save,     \* rank -> _save_keys
  report    \* rank -> the increment its worker metadata carries

vars == <<sched, counts, step, stage, work, disk, pins, lfail, save, report>>
rankVars == <<work, disk, pins, lfail, save, report>>

NoStep == [loads |-> <<>>, async |-> <<>>, saves |-> <<>>, evicted |-> <<>>]
NoReport == [committed |-> {}, failed |-> {}, forgotten |-> {}]

Init ==
  /\ sched = EmptyIndex
  /\ counts = [k \in Keys |-> 0]
  /\ step = NoStep
  /\ stage = [r \in Ranks |-> "idle"]
  /\ work = [r \in Ranks |-> EmptyIndex]
  /\ disk = [r \in Ranks |-> {}]
  /\ pins = [r \in Ranks |-> [sync |-> {}, async |-> {}]]
  /\ lfail = [r \in Ranks |-> FALSE]
  /\ save = [r \in Ranks |-> <<>>]
  /\ report = [r \in Ranks |-> NoReport]

Batches(K, n) == {s \in SeqOf(K, n) : IsInjective(s)}
Pinned(p) == p.sync \cup p.async

(* ---- scheduler: lookups, then build_connector_meta ---- *)

\* The step carries a save span only if the plan was accepted and has a key
\* that is not resident; its victims go to the workers.
BuildConnectorMeta ==
  /\ \A r \in Ranks : stage[r] = "idle"
  /\ \E L \in Batches(Resident(sched), MaxLoads), S \in Batches(Keys, MaxSaves),
        A \in Batches(Resident(sched), MaxLoads) :
       /\ A # <<>> => \A r \in Ranks : pins[r].async = {}
       /\ \E i \in {BeginStep(LookupPrefix(LookupPrefix(sched, L), A),
                              SchedulerAge)} :
            /\ IF CanPlan(i, S, {}) /\ NewKeys(i, S) # <<>>
               THEN /\ sched' = PlanStore(i, S, {})
                    /\ step' = [loads |-> L, async |-> A, saves |-> S,
                                evicted |-> Victims(i, S, {})]
               ELSE /\ sched' = i
                    /\ step' = [NoStep EXCEPT !.loads = L, !.async = A]
            /\ counts' = [k \in Keys |->
                 IF k \in Pending(sched) \ Pending(i) THEN 0 ELSE counts[k]]
  /\ stage' = [r \in Ranks |-> "metadata"]
  /\ UNCHANGED rankVars

(* ---- worker: start_load_kv ---- *)

\* pin() takes a request's chunks all or none; what is missing is reported.
Missing(r, ks) == ToSet(ks) \ Resident(work[r])

\* apply_evictions: the scheduler's victims, as far as this rank holds them
\* and nothing reads them.
DroppableAll(i, pinned) == ToSet(step.evicted) \cap Resident(i)
Droppable(i, pinned) ==
  {k \in ToSet(step.evicted) : k \in Resident(i) /\ k \notin pinned}

\* _prepare_write_batch: execute the evictions, plan this rank's own write
\* batch and keep what the object pool admits, a prefix of it.
PrepareWriteBatch(r, i, pinned) ==
  \E gone \in {Droppable(i, pinned)} :
  \E j \in {Forget(i, gone, pinned)} :
    IF CanPlan(j, step.saves, pinned)
    THEN /\ work' = [work EXCEPT ![r] = PlanStore(j, step.saves, pinned)]
         /\ disk' = [disk EXCEPT ![r] =
                       @ \ (gone \cup ToSet(Victims(j, step.saves, pinned)))]
         /\ \E n \in 0..Len(NewKeys(j, step.saves)) :
              save' = [save EXCEPT ![r] = SubSeq(NewKeys(j, step.saves), 1, n)]
    ELSE /\ work' = [work EXCEPT ![r] = j]
         /\ disk' = [disk EXCEPT ![r] = @ \ gone]
         /\ IF ToSet(step.saves) \subseteq Pending(j)   \* store_plan_pending
            THEN \E n \in 0..Len(step.saves) :
                   save' = [save EXCEPT ![r] = SubSeq(step.saves, 1, n)]
            ELSE save' = [save EXCEPT ![r] = <<>>]

StartLoadKv(r) ==
  /\ stage[r] = "metadata"
  /\ stage' = [stage EXCEPT ![r] = "started"]
  /\ LET missing == Missing(r, step.loads)
         absent  == Missing(r, step.async)
         i == BeginStep(work[r], WorkerAge)
         p == [sync  |-> IF missing = {} THEN ToSet(step.loads) ELSE {},
               async |-> pins[r].async \cup
                         IF absent = {} THEN ToSet(step.async) ELSE {}]
     IN /\ pins' = [pins EXCEPT ![r] = p]
        /\ lfail' = [lfail EXCEPT ![r] = missing # {}]
        /\ report' = [report EXCEPT ![r].forgotten = missing \cup absent]
        /\ IF missing = {}
           THEN PrepareWriteBatch(r, i, Pinned(p))
           ELSE /\ work' = [work EXCEPT ![r] = i]
                /\ UNCHANGED <<disk, save>>
  /\ UNCHANGED <<sched, counts, step>>

\* A read of the step's load fails before the ranks compare notes.
LoadFails(r) ==
  /\ stage[r] = "started"
  /\ \A q \in Ranks : stage[q] # "reported"
  /\ pins[r].sync # {}
  /\ lfail' = [lfail EXCEPT ![r] = TRUE]
  /\ UNCHANGED <<sched, counts, step, stage, work, disk, pins, save, report>>

(* ---- worker: wait_for_save, then build_connector_worker_meta ---- *)

\* _settle_unreported_plans: every chunk of the save span this rank did not
\* commit in this step counts as failed.
UnreportedOfBatch(r, committed) == ToSet(save[r]) \ committed
Unreported(r, committed) == ToSet(step.saves) \ committed

\* The collective makes every rank wait for all; one failed load rolls back
\* the writes of all.  Objects that were whole by then stay in the store.
WaitForSave(r) ==
  /\ stage[r] = "started"
  /\ \A q \in Ranks : stage[q] \in {"started", "reported"}
  /\ stage' = [stage EXCEPT ![r] = "reported"]
  /\ \E ok \in {\A q \in Ranks : ~lfail[q]} :
       /\ work' = [work EXCEPT ![r] = ConfirmStore(@, save[r], ok)]
       /\ IF ok THEN disk' = [disk EXCEPT ![r] = @ \cup ToSet(save[r])]
          ELSE \E W \in SUBSET ToSet(save[r]) :
                 disk' = [disk EXCEPT ![r] = @ \cup W]
       /\ LET done == IF ok THEN ToSet(save[r]) ELSE {}
          IN report' = [report EXCEPT ![r].committed = done,
                                      ![r].failed = Unreported(r, done)]
  /\ pins' = [pins EXCEPT ![r].sync = {}]
  /\ save' = [save EXCEPT ![r] = <<>>]
  /\ UNCHANGED <<sched, counts, step, lfail>>

\* _poll_async_loads, between two steps of the rank: the asynchronous load
\* has ended, well or not, and its chunks are unpinned.
AsyncLoadEnds(r) ==
  /\ stage[r] # "started"
  /\ pins[r].async # {}
  /\ pins' = [pins EXCEPT ![r].async = {}]
  /\ UNCHANGED <<sched, counts, step, stage, work, disk, lfail, save, report>>

(* ---- scheduler: update_connector_output ---- *)

Aggregate(field) == UNION {report[r][field] : r \in Ranks}
RanksCommitted(k) == Cardinality({r \in Ranks : k \in report[r].committed})

\* A chunk is published when the ranks that committed it, in this and in
\* earlier steps, are all of them, and none failed it.
Total(k) ==
  RanksCommitted(k) + IF k \in Aggregate("forgotten") THEN 0 ELSE counts[k]

PublishedByAnyRank(k) == k \in Aggregate("committed")
Published(k) ==
  /\ k \in Aggregate("committed") \ Aggregate("failed")
  /\ Total(k) >= Cardinality(Ranks)

ForgetNothing(i) == i
ForgetReported(i) == Forget(i, Aggregate("forgotten"), {})

UpdateConnectorOutput ==
  /\ \A r \in Ranks : stage[r] = "reported"
  /\ \E i \in {ConfirmStore(ForgetReported(sched),
                 SetToSeq(Aggregate("failed") \cap Pending(sched)), FALSE)} :
       \E ks \in SetToSeqs({k \in Keys : Published(k)}) :
         sched' = ConfirmStore(i, ks, TRUE)
  /\ counts' = [k \in Keys |->
       IF k \in Aggregate("failed") \/ Published(k) THEN 0 ELSE Total(k)]
  /\ stage' = [r \in Ranks |-> "idle"]
  /\ report' = [r \in Ranks |-> NoReport]
  /\ lfail' = [r \in Ranks |-> FALSE]
  /\ UNCHANGED <<step, work, disk, pins, save>>

Next ==
  \/ BuildConnectorMeta
  \/ \E r \in Ranks : \/ StartLoadKv(r)
                      \/ LoadFails(r)
                      \/ WaitForSave(r)
                      \/ AsyncLoadEnds(r)
  \/ UpdateConnectorOutput

Spec == Init /\ [][Next]_vars

-----------------------------------------------------------------------------

\* The types of the variables; no reservation outlives its age limit
\* (begin_step).
SyncTypeOK ==
  /\ sched \in IndexType(SchedulerAge)
  /\ counts \in [Keys -> 0..Cardinality(Ranks)]
  /\ DOMAIN step = {"loads", "async", "saves", "evicted"}
  /\ \A f \in DOMAIN step : ToSet(step[f]) \subseteq Keys
  /\ stage \in [Ranks -> {"idle", "metadata", "started", "reported"}]
  /\ work \in [Ranks -> IndexType(WorkerAge)]
  /\ disk \in [Ranks -> SUBSET Keys]
  /\ pins \in [Ranks -> [sync : SUBSET Keys, async : SUBSET Keys]]
  /\ lfail \in [Ranks -> BOOLEAN]
  /\ \A r \in Ranks : IsInjective(save[r]) /\ ToSet(save[r]) \subseteq Keys
  /\ report \in [Ranks -> [committed : SUBSET Keys, failed : SUBSET Keys,
                           forgotten : SUBSET Keys]]

Idle == \A r \in Ranks : stage[r] = "idle"
HeldByAll(k) == \A r \in Ranks : k \in Resident(work[r])

\* A rank's index calls resident only what its store holds, and what a load
\* has pinned stays resident until the load ends: neither the scheduler's
\* victims nor the rank's own evictions take a chunk away under a read
\* (apply_evictions and plan_store both skip pinned keys).
ReadsAreProtected ==
  \A r \in Ranks : Pinned(pins[r]) \subseteq Resident(work[r])
                  /\ Resident(work[r]) \subseteq disk[r]

\* Neither index ever promises more chunks than the store has room for,
\* counting the reservations that are not settled yet, however plans,
\* evictions, roll-backs and expired reservations follow each other.
CapacityHolds ==
  \A i \in {sched} \cup {work[r] : r \in Ranks} :
    /\ IsInjective(i.res) /\ Resident(i) \cap Pending(i) = {}
    /\ Len(i.res) + Cardinality(Pending(i)) <= Capacity

\* Every reservation of the scheduler is settled by the reports of the step
\* that made it, also when a rank's pool admits nothing, a rank's plan is
\* refused or a load fails: nothing is left for begin_step to reclaim, and
\* no half count is left for a later step to complete.
ReservationsSettleInStep ==
  Idle => Pending(sched) = {} /\ \A k \in Keys : counts[k] = 0

\* The scheduler starts to answer hits for a chunk only when every rank holds
\* it, in its index and in its store (apply_worker_commits, "only when all
\* TP ranks report success").
PublishedIsHeldByAll ==
  [][\A k \in Resident(sched') \ Resident(sched) :
       \A r \in Ranks : k \in Resident(work[r]) /\ k \in disk[r]]_vars

\* A hit that a rank could not serve is not answered again: once its report
\* is in, the scheduler has dropped the chunk, or all ranks hold it by now
\* (the forgotten channel of the worker metadata).
GhostHitsHeal ==
  [][\A k \in Aggregate("forgotten") :
       Idle' /\ k \in Resident(sched') => HeldByAll(k)]_vars

\* A chunk of the step's save span that every rank holds once the step is
\* over is a hit from then on: publishing from the reports is "the same
\* gate" as finding the layer markers of all ranks on disk.
HeldByAllIsPublished ==
  Idle => \A k \in ToSet(step.saves) : HeldByAll(k) => k \in Resident(sched)

\* A rank that has started its step no longer holds a victim the scheduler
\* named in it, unless a load reads it: the workers execute the scheduler's
\* evictions and the indexes "converge by construction".
VictimsLeaveAllRanks ==
  \A r \in Ranks, k \in ToSet(step.evicted) :
    stage[r] = "started" /\ k \in Resident(work[r]) => k \in Pinned(pins[r])
=============================================================================
