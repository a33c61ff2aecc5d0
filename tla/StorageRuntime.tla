--------------------------- MODULE StorageRuntime ---------------------------
(***************************************************************************)
(* The storage runtime: registries of memory, targets and operations, the  *)
(* in-flight credits that keep memory and targets alive, and the threads   *)
(* that drive completion.                                                  *)
(*                                                                         *)
(* Everything a call does under registry_mutex_ is one action.  wait(),    *)
(* query() and shutdown() drop the lock while they run                     *)
(* DataPath::progress(), and open_batch() runs without it between its      *)
(* state check and the publication of the target, so these calls take      *)
(* several steps of a thread and other calls happen in between.            *)
(***************************************************************************)
EXTENDS DataPath, Sequences, FiniteSetsExt, SequencesExt

CONSTANTS
  NMemories, NTargets, NPaths,
  AsyncPaths,    \* the DataPaths that implement AsyncCompletion
  Threads,
  MaxIo,         \* bound on the operations ever submitted
  MaxOpens,      \* bound on the targets ever opened on one DataPath
  MaxBatch,      \* bound on the requests of one submit()
  MaxTerminal,   \* max_terminal_results
  Faults         \* which of the failures below the environment produces

Targets == 1..NTargets
Paths == 1..NPaths
Slots == 1..MaxIo

\* reject: a DataPath turns single requests away.  guard: the device guard
\* cannot restore the caller's device after submit().  progress: progress()
\* fails.  observe: query() or the release of an ended operation fails.
\* query: a DataPath cannot find out how an operation ended.  timeout: the
\* device does not answer a command in time.
FaultKinds == {"reject", "guard", "progress", "observe", "query", "timeout"}

\* An asynchronous DataPath gives up on no operation: an event it cannot
\* query fails progress(), and a batch that timed out ends only when all its
\* commands are through.
LosesOps(p) == "query" \in Faults /\ p \notin AsyncPaths
TimesOut(p) == "timeout" \in Faults /\ p \notin AsyncPaths

ASSUME RuntimeAssumption ==
  /\ Memories = 1..NMemories
  /\ OpNames = 1..MaxIo
  /\ AsyncPaths \subseteq Paths
  /\ Faults \subseteq FaultKinds

VARIABLES
  state,     \* RuntimeState
  memory,    \* memory_entries_
  target,    \* target_entries_
  io,        \* io_entries_
  io_gen,    \* io_gen_counter_
  handles,   \* the slot of the IoHandle returned for each generation, 0: none
  terminal_count,  \* terminal_result_count_
  retained,  \* released_results_ in the order of released_result_order_
  dp,        \* the DataPaths
  thread     \* calls that have dropped the registry lock

vars == <<state, memory, target, io, io_gen, handles, terminal_count,
          retained, dp, thread>>

NoIo == [active |-> FALSE, gen |-> 0, terminal |-> FALSE, result |-> "none",
         obs |-> FALSE, ops |-> {}, released |-> {},
         mrefs |-> [m \in Memories |-> 0], trefs |-> [t \in Targets |-> 0]]
Idle == [task |-> "none", pc |-> "idle", gen |-> 0, gates |-> {},
         errs |-> {}, path |-> 1, token |-> 0]

Init ==
  /\ state = "RUNNING"
  /\ memory = [m \in Memories |->
                 [active |-> FALSE, inflight |-> 0, regs |-> <<>>]]
  /\ target = [t \in Targets |->
                 [active |-> FALSE, inflight |-> 0, path |-> 1, token |-> 0]]
  /\ io = [s \in Slots |-> NoIo]
  /\ io_gen = 0
  /\ handles = [g \in Slots |-> 0]
  /\ terminal_count = 0
  /\ retained = <<>>
  /\ dp = [p \in Paths |-> Initialized]
  /\ thread = [th \in Threads |-> Idle]

MinusKeepsOne(a, b) == IF a > b THEN a - b ELSE a
MinusClamped(a, b) == IF a > b THEN a - b ELSE 0
InFlightIo(ios) == {s \in Slots : ios[s].active /\ ~ios[s].terminal}
FreeSlots(entries) == {i \in DOMAIN entries : ~entries[i].active}

-----------------------------------------------------------------------------
(* Memory *)

AddMemory(m) ==
  /\ state = "RUNNING"
  /\ FreeSlots(memory) # {} /\ m = Min(FreeSlots(memory))
  /\ memory' = [memory EXCEPT ![m] =
                  [active |-> TRUE, inflight |-> 0, regs |-> <<>>]]
  /\ UNCHANGED <<state, target, io, io_gen, handles, terminal_count, retained,
                 dp, thread>>

\* Registrations go last to first and stop at the first refusal: what was
\* undone before it stays undone, the list is only cleared when all succeed.
Undone(m, d) ==
  LET regs == memory[m].regs
  IN {i \in DOMAIN regs : \A j \in i..Len(regs) :
        CanUnregister(d[regs[j].path], regs[j].token)}
Unregistered(M, d) ==
  [p \in Paths |-> Unregister(d[p],
     UNION {{memory[m].regs[i].token : i \in
               {j \in Undone(m, d) : memory[m].regs[j].path = p}} : m \in M})]


DropMemory(m) ==
  /\ state # "STOPPED"
  /\ memory[m].active /\ memory[m].inflight = 0
  /\ dp' = Unregistered({m}, dp)
  /\ memory' = IF Undone(m, dp) = DOMAIN memory[m].regs
               THEN [memory EXCEPT ![m].active = FALSE, ![m].regs = <<>>]
               ELSE memory
  /\ UNCHANGED <<state, target, io, io_gen, handles, terminal_count, retained,
                 thread>>

-----------------------------------------------------------------------------
(* Targets *)

\* The lowest inactive slot; the vector of the code grows, here NTargets
\* bounds it, the targets about to be published included.
FreeTarget(t) == FreeSlots(target) # {} /\ t = Min(FreeSlots(target))
HasTargetRoom ==
  Cardinality({th \in Threads : thread[th].pc = "publish"})
    < Cardinality(FreeSlots(target))

Published(t, p, token) ==
  [target EXCEPT ![t] = [active |-> TRUE, inflight |-> 0, path |-> p,
                         token |-> token]]

\* open(): resolution and publication under one hold of the lock.
OpenTarget(t, p) ==
  /\ state = "RUNNING"
  /\ FreeTarget(t) /\ HasTargetRoom
  /\ CanOpen(dp[p]) /\ dp[p].opens < MaxOpens
  /\ dp' = [dp EXCEPT ![p] = Open(@)]
  /\ target' = Published(t, p, dp[p].opens + 1)
  /\ UNCHANGED <<state, memory, io, io_gen, handles, terminal_count, retained,
                 thread>>

\* open_batch(): the state is checked once, before the lock is dropped.
OpenBatchCheck(th) ==
  /\ state = "RUNNING"
  /\ thread[th].pc = "idle"
  /\ thread' = [thread EXCEPT ![th] = [Idle EXCEPT !.task = "open_batch",
                                                   !.pc = "open"]]
  /\ UNCHANGED <<state, memory, target, io, io_gen, handles, terminal_count,
                 retained, dp>>

OpenBatchOpen(th, p) ==
  /\ thread[th].pc = "open"
  /\ IF CanOpen(dp[p]) /\ dp[p].opens < MaxOpens /\ HasTargetRoom
     THEN /\ dp' = [dp EXCEPT ![p] = Open(@)]
          /\ thread' = [thread EXCEPT ![th].pc = "publish", ![th].path = p,
                                      ![th].token = dp[p].opens + 1]
     ELSE /\ thread' = [thread EXCEPT ![th] = Idle]
          /\ UNCHANGED dp
  /\ UNCHANGED <<state, memory, target, io, io_gen, handles, terminal_count,
                 retained>>

OpenBatchPublish(th, t) ==
  /\ thread[th].pc = "publish"
  /\ FreeTarget(t)
  /\ target' = Published(t, thread[th].path, thread[th].token)
  /\ thread' = [thread EXCEPT ![th] = Idle]
  /\ UNCHANGED <<state, memory, io, io_gen, handles, terminal_count, retained,
                 dp>>

Closable(t) == CanClose(dp[target[t].path], target[t].token)
\* d after the targets of T have been closed on their DataPaths.
Closed(T, d) ==
  [p \in Paths |->
     Close(d[p], {target[t].token : t \in {u \in T : target[u].path = p}})]

CloseTarget(t) ==
  /\ state # "STOPPED"
  /\ target[t].active /\ target[t].inflight = 0 /\ Closable(t)
  /\ dp' = Closed({t}, dp)
  /\ target' = [target EXCEPT ![t].active = FALSE]
  /\ UNCHANGED <<state, memory, io, io_gen, handles, terminal_count, retained,
                 thread>>

-----------------------------------------------------------------------------
(* submit() *)

\* A batch is a sequence of requests that passed validation; a request that
\* did not changes nothing.
Batches == UNION {[1..n -> [mem : Memories, tgt : Targets]] : n \in 1..MaxBatch}

MRefs(batch, I) ==
  [m \in Memories |-> Cardinality({i \in I : batch[i].mem = m})]
TRefs(batch, I) ==
  [t \in Targets |-> Cardinality({i \in I : batch[i].tgt = t})]

\* One request's memory as registered on its DataPath: the cached
\* registration, or the one this submit creates.
RegOn(m, p) ==
  LET R == {i \in DOMAIN memory[m].regs : memory[m].regs[i].path = p}
  IN IF R = {} THEN NextReg(dp[p], m) ELSE memory[m].regs[Min(R)].token
Missing(m, P) ==
  {p \in P : \A i \in DOMAIN memory[m].regs : memory[m].regs[i].path # p}

\* acc: the requests the DataPaths accept; gfail: the DataPaths after whose
\* submit() the guard could not restore the caller's device.
Submit_(batch, acc, gfail) ==
  LET s == Min(FreeSlots(io))
      g == io_gen + 1
      I == DOMAIN batch
      PathAt(i) == target[batch[i].tgt].path
      Group(p) == {i \in I : PathAt(i) = p}
      P == {PathAt(i) : i \in I}
      M(p) == {batch[i].mem : i \in Group(p)}
      New(p) == {m \in M(p) : p \in Missing(m, P)}
      Known(i) == /\ target[batch[i].tgt].token \in dp[PathAt(i)].open
                  /\ \/ RegOn(batch[i].mem, PathAt(i)) \in dp[PathAt(i)].reg
                     \/ batch[i].mem \in New(PathAt(i))
      withOp == {p \in P : acc \cap Group(p) # {}}
      kept == withOp \ (gfail \ AsyncPaths)
      rejected == {i \in I : IF PathAt(i) \in gfail THEN PathAt(i) \notin kept
                                                   ELSE i \notin acc}
      Credits(old, granted, back) ==
        LET now == MinusClamped(old + granted, back)
        IN IF kept = {} THEN MinusClamped(now, granted) ELSE now
  IN
  /\ state = "RUNNING" /\ terminal_count < MaxTerminal
  /\ io_gen < MaxIo
  /\ \A i \in I : memory[batch[i].mem].active /\ target[batch[i].tgt].active
  /\ gfail \subseteq withOp
  /\ \A i \in acc : HasQuota(dp[PathAt(i)]) /\ Known(i)
  /\ "reject" \notin Faults =>
       \A i \in I : HasQuota(dp[PathAt(i)]) /\ Known(i) => i \in acc
  /\ io_gen' = g
  /\ dp' = [p \in Paths |->
       LET d == Register(dp[p], New(p)) IN
       IF p \notin withOp THEN d
       ELSE Submit(d, g, {target[batch[i].tgt].token : i \in acc \cap Group(p)},
                         {RegOn(batch[i].mem, p) : i \in acc \cap Group(p)})]
  /\ memory' = [m \in Memories |->
       [memory[m] EXCEPT
          !.inflight = Credits(@, MRefs(batch, I)[m], MRefs(batch, rejected)[m]),
          !.regs = @ \o LET ps == SetToSortSeq({p \in P : m \in New(p)}, <)
                        IN [k \in DOMAIN ps |->
                              [path |-> ps[k], token |-> NextReg(dp[ps[k]], m)]]]]
  /\ target' = [t \in Targets |->
       [target[t] EXCEPT
          !.inflight = Credits(@, TRefs(batch, I)[t], TRefs(batch, rejected)[t])]]
  /\ io' = IF kept = {} THEN io
           ELSE [io EXCEPT ![s] =
                   [active |-> TRUE, gen |-> g, terminal |-> FALSE,
                    result |-> "none", obs |-> gfail \cap kept # {},
                    ops |-> kept, released |-> {},
                    mrefs |-> MRefs(batch, I), trefs |-> TRefs(batch, I)]]
  /\ handles' = IF kept = {} THEN handles ELSE [handles EXCEPT ![g] = s]
  /\ UNCHANGED <<state, terminal_count, retained, thread>>

SubmitBatch(batch) ==
  \E acc \in SUBSET DOMAIN batch, gfail \in SUBSET Paths :
    /\ "guard" \notin Faults => gfail = {}
    /\ Submit_(batch, acc, gfail)

-----------------------------------------------------------------------------
(* Completion: refresh_component_io_ on every entry *)

StateOf(ios, d, s, p) == d[p].ops[ios[s].gen].st
NoBadOps(ios, d, s) == {}
BadOps(ios, d, s) == {p \in ios[s].ops : StateOf(ios, d, s, p) = "failed"}
NeverAsync(e) == FALSE
IsAsync(e) == e.ops \cap AsyncPaths # {}

\* The end of an operation: the list of its DataPath operations is cleared.
FinishedIo(e, failed) ==
  [e EXCEPT !.terminal = TRUE, !.ops = {}, !.released = {},
            !.result = IF failed THEN "FAILED" ELSE "COMPLETED"]

\* What an asynchronous entry notes as released of the operations a release
\* loop freed before it stopped at those in stuck: release_retired() says so
\* of an operation it retired even when it then returns an error.
NotedIfOk(freed, stuck) == freed \ stuck
Noted(freed, stuck) == freed

\* What one refresh of all entries does to ios, mem, tgt and d, when the
\* queries in qf and the releases in rf fail (pairs of slot and DataPath);
\* the releases in ret retire their operation before they fail.
Refreshed(ios, mem, tgt, d, qf, rf, ret) ==
  LET Pending(s) == ~ios[s].terminal /\ ios[s].ops # {}
      Unseen(s) == {p \in ios[s].ops \ ios[s].released : <<s, p>> \in qf}
      Running(s) == {p \in ios[s].ops \ Unseen(s) :
                       StateOf(ios, d, s, p) \notin Ended}
      Bad(s) == BadOps(ios, d, s) \ Unseen(s)
      failed(s) == ios[s].obs \/ Unseen(s) # {} \/ Bad(s) # {}
      \* past the early return that keeps the operation in flight
      Settles(s) ==
        /\ Pending(s)
        /\ IF IsAsync(ios[s]) THEN Unseen(s) = {} /\ Running(s) = {}
                              ELSE Running(s) = {} \/ failed(s)
      Stuck(s) == IF IsAsync(ios[s])
                  THEN {p \in ios[s].ops \ ios[s].released : <<s, p>> \in rf}
                  ELSE {}
      \* the operations the release loop gets to
      Freed(s) == IF Settles(s)
                  THEN {p \in ios[s].ops : \A q \in Stuck(s) :
                          p < q \/ (p = q /\ <<s, p>> \in ret)}
                  ELSE {}
      Finishes(s) == Settles(s) /\ Stuck(s) = {}
      Done == {s \in Slots : Finishes(s)}
  IN
  [io |-> [s \in Slots |->
     IF Finishes(s)
     THEN FinishedIo(ios[s], failed(s))
     ELSE IF Pending(s) /\ IsAsync(ios[s])
     THEN [ios[s] EXCEPT !.released = @ \cup Noted(Freed(s), Stuck(s)),
             !.obs = @ \/ Unseen(s) # {} \/ (Settles(s) /\ Stuck(s) # {})]
     ELSE ios[s]],
   memory |-> [m \in Memories |-> [mem[m] EXCEPT !.inflight =
     MinusClamped(@, MapThenSumSet(LAMBDA s : ios[s].mrefs[m], Done))]],
   target |-> [t \in Targets |-> [tgt[t] EXCEPT !.inflight =
     MinusClamped(@, MapThenSumSet(LAMBDA s : ios[s].trefs[t], Done))]],
   dp |-> [p \in Paths |-> [d[p] EXCEPT !.ops = [o \in OpNames |->
     IF \E s \in Slots : ios[s].gen = o /\ p \in Freed(s)
     THEN Release(d[p], o).ops[o] ELSE @[o]]]],
   ended |-> Cardinality(Done)]

\* finish_io_ on the operations of a DataPath whose progress() failed; an
\* asynchronous operation only remembers the error.
AfterErrors(ios, errs) ==
  [s \in Slots |->
     IF ios[s].active /\ ~ios[s].terminal /\ ios[s].ops \cap errs # {}
     THEN IF IsAsync(ios[s]) THEN [ios[s] EXCEPT !.obs = TRUE]
          ELSE [ios[s] EXCEPT !.terminal = TRUE, !.result = "FAILED"]
     ELSE ios[s]]

\* The whole tail of drive_progress_unlocked_, under the lock again.
Harvested(errs, qf, rf, ret) ==
  LET ios == AfterErrors(io, errs)
      Hit == {s \in Slots : ios[s].terminal /\ ~io[s].terminal}
      mem == [m \in Memories |-> [memory[m] EXCEPT !.inflight =
                MinusClamped(@, MapThenSumSet(LAMBDA s : io[s].mrefs[m], Hit))]]
      tgt == [t \in Targets |-> [target[t] EXCEPT !.inflight =
                MinusClamped(@, MapThenSumSet(LAMBDA s : io[s].trefs[t], Hit))]]
      R == Refreshed(ios, mem, tgt, dp, qf, rf, ret)
  IN [R EXCEPT !.ended = @ + Cardinality(Hit)]

-----------------------------------------------------------------------------
(* finalize_shutdown_locked_: targets, then memory, then the DataPaths, each *)
(* in order and up to the first failure.                                     *)

Finalized(R) ==
  LET T == {t \in Targets : R.target[t].active}
      badT == {t \in T : ~CanClose(R.dp[R.target[t].path], R.target[t].token)}
      goneT == {t \in T : \A u \in badT : t < u}
      d1 == Closed(goneT, R.dp)
      tgt == [t \in Targets |-> IF t \in goneT
                THEN [R.target[t] EXCEPT !.active = FALSE] ELSE R.target[t]]
      M == {m \in Memories : R.memory[m].active}
      badM == {m \in M : Undone(m, d1) # DOMAIN R.memory[m].regs}
      goneM == {m \in M : \A n \in badM : m < n}
      tried == IF badM = {} THEN goneM ELSE goneM \cup {Min(badM)}
      d2 == Unregistered(tried, d1)
      mem == [m \in Memories |-> IF m \in goneM
                THEN [R.memory[m] EXCEPT !.active = FALSE, !.regs = <<>>]
                ELSE R.memory[m]]
      badP == {p \in Paths : ~CanShutdown(d2[p])}
      d3 == [p \in Paths |-> IF \A q \in badP : p > q THEN Shutdown(d2[p])
                                                    ELSE d2[p]]
  IN IF badT # {} THEN [R EXCEPT !.target = tgt, !.dp = d1]
     ELSE IF badM # {} THEN [R EXCEPT !.target = tgt, !.memory = mem, !.dp = d2]
     ELSE [R EXCEPT !.target = tgt, !.memory = mem, !.dp = d3]
AllStopped(R) == \A p \in Paths : ~R.dp[p].up

-----------------------------------------------------------------------------
(* Threads *)

LiveHandle(ios, g) ==
  /\ state # "STOPPED"
  /\ handles[g] # 0
  /\ ios[handles[g]].active /\ ios[handles[g]].gen = g
Retained(g) == {i \in DOMAIN retained : retained[i].gen = g}

\* The answer wait() has for g, if any: a retained result, or the result of
\* a terminal entry.
AnswersFor(ios, g) ==
  {retained[i] : i \in Retained(g)} \cup
  (IF Retained(g) = {} /\ LiveHandle(ios, g) /\ ios[handles[g]].terminal
   THEN {[gen |-> g, result |-> ios[handles[g]].result]} ELSE {})

WaitStart(th, g) ==
  /\ thread[th].pc = "idle"
  /\ AnswersFor(io, g) = {} /\ LiveHandle(io, g)
  /\ thread' = [thread EXCEPT ![th] = [Idle EXCEPT !.task = "wait",
                                          !.pc = "drive", !.gen = g]]
  /\ UNCHANGED <<state, memory, target, io, io_gen, handles, terminal_count,
                 retained, dp>>

ShutdownStart(th) ==
  /\ thread[th].pc = "idle"
  /\ state # "STOPPED"
  /\ LET now == [target |-> target, memory |-> memory, dp |-> dp] IN
     \E R \in {IF InFlightIo(io) = {} THEN Finalized(now) ELSE now} :
       /\ target' = R.target /\ memory' = R.memory /\ dp' = R.dp
       /\ state' = IF AllStopped(R) THEN "STOPPED" ELSE "DRAINING"
       /\ retained' = IF AllStopped(R) THEN <<>> ELSE retained
  /\ thread' = IF InFlightIo(io) = {} THEN thread
               ELSE [thread EXCEPT ![th] = [Idle EXCEPT !.task = "shutdown",
                                                        !.pc = "drive"]]
  /\ UNCHANGED <<io, io_gen, handles, terminal_count>>

BusyFirst ==
  LET B == UNION {io[s].ops : s \in InFlightIo(io)}
  IN IF B = {} THEN {} ELSE {Min(B)}
Busy == UNION {io[s].ops : s \in InFlightIo(io)}

\* drive_progress_unlocked_: the DataPaths with work are noted, then the
\* lock is dropped.
Collect(th) ==
  /\ thread[th].pc = "drive" /\ Busy # {}
  /\ thread' = [thread EXCEPT ![th].pc = "unlocked", ![th].gates = Busy]
  /\ UNCHANGED <<state, memory, target, io, io_gen, handles, terminal_count,
                 retained, dp>>

\* progress() of one DataPath, under its progress gate; when it fails it may
\* have looked at some operations already.
RunProgress(th, p, err) ==
  /\ thread[th].pc = "unlocked" /\ p \in thread[th].gates
  /\ p = Min(thread[th].gates)
  /\ err => "progress" \in Faults
  /\ \E seen \in IF err THEN SUBSET InFlight(dp[p]) ELSE {InFlight(dp[p])} :
     \E bad \in SUBSET {o \in seen : dp[p].ops[o].dev = "done"},
        lost \in IF LosesOps(p) THEN SUBSET seen ELSE {{}} :
       dp' = [dp EXCEPT ![p] = Progress(@, seen, bad, lost)]
  /\ thread' = [thread EXCEPT ![th].gates = @ \ {p},
                   ![th].errs = IF err THEN @ \cup {p} ELSE @]
  /\ UNCHANGED <<state, memory, target, io, io_gen, handles, terminal_count,
                 retained>>

\* Back under the lock, which a thread that found no work never dropped:
\* refresh, then return or go round again.
Relock(th, qf, rf, ret) ==
  /\ thread[th].gates = {}
  /\ thread[th].pc = "unlocked" \/ (thread[th].pc = "drive" /\ Busy = {})
  /\ \E R \in {Harvested(thread[th].errs, qf, rf, ret)} :
     LET g == thread[th].gen
         drained == thread[th].task = "shutdown" /\ InFlightIo(R.io) = {}
         again == {Idle, [thread[th] EXCEPT !.pc = "drive", !.errs = {}]}
     IN
     /\ io' = R.io
     /\ terminal_count' = terminal_count + R.ended
     /\ \E F \in {IF drained THEN Finalized(R) ELSE R} :
          LET stopped == drained /\ AllStopped(F) IN
          /\ memory' = F.memory /\ target' = F.target /\ dp' = F.dp
          /\ state' = IF stopped THEN "STOPPED" ELSE state
          /\ retained' = IF stopped THEN <<>> ELSE retained
     /\ \E next \in IF IF thread[th].task = "wait"
                         THEN AnswersFor(R.io, g) # {} \/ ~LiveHandle(R.io, g)
                         ELSE drained
                      THEN {Idle} ELSE again :
          thread' = [thread EXCEPT ![th] = next]
  /\ UNCHANGED <<io_gen, handles>>

\* release_io(): the DataPath operations a failed progress() left behind go
\* in order, up to the first that is in flight or already gone.
ReleaseIo(s) ==
  LET g == io[s].gen
      bad == {p \in io[s].ops : g \in InFlight(dp[p]) \/ g \notin Held(dp[p])}
      kept == Append(retained, [gen |-> g, result |-> io[s].result])
  IN
  /\ state # "STOPPED"
  /\ io[s].active /\ io[s].terminal
  /\ dp' = [p \in Paths |->
              IF p \in io[s].ops /\ \A q \in bad : p < q
              THEN Release(dp[p], g) ELSE dp[p]]
  /\ IF bad # {} THEN UNCHANGED <<io, retained, terminal_count>>
     ELSE /\ io' = [io EXCEPT ![s].active = FALSE, ![s].ops = {}]
          /\ retained' = SubSeq(kept, 1 + MinusClamped(Len(kept), MaxTerminal),
                                Len(kept))
          /\ terminal_count' = MinusClamped(terminal_count, 1)
  /\ UNCHANGED <<state, memory, target, io_gen, handles, thread>>

\* The event of an operation fires, also of one the host has given up on.
DeviceSignals(p, o) ==
  /\ dp[p].ops[o].dev = "running"
  /\ \E late \in IF TimesOut(p) THEN BOOLEAN ELSE {FALSE} :
       dp' = [dp EXCEPT ![p] = Signal(@, o, late)]
  /\ UNCHANGED <<state, memory, target, io, io_gen, handles, terminal_count,
                 retained, thread>>

\* The controller gets through with a command that timed out.
DeviceDrains(p, o) ==
  /\ dp[p].ops[o].dev = "late"
  /\ dp' = [dp EXCEPT ![p] = Drain(@, o)]
  /\ UNCHANGED <<state, memory, target, io, io_gen, handles, terminal_count,
                 retained, thread>>

\* The queries and the releases that fail in one refresh, and the releases
\* that retire their operation first: only release_retired() tells these
\* apart.  An operation one of whose queries failed does not get to its
\* releases.
ObserveFaults ==
  LET In(P) == IF "observe" \in Faults THEN SUBSET (InFlightIo(io) \X P) ELSE {{}}
  IN {<<qf, rf, ret>> \in In(Paths) \X In(AsyncPaths) \X In(AsyncPaths) :
        ret \subseteq rf /\ \A x \in qf, y \in rf : x[1] # y[1]}

RunsProgress(th) == \E p \in Paths, err \in BOOLEAN : RunProgress(th, p, err)
Relocks(th) == \E f \in ObserveFaults : Relock(th, f[1], f[2], f[3])

Next ==
  \/ \E m \in Memories : AddMemory(m) \/ DropMemory(m)
  \/ \E t \in Targets : CloseTarget(t) \/ \E p \in Paths : OpenTarget(t, p)
  \/ \E b \in Batches : SubmitBatch(b)
  \/ \E s \in Slots : ReleaseIo(s)
  \/ \E p \in Paths, o \in OpNames : DeviceSignals(p, o) \/ DeviceDrains(p, o)
  \/ \E th \in Threads :
       \/ OpenBatchCheck(th)
       \/ \E p \in Paths : OpenBatchOpen(th, p)
       \/ \E t \in Targets : OpenBatchPublish(th, t)
       \/ \E g \in Slots : WaitStart(th, g)
       \/ ShutdownStart(th)
       \/ Collect(th)
       \/ RunsProgress(th)
       \/ Relocks(th)

Spec == Init /\ [][Next]_vars

\* A thread inside a call keeps going, the device finishes what it was given,
\* and once shutdown() has been called it is called again until it succeeds:
\* the destructor does, when some DataPath is asynchronous.
ThreadGoesOn(th) ==
  \/ \E p \in Paths : OpenBatchOpen(th, p)
  \/ \E t \in Targets : OpenBatchPublish(th, t)
  \/ Collect(th)
  \/ RunsProgress(th)
  \/ Relocks(th)
  \/ state = "DRAINING" /\ ShutdownStart(th)

FairSpec ==
  /\ Spec
  /\ \A th \in Threads : WF_vars(ThreadGoesOn(th))
  /\ WF_vars(\E p \in Paths, o \in OpNames : DeviceSignals(p, o))

-----------------------------------------------------------------------------
(* Properties *)

IoRecords ==
  [active : BOOLEAN, gen : 0..MaxIo, terminal : BOOLEAN,
   result : {"none", "COMPLETED", "FAILED"}, obs : BOOLEAN,
   ops : SUBSET Paths, released : SUBSET Paths,
   mrefs : [Memories -> 0..MaxBatch], trefs : [Targets -> 0..MaxBatch]]

\* Shape of the registries, and every terminal entry has a result.
RuntimeTypeOK ==
  /\ state \in {"RUNNING", "DRAINING", "STOPPED"}
  /\ io \in [Slots -> IoRecords]
  /\ \A s \in Slots : io[s].terminal <=> io[s].result # "none"
  /\ \A m \in Memories : /\ memory[m].inflight \in 0..(MaxIo * MaxBatch)
                          /\ memory[m].regs \in Seq([path : Paths,
                                token : Memories \X (1..MaxIo)])
  /\ \A t \in Targets : /\ target[t].inflight \in 0..(MaxIo * MaxBatch)
                         /\ target[t].token \in 0..MaxOpens
  /\ terminal_count \in 0..MaxIo
  /\ io_gen \in 0..MaxIo /\ handles \in [Slots -> 0..MaxIo]
  /\ \A i \in DOMAIN retained : retained[i].gen \in Slots

\* The books balance: every count of in-flight requests is the number of
\* requests the in-flight operations carry, and terminal_result_count_ is the
\* number of results nobody released.
AccountsBalance ==
  /\ \A m \in Memories : memory[m].inflight =
       MapThenSumSet(LAMBDA s : io[s].mrefs[m], InFlightIo(io))
  /\ \A t \in Targets : target[t].inflight =
       MapThenSumSet(LAMBDA s : io[s].trefs[t], InFlightIo(io))
  /\ terminal_count = Cardinality({s \in Slots : io[s].active /\ io[s].terminal})

\* While an operation is in flight, close(), unregister_memory() and
\* free_memory() answer BUSY for every target and memory its accepted
\* requests use: their in-flight counts are positive.
InFlightIoHoldsCredits ==
  \A s \in InFlightIo(io) : \A p \in io[s].ops :
    LET op == dp[p].ops[io[s].gen] IN
    op.st = "in_flight" =>
      /\ \A t \in Targets :
           target[t].active /\ target[t].path = p /\ target[t].token \in op.targets
             => target[t].inflight > 0
      /\ \A r \in op.mems : memory[r[1]].active => memory[r[1]].inflight > 0


\* The released flags of an asynchronous operation agree with what its
\* DataPaths still hold, across refreshes that fail in the middle of their
\* release loop: no later cycle releases an operation a second time, and
\* none is passed over.
ReleasesAreRemembered ==
  \A s \in InFlightIo(io) : IsAsync(io[s]) =>
    io[s].released = {p \in io[s].ops : io[s].gen \notin Held(dp[p])}

\* A command that timed out and may still be in the controller queue keeps
\* the PRP pages it points to, after its operation was released as well.
TimedOutOpsKeepPages ==
  \A p \in Paths, o \in OpNames :
    dp[p].ops[o].timeout /\ dp[p].ops[o].dev = "late" => dp[p].ops[o].pages

\* The device never works on a target that was closed, on memory that was
\* unregistered, or on a DataPath that was shut down.
NoTeardownUnderDma ==
  \A p \in Paths, o \in OpNames :
    dp[p].ops[o].dev \in {"running", "late"} =>
      /\ dp[p].up
      /\ dp[p].ops[o].targets \subseteq dp[p].open
      /\ dp[p].ops[o].mems \subseteq dp[p].reg

\* Every operation a DataPath still has in flight belongs to a runtime
\* operation that is in flight and lists it, so that a later progress cycle
\* harvests and releases it.
InFlightOpsStayDriven ==
  \A p \in Paths : \A o \in InFlight(dp[p]) :
    \E s \in InFlightIo(io) : io[s].gen = o /\ p \in io[s].ops

\* wait() tells the truth about its own handle, also when the entry was
\* released and its slot reused while wait() had dropped the lock: it reports
\* COMPLETED only when every DataPath operation of the handle completed.
WaitIsTruthful ==
  \A g \in Slots : \A a \in AnswersFor(io, g) : a.result = "COMPLETED" =>
    \A p \in Paths : dp[p].ops[g].st \in {"none", "completed"}

\* A terminal operation whose DataPath operations have all ended can be
\* released: release_io() succeeds on it.
TerminalIoIsReleasable ==
  \A s \in Slots : io[s].active /\ io[s].terminal /\ state = "RUNNING" =>
    \/ \E p \in io[s].ops : io[s].gen \in InFlight(dp[p])
    \/ \A p \in io[s].ops : io[s].gen \in Held(dp[p])

\* progress() is only called on a DataPath that has not been shut down, and
\* with its progress gate still there.
GatesOutliveDrivers ==
  \A th \in Threads : \A p \in thread[th].gates : dp[p].up

\* A shutdown that was begun comes to an end: draining retires every
\* operation, and nothing that open_batch() publishes late, or that a failed
\* operation leaves behind, keeps the runtime from STOPPED.
ShutdownCompletes == state = "DRAINING" ~> state = "STOPPED"
=============================================================================
