------------------------------ MODULE DataPath ------------------------------
(***************************************************************************)
(* One DataPath as the storage runtime sees it: the targets it has opened, *)
(* the memory it has registered and the operations it has not released.    *)
(* Every SPI call is an operator from the record of a DataPath to the next *)
(* one; the runtime decides when to make the call.                         *)
(*                                                                         *)
(* A target token is the ordinal of its open, a memory token the memory    *)
(* slot with the ordinal of its registration, an operation is named by the *)
(* runtime operation it was submitted for.                                 *)
(*                                                                         *)
(* An operation has two states.  st is what the host believes: it is       *)
(* in_flight until progress() has looked at its event.  dev is what the    *)
(* device does: it is running until the event fires; then the commands are *)
(* done, or the completion kernel gave up on one of them that is still in  *)
(* the controller queue (late), which the controller drains later on.      *)
(***************************************************************************)
EXTENDS Naturals, FiniteSets

CONSTANTS
  Memories,     \* memory slots
  OpNames,      \* names of operations
  MaxInFlight   \* max_in_flight_operations_

Ended == {"completed", "failed"}

\* timeout: has_timeout; pages: the PRP pages the operation's commands point
\* to have not been given back.
NoOp == [st |-> "none", dev |-> "idle", targets |-> {}, mems |-> {},
         timeout |-> FALSE, pages |-> FALSE, released |-> TRUE]

Initialized ==
  [up |-> TRUE, opens |-> 0, open |-> {}, nreg |-> [m \in Memories |-> 0],
   reg |-> {}, ops |-> [o \in OpNames |-> NoOp]]

\* The entries of ops_, and those whose state is IN_FLIGHT.
Held(d) == {o \in OpNames : ~d.ops[o].released}
InFlight(d) == {o \in Held(d) : d.ops[o].st = "in_flight"}

(* ---- targets ---- *)

\* open() fails on a DataPath that is not initialized.
CanOpen(d) == d.up
Open(d) == [d EXCEPT !.opens = @ + 1, !.open = @ \cup {d.opens + 1}]

CanClose(d, t) ==
  /\ t \in d.open
  /\ \A o \in InFlight(d) : t \notin d.ops[o].targets
Close(d, T) == [d EXCEPT !.open = @ \ T]

(* ---- memory ---- *)

\* The token the next registration of m gets.
NextRegFromZero(d, m) == <<m, d.nreg[m]>>
NextReg(d, m) == <<m, d.nreg[m] + 1>>
Register(d, M) ==
  [d EXCEPT !.nreg = [m \in Memories |-> @[m] + IF m \in M THEN 1 ELSE 0],
            !.reg = @ \cup {NextReg(d, m) : m \in M}]

CanUnregister(d, r) ==
  /\ r \in d.reg
  /\ \A o \in InFlight(d) : r \notin d.ops[o].mems
Unregister(d, R) == [d EXCEPT !.reg = @ \ R]

(* ---- operations ---- *)

\* submit() turns the whole batch away when the in-flight quota is used up.
HasQuota(d) == d.up /\ Cardinality(InFlight(d)) < MaxInFlight

Submit(d, o, T, M) ==
  [d EXCEPT !.ops[o] = [st |-> "in_flight", dev |-> "running", targets |-> T,
                        mems |-> M, timeout |-> FALSE, pages |-> TRUE,
                        released |-> FALSE]]

\* The event of operation o fires: all its commands are done, or one timed
\* out and the controller may still execute it.
Signal(d, o, late) ==
  [d EXCEPT !.ops[o].dev = IF late THEN "late" ELSE "done"]

\* The controller is through with a command that had timed out.
Drain(d, o) == [d EXCEPT !.ops[o].dev = "drained"]

\* progress() looks at the operations in seen.  The event of those in lost
\* cannot be queried, or their status cannot be read back: they fail without
\* anyone knowing what the device does.  An operation whose event has not
\* fired stays in flight.  The others end with what the completion status
\* says: those in bad report an error, a late one a timeout.
Progress(d, seen, bad, lost) ==
  LET Late(o) == d.ops[o].dev \in {"late", "drained"} IN
  [d EXCEPT !.ops = [o \in OpNames |->
     IF o \in lost THEN [@[o] EXCEPT !.st = "failed"]
     ELSE IF o \notin seen \/ @[o].dev = "running" THEN @[o]
     ELSE [@[o] EXCEPT !.timeout = Late(o),
             !.st = IF o \in bad \/ Late(o) THEN "failed" ELSE "completed"]]]

\* release() answers BUSY, and changes nothing, while the operation is in
\* flight; otherwise the operation leaves ops_, and its PRP pages go back to
\* the pool unless it timed out.
Release(d, o) ==
  IF o \in InFlight(d) THEN d
  ELSE [d EXCEPT !.ops[o].released = TRUE,
                 !.ops[o].pages = @ /\ d.ops[o].timeout]

(* ---- shutdown(0) ---- *)

CanShutdown(d) == InFlight(d) = {}

\* The pool of PRP pages survives when an operation still in ops_ timed out.
Shutdown(d) ==
  LET any_timeout == \E o \in Held(d) : d.ops[o].timeout IN
  [d EXCEPT !.up = FALSE, !.open = {}, !.reg = {},
            !.ops = [o \in OpNames |->
               [@[o] EXCEPT !.released = TRUE, !.pages = @ /\ any_timeout]]]
=============================================================================
