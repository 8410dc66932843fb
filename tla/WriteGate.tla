----------------------------- MODULE WriteGate -----------------------------
(***************************************************************************)
(* The per-(pipeline, partition) write gate of aeon-engine: the source     *)
(* loop enters it before every fetch, the cutover coordinator closes it    *)
(* and waits for the fetches in flight before it samples the partition's   *)
(* final watermarks.                                                       *)
(*                                                                         *)
(* Source:  crates/aeon-engine/src/write_gate.rs, with its two callers,    *)
(*          pipeline.rs (the source task of run_buffered) and              *)
(*          engine_cutover.rs (drain_and_freeze).                          *)
(*                                                                         *)
(* A step is one atomic operation of the code: taking the RwLock, one      *)
(* atomic add or load, one call of tokio's Notify.  A section under the    *)
(* write lock is a single step that no reader may overlap.                 *)
(***************************************************************************)
EXTENDS Integers, FiniteSets

CONSTANTS
  Sources,    \* source tasks that share the gate
  Freezers,   \* callers of request_freeze_and_drain (one per transfer attempt)
  MaxOffset   \* bound: fetches the model lets the sources make

ASSUME GateAssumption == /\ IsFiniteSet(Sources)
                         /\ MaxOffset \in Nat

VARIABLES
  gate,      \* the RwLock-protected GateState
  inFlight,  \* the AtomicU64 counter of DrainGuards alive
  src,       \* control state of every source task
  frz,       \* control state of every freezer
  offset,    \* events fetched: what the watermark reader reports
  sampled    \* the watermark a freezer returned to the transfer, or NoSample

vars == <<gate, inFlight, src, frz, offset, sampled>>

NoSample == -1

GateState == {"Open", "FreezeRequested", "Frozen"}
SrcState  == {"idle", "locked", "fetching", "fetched", "notifying", "stopped"}
FrzState  == {"idle", "flip", "wake", "check", "commit", "park", "waiting",
              "drained", "ok", "timeout"}

\* Sources that hold the read lock, and sources that own a DrainGuard.
Readers == {s \in Sources : src[s] = "locked"}
Holders == {s \in Sources : src[s] \in {"fetching", "fetched"}}

\* Freezers whose future has not returned.
Pending == {f \in Freezers :
              frz[f] \in {"flip", "wake", "check", "commit", "park", "waiting"}}

\* notify_waiters: wakes the futures that exist now, stores no permit.
NotifyWaiters(pc) ==
  [f \in Freezers |-> IF pc[f] = "waiting" THEN "check" ELSE pc[f]]

Init ==
  /\ gate = "Open"
  /\ inFlight = 0
  /\ src = [s \in Sources |-> "idle"]
  /\ frz = [f \in Freezers |-> "idle"]
  /\ offset = 0
  /\ sampled = [f \in Freezers |-> NoSample]

-----------------------------------------------------------------------------
(* The source task: try_enter, the fetch, the guard's drop.                *)

\* try_enter takes the read lock (write sections are single steps, so only
\* other readers can be inside) and looks at the state: it keeps the lock
\* if the gate is Open, otherwise it returns None and the source loop ends.
TryEnter(s) ==
  /\ src[s] = "idle"
  /\ src' = [src EXCEPT ![s] = IF gate = "Open" THEN "locked" ELSE "stopped"]
  /\ UNCHANGED <<gate, inFlight, frz, offset, sampled>>

\* try_enter counts the guard and releases the read lock.
CountGuard(s) ==
  /\ src[s] = "locked"
  /\ inFlight' = inFlight + 1
  /\ src' = [src EXCEPT ![s] = "fetching"]
  /\ UNCHANGED <<gate, frz, offset, sampled>>

\* next_batch returns, with events that are pushed to the ring or without
\* any; the guard is still held.
Fetch(s) ==
  /\ src[s] = "fetching"
  /\ offset' \in {offset, offset + 1} \cap (0..MaxOffset)
  /\ src' = [src EXCEPT ![s] = "fetched"]
  /\ UNCHANGED <<gate, inFlight, frz, sampled>>

\* DrainGuard::drop: the decrement, and whether this was the last guard.
Release(s) ==
  /\ src[s] = "fetched"
  /\ inFlight' = inFlight - 1
  /\ src' = [src EXCEPT ![s] = IF inFlight = 1 THEN "notifying" ELSE "idle"]
  /\ UNCHANGED <<gate, frz, offset, sampled>>

\* DrainGuard::drop: notify_waiters after the last guard was released.
ReleaseNotify(s) ==
  /\ src[s] = "notifying"
  /\ src' = [src EXCEPT ![s] = "idle"]
  /\ frz' = NotifyWaiters(frz)
  /\ UNCHANGED <<gate, inFlight, offset, sampled>>

-----------------------------------------------------------------------------
(* The cutover coordinator: request_freeze_and_drain, then the sample.     *)

\* Mutant of RequestFreeze: a freeze already requested counts as done.
EagerFastPath(f) ==
  /\ frz[f] \in {"idle", "ok", "timeout"}
  /\ frz' = [frz EXCEPT ![f] = IF gate # "Open" THEN "drained" ELSE "flip"]
  /\ UNCHANGED <<gate, inFlight, src, offset, sampled>>

\* The idempotency fast path: a Frozen gate is Ok at once.
RequestFreeze(f) ==
  /\ frz[f] \in {"idle", "ok", "timeout"}
  /\ frz' = [frz EXCEPT ![f] = IF gate = "Frozen" THEN "drained" ELSE "flip"]
  /\ UNCHANGED <<gate, inFlight, src, offset, sampled>>

\* Mutant of Flip: the state is stored without the write lock.
UnlockedFlip(f) ==
  /\ frz[f] = "flip"
  /\ gate' = IF gate = "Open" THEN "FreezeRequested" ELSE gate
  /\ frz' = [frz EXCEPT ![f] = "wake"]
  /\ UNCHANGED <<inFlight, src, offset, sampled>>

\* Open -> FreezeRequested under the write lock.
Flip(f) ==
  /\ frz[f] = "flip"
  /\ Readers = {}
  /\ gate' = IF gate = "Open" THEN "FreezeRequested" ELSE gate
  /\ frz' = [frz EXCEPT ![f] = "wake"]
  /\ UNCHANGED <<inFlight, src, offset, sampled>>

\* The notify_waiters after the flip; it also wakes the other freezers.
Wake(f) ==
  /\ frz[f] = "wake"
  /\ frz' = [NotifyWaiters(frz) EXCEPT ![f] = "check"]
  /\ UNCHANGED <<gate, inFlight, src, offset, sampled>>

\* The load of the counter at the head of the drain loop.
Check(f) ==
  /\ frz[f] = "check"
  /\ frz' = [frz EXCEPT ![f] = IF inFlight = 0 THEN "commit" ELSE "park"]
  /\ UNCHANGED <<gate, inFlight, src, offset, sampled>>

\* Mutant of Commit: the drain succeeds but the gate is not frozen.
CommitWithoutFreeze(f) ==
  /\ frz[f] = "commit"
  /\ Readers = {}
  /\ frz' = [frz EXCEPT ![f] = "drained"]
  /\ UNCHANGED <<gate, inFlight, src, offset, sampled>>

\* FreezeRequested -> Frozen under the write lock, after the load saw zero.
Commit(f) ==
  /\ frz[f] = "commit"
  /\ Readers = {}
  /\ gate' = IF gate = "FreezeRequested" THEN "Frozen" ELSE gate
  /\ frz' = [frz EXCEPT ![f] = "drained"]
  /\ UNCHANGED <<inFlight, src, offset, sampled>>

\* The load saw a guard: create the Notified future and await it.
Park(f) ==
  /\ frz[f] = "park"
  /\ frz' = [frz EXCEPT ![f] = "waiting"]
  /\ UNCHANGED <<gate, inFlight, src, offset, sampled>>

\* Mutant of Timeout: the drain is awaited without a deadline.
NoDeadline(f) == FALSE

\* tokio::time::timeout elapses on a poll that finds the drain pending; the
\* gate stays FreezeRequested.
Timeout(f) ==
  /\ frz[f] = "waiting"
  /\ frz' = [frz EXCEPT ![f] = "timeout"]
  /\ UNCHANGED <<gate, inFlight, src, offset, sampled>>

\* drain_and_freeze reads the watermarks once the gate is Frozen.
Sample(f) ==
  /\ frz[f] = "drained"
  /\ sampled' = [sampled EXCEPT ![f] = offset]
  /\ frz' = [frz EXCEPT ![f] = "ok"]
  /\ UNCHANGED <<gate, inFlight, src, offset>>

\* reopen, under its documented contract: no drain future pending and no
\* coordinator between the drain and its sample.  The transfers that used
\* the samples are over.
Reopen ==
  /\ Pending = {}
  /\ \A f \in Freezers : frz[f] # "drained"
  /\ Readers = {}
  /\ gate' = "Open"
  /\ sampled' = [f \in Freezers |-> NoSample]
  /\ UNCHANGED <<inFlight, src, frz, offset>>

-----------------------------------------------------------------------------
SourceStep(s) == TryEnter(s) \/ CountGuard(s) \/ Fetch(s) \/ Release(s)
                   \/ ReleaseNotify(s)

FreezeStep(f) == RequestFreeze(f) \/ Flip(f) \/ Wake(f) \/ Check(f)
                   \/ Commit(f) \/ Park(f) \/ Timeout(f) \/ Sample(f)

Next == \/ \E s \in Sources : SourceStep(s)
        \/ \E f \in Freezers : FreezeStep(f)
        \/ Reopen

Spec == Init /\ [][Next]_vars

\* The runtime keeps polling both kinds of task: a section once entered is
\* left, and a drain future is polled until it returns.  next_batch may
\* block for ever, so Fetch is not fair; the deadline of the drain has
\* passed for good once it has passed, so Timeout is strongly fair.  The
\* futex RwLock of std admits no reader past a waiting writer: readers do
\* not overlap for ever while a write section is due.
WriterDue == \E f \in Freezers : frz[f] \in {"flip", "commit"}

Fairness ==
  /\ []<>(WriterDue => Readers = {})
  /\ \A s \in Sources : WF_vars(CountGuard(s)) /\ WF_vars(Release(s))
                          /\ WF_vars(ReleaseNotify(s))
  /\ \A f \in Freezers : /\ SF_vars(Flip(f)) /\ WF_vars(Wake(f))
                         /\ WF_vars(Check(f)) /\ SF_vars(Commit(f))
                         /\ WF_vars(Park(f)) /\ SF_vars(Timeout(f))
                         /\ WF_vars(Sample(f))

FairSpec == Spec /\ Fairness

-----------------------------------------------------------------------------
(* Properties.                                                             *)

\* Every variable ranges over the states the code can be in.
TypeOK ==
  /\ gate \in GateState
  /\ inFlight \in Nat
  /\ src \in [Sources -> SrcState]
  /\ frz \in [Freezers -> FrzState]
  /\ offset \in 0..MaxOffset
  /\ sampled \in [Freezers -> {NoSample} \cup (0..MaxOffset)]

\* The atomic counter is exactly the number of DrainGuards alive, although
\* increments and decrements race with the freeze.
CounterCountsGuards == inFlight = Cardinality(Holders)

\* A frozen gate has no fetch in flight: the transition to Frozen is atomic
\* with the zero-observation, as the module comment of write_gate.rs says,
\* although load and transition are two steps of the code.
FrozenIsQuiescent == gate = "Frozen" => Holders = {}

\* The watermark a coordinator handed to the transfer stays the true one:
\* no source fetches past it until the gate is reopened.
WatermarkIsFinal ==
  \A f \in Freezers : sampled[f] # NoSample => sampled[f] = offset

\* A drain that reported success left the gate closed: when the coordinator
\* samples, every later try_enter returns None.
DrainedMeansFrozen == \A f \in Freezers : frz[f] = "drained" => gate = "Frozen"

\* Every freeze request returns: the lock is always released, and a drain
\* that can make no progress times out.
FreezeReturns == \A f \in Freezers : (f \in Pending) ~> (f \notin Pending)

\* What the doc of request_freeze_and_drain says of Err(Timeout): the
\* counter did not reach zero before the deadline.  (A guard that is just
\* being dropped still counts: its wake-up is on the way.)
TimeoutMeansBusy ==
  [][\A f \in Freezers :
       frz[f] = "waiting" /\ frz'[f] = "timeout"
         => inFlight > 0 \/ \E s \in Sources : src[s] = "notifying"]_vars
=============================================================================
