------------------------ MODULE GatesAndTasks_proofs ------------------------
(***************************************************************************)
(* What a cutover and the supervisor rely on.                              *)
(*                                                                         *)
(* The write gate, for any finite set of source tasks and any set of       *)
(* freezers: the counter is exact, a frozen gate is quiescent, and a       *)
(* sampled watermark stays final until the gate is reopened.               *)
(*                                                                         *)
(* The tasks of PipelineLifecycle, for any number of requests made one     *)
(* after the other: every live task can be stopped, there is one at most,  *)
(* the registered gate is its gate, and it runs what the definition says.  *)
(*                                                                         *)
(* The replacements ManagedPipeline makes in a running pipeline, for any   *)
(* calls that overlap: no batch and no state is lost.                      *)
(***************************************************************************)
EXTENDS WriteGate, Sequences, FiniteSetTheorems, TLAPS

CONSTANTS Processors, Steps, Requests, Ops, Serial, First, MayFail, MayEnd
CONSTANTS Calls, MaxEvents, SrcCap, SinkCap, Batched, MayStop, PullSource

VARIABLES pipe, hist, task, running, registered, control, req
VARIABLES ctl, notify, call, stop, proc, snk, ring, fetched, effects, out

\* Its variable gate names the gate registered for the pipeline; the gate's own
\* state is WriteGate's.
Life == INSTANCE PipelineLifecycle WITH gate <- registered
Man == INSTANCE ManagedPipeline

-----------------------------------------------------------------------------
(* The write gate.                                                          *)

\* What the freezer's control state says of the gate: past the flip the gate
\* is closed, and a freezer that saw the counter at zero can rely on it.
FreezerView ==
  \A f \in Freezers :
    /\ frz[f] \in {"wake", "check", "commit", "park", "waiting"} => gate # "Open"
    /\ frz[f] = "commit" => Holders = {}
    /\ frz[f] = "drained" => gate = "Frozen"

\* A reader still inside the lock saw the gate Open, and no write section
\* can have changed it since.
ReaderSawOpen == Readers # {} => gate = "Open"

\* A sample is kept only while the gate stays frozen.
SampleUnderFreeze ==
  \A f \in Freezers :
    sampled[f] # NoSample => gate = "Frozen" /\ sampled[f] = offset

\* The inductive invariant.
GateInv ==
  /\ TypeOK
  /\ CounterCountsGuards
  /\ FreezerView
  /\ ReaderSawOpen
  /\ FrozenIsQuiescent
  /\ SampleUnderFreeze

-----------------------------------------------------------------------------
\* The set of guard holders is finite: the counter can count it.
LEMMA HoldersFinite == IsFiniteSet(Holders)
  BY FS_Subset, GateAssumption DEF Holders

\* Handing out one more guard adds one to the number of holders.
LEMMA HoldersAdd ==
  ASSUME NEW s \in Sources, TypeOK, src[s] = "locked",
         src' = [src EXCEPT ![s] = "fetching"]
  PROVE  Cardinality(Holders') = Cardinality(Holders) + 1
<1>1. Holders' = Holders \cup {s} /\ s \notin Holders
  BY DEF Holders, TypeOK
<1> QED
  BY <1>1, HoldersFinite, FS_AddElement

\* Dropping a guard takes one from the number of holders.
LEMMA HoldersRemove ==
  ASSUME NEW s \in Sources, TypeOK, src[s] = "fetched",
         NEW st \in {"notifying", "idle"}, src' = [src EXCEPT ![s] = st]
  PROVE  /\ Cardinality(Holders') = Cardinality(Holders) - 1
         /\ Holders' \subseteq Holders
         /\ Cardinality(Holders) # 0
<1>1. Holders' = Holders \ {s} /\ s \in Holders
  BY DEF Holders, TypeOK
<1>2. Cardinality(Holders) # 0
  BY <1>1, HoldersFinite, FS_EmptySet
<1> QED
  BY <1>1, <1>2, HoldersFinite, FS_RemoveElement

\* The counter reads zero exactly when there is no guard.
LEMMA ZeroMeansNoHolder ==
  ASSUME CounterCountsGuards, inFlight = 0
  PROVE  Holders = {}
  BY HoldersFinite, FS_EmptySet DEF CounterCountsGuards

\* A fresh gate satisfies the invariant.
LEMMA InitGateInv == Init => GateInv
<1> SUFFICES ASSUME Init PROVE GateInv
  OBVIOUS
<1>1. Holders = {} /\ Readers = {}
  BY DEF Init, Holders, Readers
<1>2. CounterCountsGuards
  BY <1>1, FS_EmptySet DEF Init, CounterCountsGuards
<1> QED
  BY <1>1, <1>2, GateAssumption
  DEF Init, GateInv, TypeOK, GateState, SrcState, FrzState, FreezerView,
      ReaderSawOpen, FrozenIsQuiescent, SampleUnderFreeze

\* try_enter, a fetch and the drop of its guard keep the invariant.
LEMMA SourceStepGateInv ==
  ASSUME GateInv, NEW s \in Sources, SourceStep(s)
  PROVE  GateInv'
<1> USE DEF GateInv
<1>1. CASE TryEnter(s)
  <2>1. Holders' = Holders
    BY <1>1 DEF TryEnter, Holders, TypeOK
  <2>2. ReaderSawOpen'
    BY <1>1 DEF TryEnter, Readers, ReaderSawOpen, TypeOK
  <2> QED
    BY <1>1, <2>1, <2>2
    DEF TryEnter, TypeOK, SrcState, CounterCountsGuards, FreezerView,
        FrozenIsQuiescent, SampleUnderFreeze
<1>2. CASE CountGuard(s)
  <2>1. Cardinality(Holders') = Cardinality(Holders) + 1
    BY <1>2, HoldersAdd DEF CountGuard
  <2>2. gate = "Open" /\ Readers' \subseteq Readers
    BY <1>2 DEF CountGuard, Readers, ReaderSawOpen, TypeOK
  <2>3. CounterCountsGuards' /\ TypeOK'
    BY <1>2, <2>1 DEF CountGuard, CounterCountsGuards, TypeOK, SrcState
  <2>4. ReaderSawOpen'
    BY <1>2, <2>2 DEF CountGuard, ReaderSawOpen
  <2>5. FreezerView' /\ FrozenIsQuiescent' /\ SampleUnderFreeze'
    BY <1>2, <2>2 DEF CountGuard, FreezerView, FrozenIsQuiescent,
                      SampleUnderFreeze
  <2> QED
    BY <2>3, <2>4, <2>5
<1>3. CASE Fetch(s)
  <2>1. Holders' = Holders /\ Readers' = Readers
    BY <1>3 DEF Fetch, Holders, Readers, TypeOK
  <2>2. gate # "Frozen"
    BY <1>3 DEF Fetch, FrozenIsQuiescent, Holders
  <2>3. TypeOK'
    BY <1>3 DEF Fetch, TypeOK, SrcState
  <2> QED
    BY <1>3, <2>1, <2>2, <2>3
    DEF Fetch, CounterCountsGuards, FreezerView, ReaderSawOpen,
        FrozenIsQuiescent, SampleUnderFreeze
<1>4. CASE Release(s)
  <2> DEFINE st == IF inFlight = 1 THEN "notifying" ELSE "idle"
  <2>0. st \in {"notifying", "idle"} /\ src' = [src EXCEPT ![s] = st]
        /\ src[s] = "fetched"
    BY <1>4 DEF Release
  <2> HIDE DEF st
  <2>1. /\ Cardinality(Holders') = Cardinality(Holders) - 1
        /\ Holders' \subseteq Holders
        /\ Cardinality(Holders) # 0
    BY <2>0, HoldersRemove
  <2>2. Readers' = Readers
    BY <2>0 DEF Readers, TypeOK
  <2>3. TypeOK' /\ CounterCountsGuards'
    BY <1>4, <2>0, <2>1 DEF Release, TypeOK, SrcState, CounterCountsGuards
  <2> QED
    BY <1>4, <2>1, <2>2, <2>3
    DEF Release, FreezerView, ReaderSawOpen, FrozenIsQuiescent,
        SampleUnderFreeze
<1>5. CASE ReleaseNotify(s)
  <2>1. Holders' = Holders /\ Readers' = Readers
    BY <1>5 DEF ReleaseNotify, Holders, Readers, TypeOK
  <2>2. TypeOK'
    BY <1>5 DEF ReleaseNotify, TypeOK, SrcState, FrzState, NotifyWaiters
  <2> QED
    BY <1>5, <2>1, <2>2
    DEF ReleaseNotify, NotifyWaiters, TypeOK, CounterCountsGuards, FreezerView,
        ReaderSawOpen, FrozenIsQuiescent, SampleUnderFreeze
<1> QED
  BY <1>1, <1>2, <1>3, <1>4, <1>5 DEF SourceStep

\* Every step of a freeze request keeps the invariant.
LEMMA FreezeStepGateInv ==
  ASSUME GateInv, NEW f \in Freezers, FreezeStep(f)
  PROVE  GateInv'
<1> USE DEF GateInv
<1>0. Holders' = Holders /\ Readers' = Readers
  BY DEF FreezeStep, RequestFreeze, Flip, Wake, Check, Commit, Park, Timeout,
         Sample, Holders, Readers
<1>1. TypeOK'
  BY DEF FreezeStep, RequestFreeze, Flip, Wake, Check, Commit, Park, Timeout,
         Sample, TypeOK, GateState, FrzState, NotifyWaiters
<1>2. CounterCountsGuards'
  BY <1>0 DEF FreezeStep, RequestFreeze, Flip, Wake, Check, Commit, Park,
              Timeout, Sample, CounterCountsGuards
<1>3. ReaderSawOpen'
  BY <1>0 DEF FreezeStep, RequestFreeze, Flip, Wake, Check, Commit, Park,
              Timeout, Sample, ReaderSawOpen
<1>4. CASE RequestFreeze(f) \/ Park(f) \/ Timeout(f) \/ Wake(f)
  BY <1>0, <1>1, <1>2, <1>3, <1>4
  DEF RequestFreeze, Park, Timeout, Wake, NotifyWaiters, TypeOK, FreezerView,
      FrozenIsQuiescent, SampleUnderFreeze
<1>5. CASE Flip(f)
  BY <1>0, <1>1, <1>2, <1>3, <1>5
  DEF Flip, TypeOK, GateState, FreezerView, FrozenIsQuiescent, SampleUnderFreeze
<1>6. CASE Check(f)
  <2>1. inFlight = 0 => Holders = {}
    BY ZeroMeansNoHolder
  <2> QED
    BY <1>0, <1>1, <1>2, <1>3, <1>6, <2>1
    DEF Check, TypeOK, FreezerView, FrozenIsQuiescent, SampleUnderFreeze
<1>7. CASE Commit(f)
  <2>1. Holders = {} /\ gate # "Open"
    BY <1>7 DEF Commit, FreezerView
  <2> QED
    BY <1>0, <1>1, <1>2, <1>3, <1>7, <2>1
    DEF Commit, TypeOK, GateState, FreezerView, FrozenIsQuiescent,
        SampleUnderFreeze
<1>8. CASE Sample(f)
  BY <1>0, <1>1, <1>2, <1>3, <1>8
  DEF Sample, TypeOK, FreezerView, FrozenIsQuiescent, SampleUnderFreeze
<1> QED
  BY <1>4, <1>5, <1>6, <1>7, <1>8 DEF FreezeStep

\* Reopening keeps the invariant.
LEMMA ReopenGateInv ==
  ASSUME GateInv, Reopen
  PROVE  GateInv'
<1> USE DEF GateInv
<1>1. Holders' = Holders /\ Readers' = Readers
  BY DEF Reopen, Holders, Readers
<1>2. TypeOK'
  BY DEF Reopen, TypeOK, GateState
<1>3. FreezerView'
  BY DEF Reopen, Pending, FreezerView
<1> QED
  BY <1>1, <1>2, <1>3
  DEF Reopen, CounterCountsGuards, ReaderSawOpen, FrozenIsQuiescent,
      SampleUnderFreeze

\* The gate's inductive invariant holds in every reachable state.
THEOREM GateSafety == Spec => []GateInv
<1>1. GateInv /\ [Next]_vars => GateInv'
  <2> SUFFICES ASSUME GateInv, [Next]_vars PROVE GateInv'
    OBVIOUS
  <2>1. CASE Next
    BY <2>1, SourceStepGateInv, FreezeStepGateInv, ReopenGateInv DEF Next
  <2>2. CASE UNCHANGED vars
    BY <2>2
    DEF vars, GateInv, TypeOK, CounterCountsGuards, FreezerView, ReaderSawOpen,
        FrozenIsQuiescent, SampleUnderFreeze, Holders, Readers
  <2> QED
    BY <2>1, <2>2
<1> QED
  BY <1>1, InitGateInv, PTL DEF Spec

\* No interleaving of try_enter, guard drops and freezes leaves a fetch in
\* flight behind a gate that reports Frozen.
THEOREM FrozenGateIsQuiescent == Spec => []FrozenIsQuiescent
<1>1. GateInv => FrozenIsQuiescent
  BY DEF GateInv
<1> QED
  BY <1>1, GateSafety, PTL

\* The watermark drain_and_freeze returned stays the partition's true
\* watermark until the gate is reopened.
THEOREM SampledWatermarkIsFinal == Spec => []WatermarkIsFinal
<1>1. GateInv => WatermarkIsFinal
  BY DEF GateInv, SampleUnderFreeze, WatermarkIsFinal
<1> QED
  BY <1>1, GateSafety, PTL

\* A drain that reported success has left the gate Frozen, so that every
\* try_enter made while the coordinator samples returns None.
THEOREM DrainedGateIsFrozen == Spec => []DrainedMeansFrozen
<1>1. GateInv => DrainedMeansFrozen
  BY DEF GateInv, FreezerView, DrainedMeansFrozen
<1> QED
  BY <1>1, GateSafety, PTL

-----------------------------------------------------------------------------
(* The tasks of a pipeline: no task is lost.                                *)

\* Requests are numbered from 1 and made one at a time.
OneAtATime == Serial = TRUE /\ Life!NoOne \notin Requests

\* The fields of the tasks and of the requests.
Shapes ==
  /\ running \in Requests \cup {Life!NoOne}
  /\ DOMAIN task = Requests /\ DOMAIN req = Requests
  /\ \A t \in Requests : {"at", "stop", "gate", "run"} \subseteq DOMAIN task[t]
  /\ \A r \in Requests : {"at", "task", "ok"} \subseteq DOMAIN req[r]

\* No two requests are under way.
OneUnderway == \A r, s \in Requests : Life!Underway(r) /\ Life!Underway(s) => r = s

\* Where a task is while a request works on it.
InHand ==
  \A r \in Requests :
    /\ Life!At(r, "build") => running = Life!NoOne
    /\ Life!At(r, "insert") =>
         running = Life!NoOne /\ req[r].task = r /\ task[r].gate = registered
    /\ Life!At(r, "join") => running = Life!NoOne

\* A live task is the recorded one, about to be, or awaited by the stop that
\* told it to end.
Recorded ==
  \A t \in Requests :
    task[t].at = "live" =>
      \/ running = t
      \/ Life!At(t, "insert")
      \/ task[t].stop /\ \E r \in Requests : Life!At(r, "join") /\ req[r].task = t

\* The recorded task has the registered gate, whether it is live or not.
SameGate == running # Life!NoOne => task[running].gate = registered

\* The inductive invariant of the tasks.
TaskInv == Shapes /\ OneUnderway /\ InHand /\ Recorded /\ SameGate

---------------------------------------------------------------------------

\* At first there are no tasks.
LEMMA TasksInit ==
  ASSUME OneAtATime, Life!Init
  PROVE  TaskInv
  BY DEF OneAtATime, Life!Init, TaskInv, Shapes, OneUnderway, Life!Underway, InHand,
         Life!At, Recorded, SameGate,
         Life!NoTask

\* A request that arrives is the only one, and has no task in hand.
LEMMA Arriving ==
  ASSUME OneAtATime, TaskInv, NEW r \in Requests,
         NEW a \in {"read", "remove", "swap", "meta", "record", "done"},
         \A s \in Requests : ~Life!Underway(s),
         Shapes', UNCHANGED <<task, running, registered>>,
         req'[r].at = a, \A s \in Requests \ {r} : req'[s] = req[s]
  PROVE  TaskInv'
<1>1. OneUnderway' BY DEF OneUnderway, Life!Underway
<1>2. \A s \in Requests : ~Life!At(s, "build") /\ ~Life!At(s, "insert") /\ ~Life!At(s, "join")
  BY DEF Life!Underway, Life!At
<1>3. \A s \in Requests :
         ~Life!At(s, "build")' /\ ~Life!At(s, "insert")' /\ ~Life!At(s, "join")'
  BY <1>2 DEF Life!At
<1>4. InHand' BY <1>3 DEF InHand
<1>5. Recorded' BY <1>2 DEF TaskInv, Recorded
<1>6. SameGate' BY DEF TaskInv, SameGate
<1> QED BY <1>1, <1>4, <1>5, <1>6 DEF TaskInv

\* So does a request whose first step is one on the definition.
LEMMA Declaring ==
  ASSUME OneAtATime, TaskInv, NEW r \in Requests, NEW op, NEW p, NEW o,
         NEW a \in {"read", "remove", "record", "done"},
         Life!Arrives(r, op), Life!Declare(r, op, p, o, a), UNCHANGED <<task, running,
         registered>>
  PROVE  TaskInv'
<1>1. \A s \in Requests : ~Life!Underway(s) BY DEF Life!Arrives, OneAtATime
<1> DEFINE b == IF o.ok THEN a ELSE "done"
           n == IF a = "record" THEN o.hist ELSE <<>>
           q == [req[r] EXCEPT !.op = op, !.new = p, !.ok = o.ok, !.at = b, !.note = n]
<1>2. req' = [req EXCEPT ![r] = q] BY DEF Life!Declare
<1>3. DOMAIN q = DOMAIN req[r] /\ q.at = b
  <2> HIDE DEF b, n
  <2> QED BY DEF TaskInv, Shapes
<1> HIDE DEF q, n
<1>4. req'[r] = q /\ \A s \in Requests \ {r} : req'[s] = req[s]
  BY <1>2 DEF TaskInv, Shapes
<1>5. DOMAIN req' = Requests BY <1>2 DEF TaskInv, Shapes
<1>6. Shapes' BY <1>3, <1>4, <1>5 DEF TaskInv, Shapes
<1>7. req'[r].at \in {a, "done"} BY <1>3, <1>4
<1> QED BY <1>1, <1>4, <1>6, <1>7, Arriving

\* Request r goes on, with no task of its own in hand before or after, and
\* nothing is recorded or told to stop.
Moves(r) ==
  /\ DOMAIN req' = Requests /\ DOMAIN req'[r] = DOMAIN req[r]
  /\ \A s \in Requests \ {r} : req'[s] = req[s]
  /\ DOMAIN task' = Requests
  /\ \A t \in Requests : /\ DOMAIN task'[t] = DOMAIN task[t]
                         /\ task'[t].at = task[t].at
                         /\ task'[t].stop = task[t].stop
                         /\ task'[t].gate = task[t].gate
  /\ UNCHANGED running

\* Such a step keeps the invariant.
LEMMA Moving ==
  ASSUME OneAtATime, TaskInv, NEW r \in Requests, Life!Underway(r),
         ~Life!At(r, "insert"), ~Life!At(r, "join"), Moves(r),
         req'[r].at \notin {"insert", "join"}, req'[r].at = "build" => running = Life!NoOne,
         registered' = registered \/ running = Life!NoOne
  PROVE  TaskInv'
<1>1. Shapes'
  <2>1. \A t \in Requests : {"at", "stop", "gate", "run"} \subseteq DOMAIN task'[t]
    BY DEF TaskInv, Shapes, Moves
  <2>2. \A s \in Requests : {"at", "task", "ok"} \subseteq DOMAIN req'[s]
    BY DEF TaskInv, Shapes, Moves
  <2> QED BY <2>1, <2>2 DEF TaskInv, Shapes, Moves
<1>2. \A s \in Requests \ {r} : ~Life!Underway(s) /\ ~Life!Underway(s)'
  BY DEF TaskInv, OneUnderway, Moves, Life!Underway
<1>3. OneUnderway' BY <1>2 DEF OneUnderway
<1>4. \A s \in Requests : ~Life!At(s, "insert") /\ ~Life!At(s, "join")
  BY <1>2 DEF Life!At, Life!Underway
<1>5. \A s \in Requests : ~Life!At(s, "insert")' /\ ~Life!At(s, "join")'
  BY <1>2 DEF Life!At, Life!Underway
<1>6. \A s \in Requests : Life!At(s, "build")' => running = Life!NoOne
  BY <1>2 DEF Life!At, Life!Underway
<1>7. InHand' BY <1>5, <1>6 DEF InHand, Moves
<1>8. Recorded' BY <1>4 DEF TaskInv, Recorded, Moves
<1>9. SameGate' BY DEF TaskInv, SameGate, Moves, Shapes
<1> QED BY <1>1, <1>3, <1>7, <1>8, <1>9 DEF TaskInv

\* The steps of a request that leave the tasks alone.
LEMMA Passing ==
  ASSUME OneAtATime, TaskInv, NEW r \in Requests,
         Life!StartRead(r) \/ Life!StartCheck(r) \/ Life!StartInstall(r)
           \/ Life!StopUninstall(r) \/ Life!UpgradeMeta(r) \/ Life!Record(r) \/ Life!Look(r)
  PROVE  TaskInv'
<1>1. Life!Underway(r) /\ ~Life!At(r, "insert") /\ ~Life!At(r, "join")
  BY DEF Life!Underway, Life!At, Life!StartRead, Life!StartCheck, Life!StartInstall,
         Life!StopUninstall, Life!UpgradeMeta, Life!Record, Life!Look
<1>2. UNCHANGED <<task, running, registered>>
  BY DEF Life!StartRead, Life!StartCheck, Life!StartInstall, Life!StopUninstall,
         Life!UpgradeMeta, Life!Record, Life!Look
<1>3. DOMAIN req = Requests /\ {"at", "task", "ok"} \subseteq DOMAIN req[r]
  BY DEF TaskInv, Shapes
<1>4. /\ DOMAIN req' = Requests /\ DOMAIN req'[r] = DOMAIN req[r]
      /\ \A s \in Requests \ {r} : req'[s] = req[s]
      /\ req'[r].at \notin {"insert", "join"} /\ (req'[r].at = "build" => running = Life!NoOne)
  <2>1. CASE Life!StartRead(r)
    <3> DEFINE a == IF pipe.state = "absent" THEN "done" ELSE "check"
               o == pipe.state # "absent"
               q == [req[r] EXCEPT !.def = pipe, !.ok = o, !.at = a]
    <3>1. req' = [req EXCEPT ![r] = q] BY <2>1 DEF Life!StartRead
    <3>2. DOMAIN q = DOMAIN req[r] /\ q.at = a
      <4> HIDE DEF a, o
      <4> QED BY <1>3
    <3>3. a \in {"done", "check"} OBVIOUS
    <3> HIDE DEF q, a
    <3> QED BY <1>3, <3>1, <3>2, <3>3
  <2>2. CASE Life!StartCheck(r)
    <3> DEFINE a == IF running = Life!NoOne THEN "build" ELSE "install"
    <3>1. req' = [req EXCEPT ![r].task = running, ![r].at = a]
      BY <2>2 DEF Life!StartCheck
    <3>2. a \in {"build", "install"} /\ (a = "build" => running = Life!NoOne) OBVIOUS
    <3> HIDE DEF a
    <3> QED BY <1>3, <3>1, <3>2
  <2>3. CASE Life!StartInstall(r)
    BY <1>3, <2>3 DEF Life!StartInstall, Life!Returns
  <2>4. CASE Life!StopUninstall(r)
    BY <1>3, <2>4 DEF Life!StopUninstall, Life!Returns
  <2>5. CASE Life!UpgradeMeta(r)
    <3>1. PICK o : req' = [req EXCEPT ![r].at = "done", ![r].ok = o]
      BY <2>5 DEF Life!UpgradeMeta, Life!Returns
    <3> QED BY <1>3, <3>1
  <2>6. CASE Life!Record(r)
    BY <1>3, <2>6 DEF Life!Record
  <2>7. CASE Life!Look(r)
    BY <1>3, <2>7 DEF Life!Look, Life!Returns
  <2> QED BY <2>1, <2>2, <2>3, <2>4, <2>5, <2>6, <2>7
<1>5. Moves(r) BY <1>2, <1>4 DEF Moves, TaskInv, Shapes
<1> QED BY <1>1, <1>2, <1>4, <1>5, Moving

\* A request that changes what a task runs: upgrades and the runtime calls.
LEMMA Calling ==
  ASSUME OneAtATime, TaskInv, NEW r \in Requests,
  Life!UpgradeSwap(r) \/ Life!ApplyRuntime(r)
  PROVE  TaskInv'
<1>1. Life!Underway(r) /\ ~Life!At(r, "insert") /\ ~Life!At(r, "join")
  BY DEF Life!Underway, Life!At, Life!UpgradeSwap, Life!ApplyRuntime
<1>2. UNCHANGED <<running, registered>>
  BY DEF Life!UpgradeSwap, Life!ApplyRuntime
<1>3. DOMAIN req = Requests /\ {"at", "task", "ok"} \subseteq DOMAIN req[r]
  BY DEF TaskInv, Shapes
<1>4. /\ DOMAIN req' = Requests /\ DOMAIN req'[r] = DOMAIN req[r]
      /\ \A s \in Requests \ {r} : req'[s] = req[s]
      /\ req'[r].at \in {"meta", "done"}
  BY <1>3 DEF Life!UpgradeSwap, Life!ApplyRuntime, Life!Goes, Life!Returns
<1>5. task' = task \/ \E t, x : task' = [task EXCEPT ![t].run = x]
  <2>1. CASE Life!UpgradeSwap(r) BY <2>1 DEF Life!UpgradeSwap
  <2>2. CASE Life!ApplyRuntime(r) BY <2>2 DEF Life!ApplyRuntime
  <2> QED BY <2>1, <2>2
<1>6. /\ DOMAIN task' = Requests
      /\ \A t \in Requests : /\ DOMAIN task'[t] = DOMAIN task[t]
                             /\ task'[t].at = task[t].at
                             /\ task'[t].stop = task[t].stop
                             /\ task'[t].gate = task[t].gate
  BY <1>5 DEF TaskInv, Shapes
<1>7. Moves(r) BY <1>2, <1>4, <1>6 DEF Moves
<1> QED BY <1>1, <1>2, <1>4, <1>7, Moving

\* An upgrade arrives.
LEMMA Upgrading ==
  ASSUME OneAtATime, TaskInv, NEW r \in Requests, NEW p, Life!UpgradeRequest(r, p)
  PROVE  TaskInv'
<1>1. \A s \in Requests : ~Life!Underway(s)
  BY DEF Life!UpgradeRequest, Life!Arrives, OneAtATime
<1> DEFINE a == IF control.of = Life!NoOne THEN "meta" ELSE "swap"
           q == [req[r] EXCEPT !.op = "upgrade", !.new = p, !.task = control.of, !.at = a]
<1>2. req' = [req EXCEPT ![r] = q] BY DEF Life!UpgradeRequest
<1>3. DOMAIN q = DOMAIN req[r] /\ q.at = a
  <2> HIDE DEF a
  <2> QED BY DEF TaskInv, Shapes
<1>4. a \in {"meta", "swap"} OBVIOUS
<1> HIDE DEF q, a
<1>5. req'[r] = q /\ \A s \in Requests \ {r} : req'[s] = req[s]
  BY <1>2 DEF TaskInv, Shapes
<1>6. DOMAIN req' = Requests BY <1>2 DEF TaskInv, Shapes
<1>7. UNCHANGED <<task, running, registered>> BY DEF Life!UpgradeRequest
<1>8. Shapes' BY <1>3, <1>5, <1>6, <1>7 DEF TaskInv, Shapes
<1> QED BY <1>1, <1>3, <1>4, <1>5, <1>7, <1>8, Arriving

\* A start spawns its task, or fails before it does.
LEMMA Building ==
  ASSUME OneAtATime, TaskInv, NEW r \in Requests, Life!StartBuild(r)
  PROVE  TaskInv'
<1>1. Life!Underway(r) /\ Life!At(r, "build") /\ running = Life!NoOne /\ running' = running
  BY DEF Life!StartBuild, Life!Underway, Life!At, TaskInv, InHand
<1>2. \A s \in Requests \ {r} : ~Life!Underway(s)
  BY <1>1 DEF TaskInv, OneUnderway
<1>3. DOMAIN req = Requests /\ {"at", "task", "ok"} \subseteq DOMAIN req[r]
      /\ DOMAIN task = Requests BY DEF TaskInv, Shapes
<1>4. CASE Life!Returns(r, FALSE) /\ UNCHANGED task
  <2>1. /\ DOMAIN req' = Requests /\ DOMAIN req'[r] = DOMAIN req[r]
        /\ \A s \in Requests \ {r} : req'[s] = req[s]
        /\ req'[r].at = "done"
    BY <1>3, <1>4 DEF Life!Returns
  <2>2. Moves(r) BY <1>1, <1>3, <1>4, <2>1 DEF Moves
  <2>3. ~Life!At(r, "insert") /\ ~Life!At(r, "join") BY <1>1 DEF Life!At
  <2> QED BY <1>1, <2>1, <2>2, <2>3, Moving
<1>5. CASE /\ registered' = IF registered = Life!NoOne THEN r ELSE registered
           /\ task' = [task EXCEPT ![r] =
                [Life!NoTask EXCEPT !.at = "live", !.gate = registered',
                                    !.run = Life!Built(req[r].def)]]
           /\ req' = [req EXCEPT ![r].at = "insert", ![r].task = r]
  <2> DEFINE b == Life!Built(req[r].def)
             k == [Life!NoTask EXCEPT !.at = "live", !.gate = registered', !.run = b]
  <2>0. task' = [task EXCEPT ![r] = k] BY <1>5
  <2>1. DOMAIN k = {"at", "stop", "gate", "run"} /\ k.at = "live" /\ k.gate = registered'
    <3> HIDE DEF b
    <3> QED BY DEF Life!NoTask
  <2> HIDE DEF k
  <2>2. /\ DOMAIN req' = Requests /\ DOMAIN req'[r] = DOMAIN req[r]
        /\ \A s \in Requests \ {r} : req'[s] = req[s]
        /\ req'[r].at = "insert" /\ req'[r].task = r
    BY <1>3, <1>5
  <2>3. DOMAIN task' = Requests /\ task'[r] = k /\ \A s \in Requests \ {r} : task'[s] = task[s]
    BY <1>3, <2>0
  <2>4. Shapes' BY <1>1, <2>1, <2>2, <2>3 DEF TaskInv, Shapes
  <2>5. \A s \in Requests \ {r} : ~Life!Underway(s)' BY <1>2, <2>2 DEF Life!Underway
  <2>6. OneUnderway' BY <2>5 DEF OneUnderway
  <2>7. \A s \in Requests \ {r} :
          ~Life!At(s, "build")' /\ ~Life!At(s, "insert")' /\ ~Life!At(s, "join")'
    BY <2>5 DEF Life!Underway, Life!At
  <2>8. InHand'
    BY <1>1, <2>1, <2>2, <2>3, <2>7 DEF InHand, Life!At
  <2>9. \A s \in Requests \ {r} : task[s].at # "live"
    <3> SUFFICES ASSUME NEW s \in Requests \ {r},
    task[s].at = "live" PROVE FALSE OBVIOUS
    <3>1. running # s BY <1>1 DEF OneAtATime
    <3>2. ~Life!At(s, "insert") BY <1>2 DEF Life!At, Life!Underway
    <3>3. \A u \in Requests : ~Life!At(u, "join")
      BY <1>1, <1>2 DEF Life!At, Life!Underway
    <3> QED BY <3>1, <3>2, <3>3 DEF TaskInv, Recorded
  <2>10. Recorded' BY <2>2, <2>3, <2>9 DEF Recorded, Life!At
  <2>11. SameGate' BY <1>1 DEF SameGate
  <2> QED BY <2>4, <2>6, <2>8, <2>10, <2>11 DEF TaskInv
<1> QED BY <1>4, <1>5 DEF Life!StartBuild

\* A start records its task.
LEMMA Inserting ==
  ASSUME OneAtATime, TaskInv, NEW r \in Requests, Life!StartInsert(r)
  PROVE  TaskInv'
<1>1. /\ Life!Underway(r) /\ Life!At(r, "insert") /\ running = Life!NoOne
      /\ task[r].gate = registered
  BY DEF Life!StartInsert, Life!Underway, Life!At, TaskInv, InHand
<1>2. running' = r /\ UNCHANGED <<task, registered>> BY DEF Life!StartInsert
<1>3. /\ DOMAIN req' = Requests /\ DOMAIN req'[r] = DOMAIN req[r]
      /\ \A s \in Requests \ {r} : req'[s] = req[s]
      /\ req'[r].at = "install"
  BY DEF TaskInv, Shapes, Life!StartInsert, Life!Goes
<1>4. Shapes' BY <1>2, <1>3 DEF TaskInv, Shapes
<1>5. \A s \in Requests \ {r} : ~Life!Underway(s) /\ ~Life!Underway(s)'
  BY <1>1, <1>3 DEF TaskInv, OneUnderway, Life!Underway
<1>6. OneUnderway' BY <1>5 DEF OneUnderway
<1>7. \A s \in Requests :
         ~Life!At(s, "build")' /\ ~Life!At(s, "insert")' /\ ~Life!At(s, "join")'
  BY <1>3, <1>5 DEF Life!Underway, Life!At
<1>8. InHand' BY <1>7 DEF InHand
<1>9. \A s \in Requests : ~Life!At(s, "join") /\ (s # r => ~Life!At(s, "insert"))
  BY <1>1, <1>5 DEF Life!Underway, Life!At
<1>10. Recorded'
  <2> SUFFICES ASSUME NEW t \in Requests, task[t].at = "live" PROVE t = r
    BY <1>2 DEF Recorded
  <2>1. running # t BY <1>1 DEF OneAtATime
  <2> QED BY <1>9, <2>1 DEF TaskInv, Recorded
<1>11. SameGate' BY <1>1, <1>2 DEF SameGate
<1> QED BY <1>4, <1>6, <1>8, <1>10, <1>11 DEF TaskInv

\* A stop takes the recorded task and tells it to end.
LEMMA Removing ==
  ASSUME OneAtATime, TaskInv, NEW r \in Requests, Life!StopRemove(r)
  PROVE  TaskInv'
<1>1. Life!Underway(r) /\ ~Life!At(r, "insert") /\ ~Life!At(r, "join")
  BY DEF Life!StopRemove, Life!Underway, Life!At
<1>2. running' = Life!NoOne /\ registered' = registered BY DEF Life!StopRemove
<1> DEFINE a == IF running = Life!NoOne THEN "uninstall" ELSE "join"
<1>3. req' = [req EXCEPT ![r].task = running, ![r].at = a] BY DEF Life!StopRemove
<1>4. a \in {"uninstall", "join"} /\ (a = "uninstall" => running = Life!NoOne) OBVIOUS
<1> HIDE DEF a
<1>5. /\ DOMAIN req' = Requests /\ DOMAIN req'[r] = DOMAIN req[r]
      /\ \A s \in Requests \ {r} : req'[s] = req[s]
      /\ req'[r].at = a /\ req'[r].task = running
  BY <1>3 DEF TaskInv, Shapes
<1>6. /\ DOMAIN task' = Requests
      /\ \A t \in Requests : /\ DOMAIN task'[t] = DOMAIN task[t]
                             /\ task'[t].at = task[t].at /\ task'[t].gate = task[t].gate
                             /\ task'[t].stop = IF t = running THEN TRUE ELSE task[t].stop
  BY DEF Life!StopRemove, TaskInv, Shapes
<1>7. Shapes'
  <2>1. \A t \in Requests : {"at", "stop", "gate", "run"} \subseteq DOMAIN task'[t]
    BY <1>6 DEF TaskInv, Shapes
  <2> QED BY <1>2, <1>5, <1>6, <2>1 DEF TaskInv, Shapes
<1>8. \A s \in Requests \ {r} : ~Life!Underway(s) /\ ~Life!Underway(s)'
  BY <1>1, <1>5 DEF TaskInv, OneUnderway, Life!Underway
<1>9. OneUnderway' BY <1>8 DEF OneUnderway
<1>10. \A s \in Requests : ~Life!At(s, "build")' /\ ~Life!At(s, "insert")'
  BY <1>4, <1>5, <1>8 DEF Life!Underway, Life!At
<1>11. InHand' BY <1>2, <1>10 DEF InHand
<1>12. \A s \in Requests : ~Life!At(s, "insert") /\ ~Life!At(s, "join")
  BY <1>1, <1>8 DEF Life!At, Life!Underway
<1>13. Recorded'
  <2> SUFFICES ASSUME NEW t \in Requests, task'[t].at = "live"
               PROVE  task'[t].stop /\ Life!At(r, "join")' /\ req'[r].task = t
    BY DEF Recorded
  <2>1. running = t BY <1>6, <1>12 DEF TaskInv, Recorded
  <2>2. a = "join" BY <1>4, <2>1 DEF OneAtATime
  <2> QED BY <1>5, <1>6, <2>1, <2>2 DEF Life!At
<1>14. SameGate' BY <1>2 DEF SameGate
<1> QED BY <1>7, <1>9, <1>11, <1>13, <1>14 DEF TaskInv

\* A stop has seen its task end: no task is left, and the gate goes.
LEMMA Joining ==
  ASSUME OneAtATime, TaskInv, NEW r \in Requests, Life!StopJoin(r)
  PROVE  TaskInv'
<1>1. /\ Life!Underway(r) /\ Life!At(r, "join") /\ running = Life!NoOne
      /\ task[req[r].task].at = "ended"
  BY DEF Life!StopJoin, Life!Underway, Life!At, TaskInv, InHand
<1>2. UNCHANGED <<task, running>> BY DEF Life!StopJoin
<1>3. /\ DOMAIN req' = Requests /\ DOMAIN req'[r] = DOMAIN req[r]
      /\ \A s \in Requests \ {r} : req'[s] = req[s]
      /\ req'[r].at = "uninstall"
  BY DEF TaskInv, Shapes, Life!StopJoin, Life!Goes
<1>4. Shapes' BY <1>2, <1>3 DEF TaskInv, Shapes
<1>5. \A s \in Requests \ {r} : ~Life!Underway(s) /\ ~Life!Underway(s)'
  BY <1>1, <1>3 DEF TaskInv, OneUnderway, Life!Underway
<1>6. OneUnderway' BY <1>5 DEF OneUnderway
<1>7. \A s \in Requests :
         ~Life!At(s, "build")' /\ ~Life!At(s, "insert")' /\ ~Life!At(s, "join")'
  BY <1>3, <1>5 DEF Life!Underway, Life!At
<1>8. InHand' BY <1>7 DEF InHand
<1>9. \A s \in Requests : ~Life!At(s, "insert") /\ (s # r => ~Life!At(s, "join"))
  BY <1>1, <1>5 DEF Life!Underway, Life!At
<1>10. \A t \in Requests : task[t].at # "live"
  <2> SUFFICES ASSUME NEW t \in Requests, task[t].at = "live" PROVE FALSE OBVIOUS
  <2>1. running # t BY <1>1 DEF OneAtATime
  <2>2. req[r].task = t BY <1>9, <2>1 DEF TaskInv, Recorded
  <2> QED BY <1>1, <2>2
<1>11. Recorded' BY <1>2, <1>10 DEF Recorded
<1>12. SameGate' BY <1>1, <1>2 DEF SameGate
<1> QED BY <1>4, <1>6, <1>8, <1>11, <1>12 DEF TaskInv

\* A task ends, told to or by itself.
LEMMA Ending ==
  ASSUME OneAtATime, TaskInv, NEW t \in Requests, Life!TaskEnds(t)
  PROVE  TaskInv'
<1>1. UNCHANGED <<running, registered, req>> BY DEF Life!TaskEnds
<1>2. /\ DOMAIN task' = Requests
      /\ \A s \in Requests : /\ DOMAIN task'[s] = DOMAIN task[s]
                             /\ task'[s].at = "live" => task[s].at = "live"
                             /\ task'[s].stop = task[s].stop /\ task'[s].gate = task[s].gate
  BY DEF Life!TaskEnds, TaskInv, Shapes
<1>3. Shapes' BY <1>1, <1>2 DEF TaskInv, Shapes
<1>4. OneUnderway' BY <1>1 DEF TaskInv, OneUnderway, Life!Underway
<1>5. InHand' BY <1>1, <1>2 DEF TaskInv, InHand, Life!At
<1>6. Recorded' BY <1>1, <1>2 DEF TaskInv, Recorded, Life!At
<1>7. SameGate' BY <1>1, <1>2 DEF TaskInv, SameGate, Shapes
<1> QED BY <1>3, <1>4, <1>5, <1>6, <1>7 DEF TaskInv

\* A request that brings no processor arrives.
Plain(r) ==
  \/ Life!CreateRequest(r) \/ Life!ReconfigureRequest(r) \/ Life!DeleteRequest(r)
  \/ Life!StartRequest(r) \/ Life!StopRequest(r)
  \/ Life!CutoverRequest(r) \/ Life!RollbackRequest(r) \/ Life!PromoteRequest(r)

\* Every step keeps the invariant.
LEMMA TaskStep ==
  ASSUME OneAtATime, TaskInv, [Life!Next]_(Life!vars)
  PROVE  TaskInv'
<1>1. CASE UNCHANGED Life!vars
  BY <1>1 DEF Life!vars, TaskInv, Shapes, OneUnderway, Life!Underway, InHand, Life!At,
              Recorded, SameGate
<1>2. CASE \E r \in Requests : Plain(r)
  <2> PICK r \in Requests : Plain(r)
    BY <1>2
  <2>1. CASE Life!CreateRequest(r) BY <2>1, Declaring DEF Life!CreateRequest
  <2>2. CASE Life!ReconfigureRequest(r) BY <2>2, Declaring DEF Life!ReconfigureRequest
  <2>3. CASE Life!DeleteRequest(r) BY <2>3, Declaring DEF Life!DeleteRequest
  <2>4. CASE Life!StartRequest(r) BY <2>4, Declaring DEF Life!StartRequest
  <2>5. CASE Life!StopRequest(r) BY <2>5, Declaring DEF Life!StopRequest
  <2>6. CASE Life!CutoverRequest(r) BY <2>6, Declaring DEF Life!CutoverRequest
  <2>7. CASE Life!RollbackRequest(r) BY <2>7, Declaring DEF Life!RollbackRequest
  <2>8. CASE Life!PromoteRequest(r) BY <2>8, Declaring DEF Life!PromoteRequest
  <2> QED BY <2>1, <2>2, <2>3, <2>4, <2>5, <2>6, <2>7, <2>8 DEF Plain
<1>3. CASE \E r \in Requests, p \in Processors :
              Life!UpgradeRequest(r, p) \/ Life!BlueGreenRequest(r,
              p) \/ Life!CanaryRequest(r, p)
  <2> PICK r \in Requests, p \in Processors :
             Life!UpgradeRequest(r, p) \/ Life!BlueGreenRequest(r,
             p) \/ Life!CanaryRequest(r, p)
    BY <1>3
  <2>1. CASE Life!UpgradeRequest(r, p) BY <2>1, Upgrading
  <2>2. CASE Life!BlueGreenRequest(r, p) BY <2>2, Declaring DEF Life!BlueGreenRequest
  <2>3. CASE Life!CanaryRequest(r, p) BY <2>3, Declaring DEF Life!CanaryRequest
  <2> QED BY <2>1, <2>2, <2>3
<1>4. CASE \E r \in Requests : Life!Handler(r)
  BY <1>4, Passing, Calling, Building, Inserting, Removing, Joining DEF Life!Handler
<1>5. CASE \E t \in Requests : Life!TaskEnds(t) BY <1>5, Ending
<1> QED BY <1>1, <1>2, <1>3, <1>4, <1>5 DEF Life!Next, Plain

\* Every live task can be stopped, there is one at most, and a cutover finds
\* the gate of the recorded task in the registry.
TasksOwned == Life!NoOrphan /\ Life!OneTask /\ Life!GateRegistered

\* The invariant says who owns every live task.
LEMMA Owning ==
  ASSUME OneAtATime, TaskInv
  PROVE  TasksOwned
<1>1. Life!NoOrphan BY DEF TaskInv, Recorded, InHand, Life!NoOrphan, Life!Live
<1>2. Life!GateRegistered BY DEF TaskInv, SameGate, Life!GateRegistered, Life!Live
<1>3. Life!OneTask
  <2> SUFFICES ASSUME NEW s \in Requests, NEW t \in Requests, Life!Live(s),
  Life!Live(t) PROVE s = t
    BY DEF Life!OneTask
  <2>1. task[s].at = "live" /\ task[t].at = "live" BY DEF Life!Live
  <2>2. \A u, v \in Requests : /\ Life!At(u, "insert") /\ Life!At(v, "insert") => u = v
                               /\ Life!At(u, "join") /\ Life!At(v, "join") => u = v
                               /\ ~(Life!At(u, "insert") /\ Life!At(v, "join"))
    BY DEF TaskInv, OneUnderway, Life!Underway, Life!At
  <2>3. \A u \in Requests :
          Life!At(u, "insert") \/ Life!At(u, "join") => running = Life!NoOne
    BY DEF TaskInv, InHand
  <2> QED BY <2>1, <2>2, <2>3 DEF TaskInv, Recorded, OneAtATime
<1> QED BY <1>1, <1>2, <1>3 DEF TasksOwned

\* start_pipeline and stop_pipeline lose no task, for any number of requests of
\* all kinds made one after the other, although builds fail before or after
\* the gate is registered and tasks end by themselves.
THEOREM TasksAreOwned ==
  ASSUME OneAtATime
  PROVE  Life!Spec => []TasksOwned
<1>1. Life!Init => TaskInv BY TasksInit
<1>2. TaskInv /\ [Life!Next]_(Life!vars) => TaskInv' BY TaskStep
<1>3. TaskInv => TasksOwned BY Owning
<1> QED BY <1>1, <1>2, <1>3, PTL DEF Life!Spec

-----------------------------------------------------------------------------
(* The tasks of a pipeline: the definition is served.                       *)

\* Pipelines are created, started, stopped, swapped and deleted, nothing
\* fails, and a task ends only when it is told to.
StartsAndSwaps ==
  /\ OneAtATime /\ MayFail = FALSE /\ MayEnd = FALSE
  /\ Ops \subseteq {"create", "start", "stop", "upgrade", "delete"}

\* Definitions without an upgrade in progress.
PlainDefinitions ==
  [state : {"absent", "created", "running", "stopped"},
   proc : Processors \cup {First, Life!None},
   up : {Life!NoUpgrade}, conf : Nat]

\* The fields of the definition, of the handle and of what tasks run.
Fields ==
  /\ pipe \in PlainDefinitions
  /\ DOMAIN control = {"of", "held"}
  /\ \A r \in Requests : {"at", "task", "ok", "def", "new"} \subseteq DOMAIN req[r]
  /\ \A t \in Requests : DOMAIN task[t].run = {"proc", "green", "canary", "pct", "conf"}

\* The recorded task is live and runs one processor.
RunsOne ==
  running # Life!NoOne =>
    task[running].at = "live" /\ ~task[running].stop /\ task[running].run.canary = Life!None

\* What a request that is under way has found and made so far.
Place(r) ==
  /\ req[r].at \in {"new", "read", "check", "build", "insert", "install", "remove", "join",
                    "uninstall", "swap", "meta", "done"}
  /\ req[r].at \in {"read", "check", "build", "insert", "install"} => pipe.state = "running"
  /\ req[r].at \in {"check", "build"} => req[r].def = pipe
  /\ Life!At(r, "insert") => /\ task[r].at = "live" /\ ~task[r].stop
                             /\ task[r].run.canary = Life!None /\ task[r].run.proc = pipe.proc
  /\ Life!At(r, "install") => running # Life!NoOne /\ req[r].task = running
  /\ req[r].at \in {"remove", "join", "uninstall"} => pipe.state \in {"stopped", "created"}
  /\ Life!At(r, "uninstall") => running = Life!NoOne
  /\ req[r].at \in {"swap", "meta"} => req[r].new \in Processors
  /\ Life!At(r, "swap") => running # Life!NoOne /\ req[r].task = running
  /\ Life!At(r, "meta") => /\ req[r].task = running
                           /\ running # Life!NoOne => task[running].run.proc = req[r].new

\* Between starts and stops the recorded task, the control handle and the
\* state of the definition go together.
Together ==
  (\A r \in Requests : req[r].at \in {"new", "done", "swap", "meta"}) =>
    (pipe.state = "running" <=> running # Life!NoOne) /\ control.of = running

\* The recorded task runs the declared processor, but after a swap whose
\* definition is not yet written.
Serves ==
  running # Life!NoOne /\ (\A r \in Requests : ~Life!At(r, "meta")) =>
    task[running].run.proc = pipe.proc

\* The inductive invariant of definition and tasks.
ConvInv == TaskInv /\ Fields /\ RunsOne /\ (\A r \in Requests : Place(r)) /\ Together /\ Serves

---------------------------------------------------------------------------

\* At first the pipeline is absent and nothing runs.
LEMMA ConvInit ==
  ASSUME StartsAndSwaps, Life!Init
  PROVE  ConvInv
<1>1. TaskInv BY TasksInit DEF StartsAndSwaps
<1>2. Fields BY DEF Life!Init, Fields, PlainDefinitions, Life!Absent, Life!NoTask,
                    Life!NoProcessors
<1>3. RunsOne /\ Together /\ Serves
  BY DEF Life!Init, RunsOne, Together, Serves, Life!Absent
<1>4. \A r \in Requests : Place(r) BY DEF Life!Init, Place, Life!At
<1> QED BY <1>1, <1>2, <1>3, <1>4 DEF ConvInv

\* While a request is under way the others have not begun or have ended.
LEMMA Alone ==
  ASSUME ConvInv, NEW r \in Requests, Life!Underway(r)
  PROVE  \A s \in Requests \ {r} : req[s].at \in {"new", "done"}
  BY DEF ConvInv, TaskInv, OneUnderway, Life!Underway

\* A request that has not begun or has ended promises nothing.
LEMMA Idle ==
  ASSUME NEW s \in Requests, req[s].at \in {"new", "done"}
  PROVE  Place(s)
  BY DEF Place, Life!At

\* The parts of the invariant that a step of request r establishes.
LEMMA Assembling ==
  ASSUME NEW r \in Requests, TaskInv', Fields', RunsOne', Place(r)', Together', Serves',
         \A s \in Requests \ {r} : req[s].at \in {"new", "done"} /\ req'[s] = req[s]
  PROVE  ConvInv'
<1>1. \A s \in Requests \ {r} : Place(s)' BY DEF Place, Life!At
<1> QED BY <1>1 DEF ConvInv


\* A request arrives.
LEMMA ConvDeclare ==
  ASSUME StartsAndSwaps, ConvInv, NEW r \in Requests, TaskInv',
         NEW op, NEW p, NEW o, NEW a \in {"read", "remove", "done"},
         Life!Arrives(r, op), Life!Declare(r, op, p, o, a), UNCHANGED <<task, running,
         control>>,
         o.def \in PlainDefinitions,
         o.ok /\ a = "read" => o.def.state = "running",
         o.ok /\ a = "remove" => o.def.state \in {"stopped", "created"},
         ~o.ok \/ a = "done" => (o.def.state = "running" <=> pipe.state = "running"),
         running # Life!NoOne => o.def.proc = pipe.proc
  PROVE  ConvInv'
<1>1. \A s \in Requests : req[s].at \in {"new", "done"}
  BY DEF Life!Arrives, StartsAndSwaps, OneAtATime, Life!Underway
<1> DEFINE b == IF o.ok THEN a ELSE "done"
           n == IF a = "record" THEN o.hist ELSE <<>>
           q == [req[r] EXCEPT !.op = op, !.new = p, !.ok = o.ok, !.at = b, !.note = n]
<1>2. req' = [req EXCEPT ![r] = q] BY DEF Life!Declare
<1>3. DOMAIN q = DOMAIN req[r] /\ q.at = b
  <2> HIDE DEF b, n
  <2> QED BY DEF ConvInv, Fields, PlainDefinitions
<1>4. \/ b = "done" /\ (~o.ok \/ a = "done")
      \/ b = "read" /\ o.ok /\ a = "read"
      \/ b = "remove" /\ o.ok /\ a = "remove"
  <2>1. CASE o.ok BY <2>1
  <2>2. CASE ~o.ok BY <2>2
  <2> QED BY <2>1, <2>2
<1> HIDE DEF q, n, b
<1>5. /\ req'[r] = q /\ \A s \in Requests \ {r} : req'[s] = req[s]
  BY <1>2 DEF ConvInv, TaskInv, Shapes
<1>6. pipe' = o.def BY DEF Life!Declare
<1>7. Fields' BY <1>3, <1>5, <1>6 DEF ConvInv, Fields, PlainDefinitions
<1>8. RunsOne' BY DEF ConvInv, RunsOne
<1>9. (pipe.state = "running" <=> running # Life!NoOne) /\ control.of = running
  BY <1>1 DEF ConvInv, Together
<1>10. Place(r)' BY <1>3, <1>4, <1>5, <1>6 DEF Place, Life!At
<1>11. Together' BY <1>3, <1>4, <1>5, <1>6, <1>9 DEF Together
<1>12. Serves'
  <2>1. running # Life!NoOne => task[running].run.proc = pipe.proc
    BY <1>1 DEF ConvInv, Serves, Life!At
  <2> QED BY <1>6, <2>1 DEF Serves
<1> QED BY <1>1, <1>5, <1>7, <1>8, <1>10, <1>11, <1>12, Assembling

\* create, delete, start and stop change the definition as that step asks.
LEMMA ConvRequest ==
  ASSUME StartsAndSwaps, ConvInv, NEW r \in Requests, TaskInv',
         Life!CreateRequest(r) \/ Life!DeleteRequest(r)
           \/ Life!StartRequest(r) \/ Life!StopRequest(r)
  PROVE  ConvInv'
<1>1. \A s \in Requests : req[s].at \in {"new", "done"}
  BY DEF Life!Arrives, StartsAndSwaps, OneAtATime, Life!Underway, Life!CreateRequest,
         Life!DeleteRequest,
         Life!StartRequest, Life!StopRequest
<1>2. pipe.state = "running" <=> running # Life!NoOne BY <1>1 DEF ConvInv, Together
<1>3. /\ pipe \in PlainDefinitions
      /\ pipe.state \in {"absent", "created", "running", "stopped"}
  BY DEF ConvInv, Fields, PlainDefinitions
<1>4. CASE Life!CreateRequest(r)
  <2>1. /\ Life!Create(pipe, First).def \in PlainDefinitions
        /\ (Life!Create(pipe, First).def.state = "running" <=> pipe.state = "running")
        /\ running # Life!NoOne => Life!Create(pipe, First).def.proc = pipe.proc
    BY <1>2, <1>3 DEF Life!Create, Life!Ok, Life!Err, Life!New, PlainDefinitions
  <2> QED BY <1>4, <2>1, ConvDeclare DEF Life!CreateRequest
<1>5. CASE Life!DeleteRequest(r)
  <2>1. /\ Life!Delete(pipe).def \in PlainDefinitions
        /\ (Life!Delete(pipe).def.state = "running" <=> pipe.state = "running")
        /\ running # Life!NoOne => Life!Delete(pipe).def.proc = pipe.proc
    BY <1>2, <1>3 DEF Life!Delete, Life!Ok, Life!Err, Life!Absent, PlainDefinitions
  <2> QED BY <1>5, <2>1, ConvDeclare DEF Life!DeleteRequest
<1>6. CASE Life!StartRequest(r)
  <2>1. /\ Life!Start(pipe).def \in PlainDefinitions
        /\ Life!Start(pipe).ok => Life!Start(pipe).def.state = "running"
        /\ ~Life!Start(pipe).ok => Life!Start(pipe).def = pipe
        /\ Life!Start(pipe).def.proc = pipe.proc
    BY <1>3 DEF Life!Start, Life!Ok, Life!Err, PlainDefinitions
  <2> QED BY <1>6, <2>1, ConvDeclare DEF Life!StartRequest
<1>7. CASE Life!StopRequest(r)
  <2>1. /\ Life!Stop(pipe).def \in PlainDefinitions
        /\ Life!Stop(pipe).ok => Life!Stop(pipe).def.state \in {"stopped", "created"}
        /\ ~Life!Stop(pipe).ok => Life!Stop(pipe).def = pipe
        /\ Life!Stop(pipe).def.proc = pipe.proc
    BY <1>3 DEF Life!Stop, Life!Ok, Life!Err, PlainDefinitions
  <2> QED BY <1>7, <2>1, ConvDeclare DEF Life!StopRequest
<1> QED BY <1>4, <1>5, <1>6, <1>7

\* An upgrade finds the handle of the recorded task, or none.
LEMMA ConvUpgradeRequest ==
  ASSUME StartsAndSwaps, ConvInv, NEW r \in Requests, TaskInv', NEW p \in Processors,
  Life!UpgradeRequest(r, p)
  PROVE  ConvInv'
<1>1. \A s \in Requests : req[s].at \in {"new", "done"}
  BY DEF Life!Arrives, StartsAndSwaps, OneAtATime, Life!Underway, Life!UpgradeRequest
<1>2. (pipe.state = "running" <=> running # Life!NoOne) /\ control.of = running
  BY <1>1 DEF ConvInv, Together
<1> DEFINE a == IF control.of = Life!NoOne THEN "meta" ELSE "swap"
           q == [req[r] EXCEPT !.op = "upgrade", !.new = p, !.task = control.of, !.at = a]
<1>3. req' = [req EXCEPT ![r] = q] BY DEF Life!UpgradeRequest
<1>4. DOMAIN q = DOMAIN req[r] /\ q.at = a /\ q.task = control.of /\ q.new = p
  <2> HIDE DEF a
  <2> QED BY DEF ConvInv, Fields, PlainDefinitions
<1>5. \/ a = "meta" /\ running = Life!NoOne
      \/ a = "swap" /\ running # Life!NoOne
  BY <1>2
<1> HIDE DEF q, a
<1>6. /\ req'[r] = q /\ \A s \in Requests \ {r} : req'[s] = req[s]
  BY <1>3 DEF ConvInv, TaskInv, Shapes
<1>7. UNCHANGED <<pipe, task, running>> BY DEF Life!UpgradeRequest
<1>8. DOMAIN control' = {"of", "held"} /\ control'.of = control.of
  BY DEF Life!UpgradeRequest, ConvInv, Fields, PlainDefinitions
<1>9. Fields' BY <1>4, <1>6, <1>7, <1>8 DEF ConvInv, Fields, PlainDefinitions
<1>10. RunsOne' BY <1>7 DEF ConvInv, RunsOne
<1>11. Place(r)' BY <1>2, <1>4, <1>5, <1>6, <1>7 DEF Place, Life!At
<1>12. Together' BY <1>2, <1>7, <1>8 DEF Together
<1>13. Serves'
  <2>1. running # Life!NoOne => task[running].run.proc = pipe.proc
    BY <1>1 DEF ConvInv, Serves, Life!At
  <2> QED BY <1>7, <2>1 DEF Serves
<1> QED BY <1>1, <1>6, <1>9, <1>10, <1>11, <1>12, <1>13, Assembling

\* start_pipeline, from the look at the definition to the handle.
LEMMA ConvStart ==
  ASSUME StartsAndSwaps, ConvInv, NEW r \in Requests, TaskInv',
         Life!StartRead(r) \/ Life!StartCheck(r) \/ Life!StartBuild(r)
           \/ Life!StartInsert(r) \/ Life!StartInstall(r)
  PROVE  ConvInv'
<1> USE DEF Life!At
<1>1. Life!Underway(r)
  BY DEF Life!Underway, Life!StartRead, Life!StartCheck, Life!StartBuild,
         Life!StartInsert, Life!StartInstall
<1>2. \A s \in Requests \ {r} : req[s].at \in {"new", "done"} BY <1>1, Alone
<1>3. /\ Place(r) /\ Fields /\ RunsOne /\ Serves /\ TaskInv /\ Shapes
      /\ pipe.state = "running" /\ pipe' = pipe
  BY DEF ConvInv, TaskInv, Place, Life!StartRead, Life!StartCheck, Life!StartBuild,
         Life!StartInsert, Life!StartInstall
<1>4. running # Life!NoOne => task[running].run.proc = pipe.proc
  BY <1>2, <1>3 DEF Serves, Life!StartRead, Life!StartCheck, Life!StartBuild,
                    Life!StartInsert, Life!StartInstall
<1>5. CASE Life!StartRead(r)
  <2> DEFINE q == [req[r] EXCEPT !.def = pipe, !.ok = TRUE, !.at = "check"]
  <2>1. req' = [req EXCEPT ![r] = q] BY <1>3, <1>5 DEF Life!StartRead
  <2>2. DOMAIN q = DOMAIN req[r] /\ q.at = "check" /\ q.def = pipe
    BY <1>3 DEF Fields, PlainDefinitions
  <2> HIDE DEF q
  <2>3. req'[r] = q /\ \A s \in Requests \ {r} : req'[s] = req[s]
    BY <2>1, <1>3 DEF Shapes
  <2>4. UNCHANGED <<task, running, control>> BY <1>5 DEF Life!StartRead
  <2>5. Fields' BY <1>3, <2>2, <2>3, <2>4 DEF Fields, PlainDefinitions
  <2>6. RunsOne' BY <1>3, <2>4 DEF RunsOne
  <2>7. Place(r)' BY <1>3, <2>2, <2>3 DEF Place
  <2>8. Together' /\ Serves' BY <1>3, <1>4, <2>2, <2>3, <2>4 DEF Together, Serves
  <2> QED BY <1>2, <2>3, <2>5, <2>6, <2>7, <2>8, Assembling
<1>6. CASE Life!StartCheck(r)
  <2> DEFINE a == IF running = Life!NoOne THEN "build" ELSE "install"
  <2>1. req' = [req EXCEPT ![r].task = running, ![r].at = a] BY <1>6 DEF Life!StartCheck
  <2>2. \/ a = "build" /\ running = Life!NoOne
        \/ a = "install" /\ running # Life!NoOne
    OBVIOUS
  <2> HIDE DEF a
  <2>3. /\ DOMAIN req'[r] = DOMAIN req[r] /\ req'[r].at = a /\ req'[r].task = running
        /\ req'[r].def = req[r].def /\ \A s \in Requests \ {r} : req'[s] = req[s]
    BY <2>1, <1>3 DEF Shapes, Fields, PlainDefinitions
  <2>4. UNCHANGED <<task, running, control>> BY <1>6 DEF Life!StartCheck
  <2>5. Fields' BY <1>3, <2>3, <2>4 DEF Fields, PlainDefinitions
  <2>6. RunsOne' BY <1>3, <2>4 DEF RunsOne
  <2>7. req[r].def = pipe BY <1>3, <1>6 DEF Place, Life!StartCheck
  <2>8. Place(r)' BY <1>3, <2>2, <2>3, <2>4, <2>7 DEF Place
  <2>9. Together' /\ Serves' BY <1>3, <1>4, <2>2, <2>3, <2>4 DEF Together, Serves
  <2> QED BY <1>2, <2>3, <2>5, <2>6, <2>8, <2>9, Assembling
<1>7. CASE Life!StartBuild(r)
  <2> DEFINE b == Life!Built(req[r].def)
             k == [Life!NoTask EXCEPT !.at = "live", !.gate = registered', !.run = b]
  <2>1. /\ task' = [task EXCEPT ![r] = k]
        /\ req' = [req EXCEPT ![r].at = "insert", ![r].task = r]
    BY <1>7 DEF Life!StartBuild, StartsAndSwaps
  <2>2. req[r].def = pipe /\ running = Life!NoOne
    BY <1>3, <1>7 DEF Place, Life!StartBuild, TaskInv, InHand
  <2>3. /\ DOMAIN b = {"proc", "green", "canary", "pct", "conf"}
        /\ b.canary = Life!None /\ b.proc = pipe.proc
    BY <2>2 DEF Life!Built, Life!NoProcessors
  <2>4. k.at = "live" /\ ~k.stop /\ k.run = b
    <3> HIDE DEF b
    <3> QED BY DEF Life!NoTask
  <2> HIDE DEF k, b
  <2>5. /\ DOMAIN req'[r] = DOMAIN req[r] /\ req'[r].at = "insert"
        /\ \A s \in Requests \ {r} : req'[s] = req[s]
    BY <2>1, <1>3 DEF Shapes, Fields, PlainDefinitions
  <2>6. task'[r] = k /\ \A s \in Requests \ {r} : task'[s] = task[s]
    BY <2>1, <1>3 DEF Shapes
  <2>7. UNCHANGED <<running, control>> BY <1>7 DEF Life!StartBuild
  <2>8. Fields' BY <1>3, <2>3, <2>4, <2>5, <2>6, <2>7 DEF Fields, PlainDefinitions
  <2>9. RunsOne' /\ Serves' BY <2>2, <2>7 DEF RunsOne, Serves
  <2>10. Place(r)' BY <1>3, <2>3, <2>4, <2>5, <2>6 DEF Place
  <2>11. Together' BY <2>5 DEF Together
  <2> QED BY <1>2, <2>5, <2>8, <2>9, <2>10, <2>11, Assembling
<1>8. CASE Life!StartInsert(r)
  <2>1. UNCHANGED <<task, control>> /\ running' = r BY <1>8 DEF Life!StartInsert
  <2>2. /\ DOMAIN req'[r] = DOMAIN req[r]
        /\ req'[r].at = "install" /\ req'[r].task = req[r].task
        /\ \A s \in Requests \ {r} : req'[s] = req[s]
    BY <1>3, <1>8 DEF Shapes, Fields, PlainDefinitions, Life!StartInsert, Life!Goes
  <2>3. /\ task[r].at = "live" /\ ~task[r].stop /\ task[r].run.canary = Life!None
        /\ task[r].run.proc = pipe.proc /\ req[r].task = r
    BY <1>3, <1>8 DEF Place, Life!StartInsert, TaskInv, InHand
  <2>4. Fields' BY <1>3, <2>1, <2>2 DEF Fields, PlainDefinitions
  <2>5. RunsOne' /\ Serves' BY <1>3, <2>1, <2>3 DEF RunsOne, Serves
  <2>6. Place(r)' BY <1>3, <2>1, <2>2, <2>3 DEF Place, StartsAndSwaps, OneAtATime
  <2>7. Together' BY <2>2 DEF Together
  <2> QED BY <1>2, <2>2, <2>4, <2>5, <2>6, <2>7, Assembling
<1>9. CASE Life!StartInstall(r)
  <2>1. UNCHANGED <<task, running>> BY <1>9 DEF Life!StartInstall
  <2>2. DOMAIN control' = {"of", "held"} /\ control'.of = req[r].task
    BY <1>3, <1>9 DEF Life!StartInstall, Fields, PlainDefinitions
  <2>3. /\ DOMAIN req'[r] = DOMAIN req[r] /\ req'[r].at = "done"
        /\ \A s \in Requests \ {r} : req'[s] = req[s]
    BY <1>3, <1>9 DEF Shapes, Fields, PlainDefinitions, Life!StartInstall, Life!Returns
  <2>4. running # Life!NoOne /\ req[r].task = running
    BY <1>3, <1>9 DEF Place, Life!StartInstall
  <2>5. Fields' BY <1>3, <2>1, <2>2, <2>3 DEF Fields, PlainDefinitions
  <2>6. RunsOne' /\ Serves' BY <1>3, <1>4, <2>1 DEF RunsOne, Serves
  <2>7. Place(r)' BY <2>3 DEF Place
  <2>8. Together' BY <1>3, <2>1, <2>2, <2>4 DEF Together
  <2> QED BY <1>2, <2>3, <2>5, <2>6, <2>7, <2>8, Assembling
<1> QED BY <1>5, <1>6, <1>7, <1>8, <1>9

\* stop_pipeline, from the running set to the handle.
LEMMA ConvStop ==
  ASSUME StartsAndSwaps, ConvInv, NEW r \in Requests, TaskInv',
         Life!StopRemove(r) \/ Life!StopJoin(r) \/ Life!StopUninstall(r)
  PROVE  ConvInv'
<1> USE DEF Life!At
<1>1. Life!Underway(r)
  BY DEF Life!Underway, Life!StopRemove, Life!StopJoin, Life!StopUninstall
<1>2. \A s \in Requests \ {r} : req[s].at \in {"new", "done"} BY <1>1, Alone
<1>3. /\ Place(r) /\ Fields /\ TaskInv /\ Shapes
      /\ pipe.state \in {"stopped", "created"} /\ pipe' = pipe
  BY DEF ConvInv, TaskInv, Place, Life!StopRemove, Life!StopJoin, Life!StopUninstall
<1>4. running' = Life!NoOne
  BY <1>3 DEF Life!StopRemove, Life!StopJoin, Life!StopUninstall, TaskInv, InHand, Place
<1>5. RunsOne' /\ Serves' BY <1>4 DEF RunsOne, Serves
<1>6. /\ DOMAIN control' = {"of", "held"}
      /\ \A t \in Requests : DOMAIN task'[t].run = {"proc", "green", "canary", "pct", "conf"}
  <2>1. \A t \in Requests : task'[t].run = task[t].run
    <3>1. CASE Life!StopRemove(r) BY <1>3, <3>1 DEF Shapes, Life!StopRemove
    <3> QED BY <3>1 DEF Life!StopJoin, Life!StopUninstall
  <2>2. DOMAIN control' = {"of", "held"}
    BY <1>3 DEF Fields, PlainDefinitions, Life!StopRemove, Life!StopJoin,
                Life!StopUninstall
  <2> QED BY <1>3, <2>1, <2>2 DEF Fields, PlainDefinitions
<1>7. /\ DOMAIN req'[r] = DOMAIN req[r] /\ req'[r].at \in {"join", "uninstall", "done"}
      /\ \A s \in Requests \ {r} : req'[s] = req[s]
  <2>1. CASE Life!StopRemove(r)
    <3> DEFINE a == IF running = Life!NoOne THEN "uninstall" ELSE "join"
    <3>1. req' = [req EXCEPT ![r].task = running, ![r].at = a]
      BY <2>1 DEF Life!StopRemove
    <3>2. a \in {"uninstall", "join"} OBVIOUS
    <3> HIDE DEF a
    <3> QED BY <1>3, <3>1, <3>2 DEF Shapes
  <2>2. CASE Life!StopJoin(r) BY <1>3, <2>2 DEF Life!StopJoin, Life!Goes, Shapes
  <2>3. CASE Life!StopUninstall(r)
    BY <1>3, <2>3 DEF Life!StopUninstall, Life!Returns, Shapes
  <2> QED BY <2>1, <2>2, <2>3
<1>8. req'[r].at = "done" => control'.of = Life!NoOne
  <2>1. CASE Life!StopUninstall(r)
    BY <1>3, <2>1 DEF Life!StopUninstall, Fields, PlainDefinitions
  <2>2. CASE Life!StopJoin(r) BY <1>3, <2>2 DEF Life!StopJoin, Life!Goes, Shapes
  <2>3. CASE Life!StopRemove(r)
    <3> DEFINE a == IF running = Life!NoOne THEN "uninstall" ELSE "join"
    <3>1. req' = [req EXCEPT ![r].task = running, ![r].at = a]
      BY <2>3 DEF Life!StopRemove
    <3>2. a # "done" OBVIOUS
    <3> HIDE DEF a
    <3> QED BY <1>3, <3>1, <3>2 DEF Shapes
  <2> QED BY <2>1, <2>2, <2>3
<1>9. Fields' BY <1>3, <1>6, <1>7 DEF Fields, PlainDefinitions
<1>10. Place(r)' BY <1>3, <1>4, <1>7 DEF Place
<1>11. Together' BY <1>3, <1>4, <1>7, <1>8 DEF Together
<1> QED BY <1>2, <1>5, <1>7, <1>9, <1>10, <1>11, Assembling

\* drain_and_swap replaces the processor of the recorded task.
LEMMA ConvSwap ==
  ASSUME StartsAndSwaps, ConvInv, NEW r \in Requests, TaskInv', Life!UpgradeSwap(r)
  PROVE  ConvInv'
<1> USE DEF Life!At
<1>1. Life!Underway(r) BY DEF Life!Underway, Life!UpgradeSwap
<1>2. \A s \in Requests \ {r} : req[s].at \in {"new", "done"} BY <1>1, Alone
<1>3. Place(r) /\ Fields /\ RunsOne /\ TaskInv /\ Shapes BY DEF ConvInv, TaskInv
<1>4. /\ running # Life!NoOne /\ req[r].task = running /\ running \in Requests
      /\ req[r].new \in Processors
  BY <1>3 DEF Life!UpgradeSwap, Place, Shapes
<1>5. (pipe.state = "running" <=> running # Life!NoOne) /\ control.of = running
  BY <1>2 DEF ConvInv, Together, Life!UpgradeSwap
<1>6. /\ UNCHANGED <<pipe, running, control>>
      /\ task' = [task EXCEPT ![req[r].task].run = Life!Swapped(@, req[r].new)]
      /\ Life!Goes(r, "meta")
  BY DEF Life!UpgradeSwap, StartsAndSwaps
<1>7. /\ DOMAIN req'[r] = DOMAIN req[r] /\ req'[r].at = "meta"
      /\ req'[r].task = req[r].task /\ req'[r].new = req[r].new
      /\ \A s \in Requests \ {r} : req'[s] = req[s]
  BY <1>3, <1>6 DEF Life!Goes, Shapes, Fields, PlainDefinitions
<1> DEFINE t == running
           x == Life!Swapped(task[t].run, req[r].new)
<1>8. x.proc = req[r].new /\ x.canary = task[t].run.canary /\ DOMAIN x = DOMAIN task[t].run
  BY <1>3, <1>4 DEF Life!Swapped, Fields, PlainDefinitions
<1>9. task' = [task EXCEPT ![t].run = x] BY <1>4, <1>6
<1> HIDE DEF x
<1>10. /\ task'[t].at = task[t].at /\ task'[t].stop = task[t].stop /\ task'[t].run = x
       /\ \A s \in Requests \ {t} : task'[s] = task[s]
  BY <1>3, <1>4, <1>9 DEF Shapes
<1>11. Fields' BY <1>3, <1>4, <1>6, <1>7, <1>8, <1>10 DEF Fields, PlainDefinitions
<1>12. RunsOne' BY <1>3, <1>4, <1>6, <1>8, <1>10 DEF RunsOne
<1>13. Place(r)' BY <1>3, <1>4, <1>6, <1>7, <1>8, <1>10 DEF Place
<1>14. Together' BY <1>5, <1>6 DEF Together
<1>15. Serves' BY <1>7 DEF Serves
<1> QED BY <1>2, <1>7, <1>11, <1>12, <1>13, <1>14, <1>15, Assembling

\* The definition names the processor that was swapped in.
LEMMA ConvMeta ==
  ASSUME StartsAndSwaps, ConvInv, NEW r \in Requests, TaskInv', Life!UpgradeMeta(r)
  PROVE  ConvInv'
<1> USE DEF Life!At
<1>1. Life!Underway(r) BY DEF Life!Underway, Life!UpgradeMeta
<1>2. \A s \in Requests \ {r} : req[s].at \in {"new", "done"} BY <1>1, Alone
<1>3. Place(r) /\ Fields /\ RunsOne /\ TaskInv /\ Shapes BY DEF ConvInv, TaskInv
<1>4. /\ req[r].task = running /\ req[r].new \in Processors
      /\ running # Life!NoOne => task[running].run.proc = req[r].new
  BY <1>3 DEF Life!UpgradeMeta, Place
<1>5. (pipe.state = "running" <=> running # Life!NoOne) /\ control.of = running
  BY <1>2 DEF ConvInv, Together, Life!UpgradeMeta
<1>6. UNCHANGED <<running, task>> /\ pipe' = Life!Upgrade(pipe, req[r].new).def
  BY DEF Life!UpgradeMeta
<1>7. /\ DOMAIN req'[r] = DOMAIN req[r] /\ req'[r].at = "done"
      /\ \A s \in Requests \ {r} : req'[s] = req[s]
  <2>1. PICK o : req' = [req EXCEPT ![r].at = "done", ![r].ok = o]
    BY DEF Life!UpgradeMeta, Life!Returns
  <2> QED BY <1>3, <2>1 DEF Shapes
<1>8. DOMAIN control' = {"of", "held"} /\ control'.of = control.of
  BY <1>3 DEF Life!UpgradeMeta, Fields, PlainDefinitions
<1>9. /\ pipe' \in PlainDefinitions
      /\ pipe'.state = pipe.state
      /\ pipe.state = "running" => pipe'.proc = req[r].new
  BY <1>3, <1>4, <1>6 DEF Fields, PlainDefinitions, Life!Upgrade, Life!Ok, Life!Err
<1>10. Fields' BY <1>3, <1>6, <1>7, <1>8, <1>9 DEF Fields, PlainDefinitions
<1>11. RunsOne' BY <1>3, <1>6 DEF RunsOne
<1>12. Place(r)' BY <1>7 DEF Place
<1>13. Together' BY <1>5, <1>6, <1>8, <1>9 DEF Together
<1>14. Serves' BY <1>4, <1>5, <1>6, <1>9 DEF Serves
<1> QED BY <1>2, <1>7, <1>10, <1>11, <1>12, <1>13, <1>14, Assembling

\* The task that ends is not the recorded one.
LEMMA ConvEnd ==
  ASSUME StartsAndSwaps, ConvInv, NEW t \in Requests, TaskInv', Life!TaskEnds(t)
  PROVE  ConvInv'
<1>1. task[t].stop /\ UNCHANGED <<pipe, running, control, req>>
  BY DEF Life!TaskEnds, StartsAndSwaps
<1>2. RunsOne /\ Fields /\ Shapes BY DEF ConvInv, TaskInv
<1>3. running # t BY <1>1, <1>2 DEF RunsOne, StartsAndSwaps, OneAtATime
<1>4. /\ \A s \in Requests \ {t} : task'[s] = task[s]
      /\ task'[t].run = task[t].run /\ task'[t].stop
  BY <1>1, <1>2 DEF Life!TaskEnds, Shapes
<1>5. running # Life!NoOne => task'[running] = task[running]
  BY <1>2, <1>3, <1>4 DEF Shapes
<1>6. Fields' BY <1>1, <1>2, <1>4 DEF Fields, PlainDefinitions
<1>7. RunsOne' BY <1>1, <1>2, <1>5 DEF RunsOne
<1>8. \A r \in Requests : Place(r)'
  <2> SUFFICES ASSUME NEW r \in Requests PROVE Place(r)' OBVIOUS
  <2>1. Place(r) BY DEF ConvInv
  <2>2. Life!At(r, "insert") => r # t BY <1>1, <2>1 DEF Place
  <2> QED BY <1>1, <1>4, <1>5, <2>1, <2>2 DEF Place, Life!At
<1>9. Together' BY <1>1 DEF ConvInv, Together
<1>10. Serves' BY <1>1, <1>5 DEF ConvInv, Serves, Life!At
<1> QED BY <1>6, <1>7, <1>8, <1>9, <1>10 DEF ConvInv

\* Requests of other kinds are not made, and the states they go through are
\* not entered.
LEMMA ConvStep ==
  ASSUME StartsAndSwaps, ConvInv, [Life!Next]_(Life!vars)
  PROVE  ConvInv'
<1>0. TaskInv' BY TaskStep DEF StartsAndSwaps, ConvInv
<1>1. CASE UNCHANGED Life!vars
  BY <1>0, <1>1 DEF Life!vars, ConvInv, Fields, PlainDefinitions, RunsOne, Place,
                    Life!At, Together, Serves
<1>2. CASE \E r \in Requests : \/ Life!CreateRequest(r) \/ Life!DeleteRequest(r)
                               \/ Life!StartRequest(r) \/ Life!StopRequest(r)
  BY <1>0, <1>2, ConvRequest
<1>3. CASE \E r \in Requests, p \in Processors : Life!UpgradeRequest(r, p)
  BY <1>0, <1>3, ConvUpgradeRequest
<1>4. \A r \in Requests : /\ ~Life!ReconfigureRequest(r) /\ ~Life!CutoverRequest(r)
                          /\ ~Life!RollbackRequest(r) /\ ~Life!PromoteRequest(r)
                          /\ \A p \in Processors :
                               ~Life!BlueGreenRequest(r, p) /\ ~Life!CanaryRequest(r, p)
  BY DEF StartsAndSwaps, Life!Arrives, Life!ReconfigureRequest, Life!CutoverRequest,
         Life!RollbackRequest,
         Life!PromoteRequest, Life!BlueGreenRequest, Life!CanaryRequest
<1>5. \A r \in Requests : ~Life!Record(r) /\ ~Life!Look(r) /\ ~Life!ApplyRuntime(r)
  BY DEF ConvInv, Place, Life!Record, Life!Look, Life!ApplyRuntime, Life!At
<1>6. CASE \E r \in Requests : Life!Handler(r)
  BY <1>0, <1>5, <1>6, ConvStart, ConvStop, ConvSwap, ConvMeta DEF Life!Handler
<1>7. CASE \E t \in Requests : Life!TaskEnds(t) BY <1>0, <1>7, ConvEnd
<1> QED BY <1>1, <1>2, <1>3, <1>4, <1>6, <1>7 DEF Life!Next

\* When no request is under way the definition and the task agree.
LEMMA Converging ==
  ASSUME StartsAndSwaps, ConvInv
  PROVE  Life!Converged /\ Life!ServesDeclared
<1> SUFFICES ASSUME Life!Quiet
             PROVE  /\ Life!Declared <=> Life!Live(running)
                    /\ Life!Live(running) =>
                         Life!RoutedShare(task[running].run) = Life!DeclaredShare(pipe)
  BY DEF Life!Converged, Life!ServesDeclared
<1>1. \A r \in Requests : req[r].at \in {"new", "done"} BY DEF Life!Quiet, Life!Underway
<1>2. (pipe.state = "running" <=> running # Life!NoOne) BY <1>1 DEF ConvInv, Together
<1>3. Life!Declared <=> pipe.state = "running"
  BY DEF ConvInv, Fields, PlainDefinitions, Life!Declared
<1>4. Life!Live(running) <=> running # Life!NoOne BY DEF ConvInv, RunsOne, Life!Live
<1>5. Life!Live(running) =>
        task[running].run.proc = pipe.proc /\ task[running].run.canary = Life!None
  BY <1>1, <1>4 DEF ConvInv, Serves, RunsOne, Life!At
<1>6. Life!DeclaredShare(pipe) = {pipe.proc}
  BY DEF ConvInv, Fields, PlainDefinitions, Life!DeclaredShare, Life!NoUpgrade
<1>7. Life!Live(running) => Life!RoutedShare(task[running].run) = {pipe.proc}
  BY <1>5 DEF Life!RoutedShare
<1> QED BY <1>2, <1>3, <1>4, <1>6, <1>7

\* After any sequence of creations, starts, stops, upgrades and deletions that
\* are made one after the other and do not fail, a live task is recorded exactly
\* when the definition says the pipeline runs, and its events go to the
\* processor the definition names.
THEOREM DefinitionAndTasksAgree ==
  ASSUME StartsAndSwaps
  PROVE  Life!Spec => [](Life!Converged /\ Life!ServesDeclared)
<1>1. Life!Init => ConvInv BY ConvInit
<1>2. ConvInv /\ [Life!Next]_(Life!vars) => ConvInv' BY ConvStep
<1>3. ConvInv => Life!Converged /\ Life!ServesDeclared BY Converging
<1> QED BY <1>1, <1>2, <1>3, PTL DEF Life!Spec

-----------------------------------------------------------------------------
(* The swaps of a running pipeline, for any calls, rings, batches and        *)
(* faults.                                                                   *)

\* What the state is made of.
ManShape ==
  /\ ctl = [paused |-> ctl.paused, slot |-> ctl.slot, pct |-> ctl.pct]
  /\ ctl.slot \in [Man!Slots -> Calls \cup {Man!None}]
  /\ src = [at |-> src.at, batch |-> src.batch]
  /\ proc = [at |-> proc.at, batch |-> proc.batch, current |-> proc.current,
             green |-> proc.green, canary |-> proc.canary]
  /\ snk = [at |-> snk.at, batch |-> snk.batch, pending |-> snk.pending,
            buffered |-> snk.buffered]
  /\ ring = [src |-> ring.src, sink |-> ring.sink]
  /\ ring.src \in Seq(Nat) /\ ring.sink \in Seq(Nat)
  /\ {src.batch, proc.batch, snk.batch} \subseteq Nat /\ fetched \in Nat
  /\ out = [delivered |-> out.delivered, credited |-> out.credited,
            processed |-> out.processed]

\* Every call that was made is one that is allowed, and only such calls wait at
\* a cell.
CallsKept ==
  /\ call = [c \in Calls |-> [op |-> call[c].op, at |-> call[c].at]]
  /\ notify \in [Man!Cells -> [permit : BOOLEAN, queue : Seq(Calls)]]
  /\ \A c \in Calls : call[c].at # "new" => call[c].op \in Ops
  /\ \A n \in Man!Cells : \A i \in 1 .. Len(notify[n].queue) :
       call[notify[n].queue[i]].at # "new"

\* A slot holds what such a call put into it.
SlotsAsked ==
  /\ ctl.slot["sink"] # Man!None => "sink" \in Ops
  /\ ctl.slot["upgrade"] # Man!None => call[ctl.slot["upgrade"]].at # "new"

\* A task that holds no batch shows none.
HandsEmpty ==
  /\ src.at \notin {"push", "failed"} => src.batch = 0
  /\ proc.at \notin {"push", "failed"} => proc.batch = 0
  /\ snk.at \notin {"write", "failed"} => snk.batch = 0

\* Nothing comes into the sink ring while the processor task waits for a
\* replacement.
DrainedStays == proc.at = "drain" => ring.sink = <<>>

ManInv == ManShape /\ CallsKept /\ SlotsAsked /\ HandsEmpty /\ DrainedStays

LEMMA ManInit == Man!Init => ManInv
BY DEF Man!Init, ManInv, ManShape, CallsKept, SlotsAsked, HandsEmpty, DrainedStays, Man!Slots,
       Man!None, Man!Cells

LEMMA NotifyOneKeeps ==
  ASSUME NEW n \in Man!Cells, CallsKept, Man!NotifyOne(n)
  PROVE  /\ CallsKept'
         /\ \A c \in Calls : call[c].at # "new" => call'[c].at # "new"
         /\ \A c \in Calls : call'[c].op = call[c].op
<1>1. CASE notify[n].queue = <<>>
  BY <1>1 DEF Man!NotifyOne, CallsKept
<1>2. CASE notify[n].queue # <<>>
  <2> DEFINE q == notify[n].queue
             h == Head(q)
  <2>1. q \in Seq(Calls) /\ q # <<>>
    BY <1>2 DEF CallsKept
  <2>2. /\ h \in Calls /\ h = q[1] /\ 1 \in 1 .. Len(q)
        /\ Tail(q) \in Seq(Calls) /\ Len(Tail(q)) = Len(q) - 1
        /\ \A i \in 1 .. Len(Tail(q)) : Tail(q)[i] = q[i + 1] /\ i + 1 \in 1 .. Len(q)
    BY <2>1
  <2>3. Man!Woken(n) # "new"
    BY DEF Man!Woken, Man!Cells
  <2>4. /\ notify' = [notify EXCEPT ![n].queue = Tail(q)]
        /\ call' = [call EXCEPT ![h].at = Man!Woken(n)]
    BY <1>2 DEF Man!NotifyOne
  <2>5. \A c \in Calls : /\ call'[c].op = call[c].op
                         /\ call'[c].at = IF c = h THEN Man!Woken(n) ELSE call[c].at
    BY <2>4, <2>2 DEF CallsKept
  <2>6. call' = [c \in Calls |-> [op |-> call'[c].op, at |-> call'[c].at]]
    BY <2>4, <2>2 DEF CallsKept
  <2>7. call[h].at # "new"
    BY <2>2 DEF CallsKept
  <2>8. /\ notify' \in [Man!Cells -> [permit : BOOLEAN, queue : Seq(Calls)]]
        /\ \A m \in Man!Cells : notify'[m].queue = IF m = n THEN Tail(q) ELSE notify[m].queue
    BY <2>4, <2>2 DEF CallsKept
  <2>9. \A m \in Man!Cells : \A i \in 1 .. Len(notify'[m].queue) :
          call'[notify'[m].queue[i]].at # "new"
    <3> SUFFICES ASSUME NEW m \in Man!Cells, NEW i \in 1 .. Len(notify'[m].queue)
                 PROVE  call'[notify'[m].queue[i]].at # "new"
      OBVIOUS
    <3>1. \E j \in 1 .. Len(notify[m].queue) : notify'[m].queue[i] = notify[m].queue[j]
      BY <2>8, <2>2
    <3>2. PICK j \in 1 .. Len(notify[m].queue) : notify'[m].queue[i] = notify[m].queue[j]
      BY <3>1
    <3>3. notify[m].queue[j] \in Calls /\ call[notify[m].queue[j]].at # "new"
      BY DEF CallsKept
    <3> QED BY <3>2, <3>3, <2>3, <2>5
  <2> QED BY <2>3, <2>5, <2>6, <2>7, <2>8, <2>9 DEF CallsKept
<1> QED BY <1>1, <1>2

LEMMA NotifiedKeeps ==
  ASSUME NEW n \in Man!Cells, NEW c \in Calls, call[c].at # "new", CallsKept, Man!Notified(c, n)
  PROVE  /\ CallsKept'
         /\ \A d \in Calls : call[d].at # "new" => call'[d].at # "new"
         /\ \A d \in Calls : call'[d].op = call[d].op
<1>1. Man!Woken(n) # "new"
  BY DEF Man!Woken, Man!Cells
<1>2. PICK a : a # "new" /\ call' = [call EXCEPT ![c].at = a]
  BY <1>1 DEF Man!Notified
<1>a. \A d \in Calls : call'[d].op = call[d].op /\ call'[d].at = IF d = c THEN a ELSE call[d].at
  BY <1>2 DEF CallsKept
<1>b. call' = [d \in Calls |-> [op |-> call'[d].op, at |-> call'[d].at]]
  BY <1>2 DEF CallsKept
<1>3. /\ \A d \in Calls : call'[d].op = call[d].op /\ call'[d].at = IF d = c THEN a ELSE call[d].at
      /\ call' = [d \in Calls |-> [op |-> call'[d].op, at |-> call'[d].at]]
  BY <1>a, <1>b
<1>4. notify[n].queue \in Seq(Calls)
  BY DEF CallsKept
<1>5. PICK q \in Seq(Calls), p \in BOOLEAN :
         /\ q \in {notify[n].queue, Append(notify[n].queue, c)}
         /\ notify' = [notify EXCEPT ![n] = [permit |-> p, queue |-> q]]
  <2>1. CASE notify[n].permit
    <3>1. notify' = [notify EXCEPT ![n] = [permit |-> FALSE, queue |-> notify[n].queue]]
      BY <2>1 DEF Man!Notified, CallsKept
    <3> QED BY <3>1, <1>4
  <2>2. CASE ~notify[n].permit
    <3>1. notify' = [notify EXCEPT ![n] = [permit |-> notify[n].permit,
                                           queue |-> Append(notify[n].queue, c)]]
      BY <2>2 DEF Man!Notified, CallsKept
    <3>2. Append(notify[n].queue, c) \in Seq(Calls) /\ notify[n].permit \in BOOLEAN
      BY <1>4 DEF CallsKept
    <3> QED BY <3>1, <3>2
  <2> QED BY <2>1, <2>2
<1>6. /\ notify' \in [Man!Cells -> [permit : BOOLEAN, queue : Seq(Calls)]]
      /\ \A m \in Man!Cells : notify'[m].queue = IF m = n THEN q ELSE notify[m].queue
  BY <1>5 DEF CallsKept
<1>7. \A i \in 1 .. Len(q) : call[q[i]].at # "new" /\ q[i] \in Calls
  <2> SUFFICES ASSUME NEW i \in 1 .. Len(q) PROVE call[q[i]].at # "new" /\ q[i] \in Calls
    OBVIOUS
  <2>1. q[i] = c \/ (i \in 1 .. Len(notify[n].queue) /\ q[i] = notify[n].queue[i])
    <3>1. CASE q = notify[n].queue
      BY <3>1
    <3>2. CASE q = Append(notify[n].queue, c)
      BY <3>2, <1>4
    <3> QED BY <3>1, <3>2, <1>5
  <2>2. \A j \in 1 .. Len(notify[n].queue) : call[notify[n].queue[j]].at # "new"
    BY DEF CallsKept
  <2> QED BY <2>1, <2>2, <1>5
<1>8. \A m \in Man!Cells : \A i \in 1 .. Len(notify'[m].queue) :
        call'[notify'[m].queue[i]].at # "new"
  <2> SUFFICES ASSUME NEW m \in Man!Cells, NEW i \in 1 .. Len(notify'[m].queue)
               PROVE  call'[notify'[m].queue[i]].at # "new"
    OBVIOUS
  <2>0. \A j \in 1 .. Len(notify[m].queue) :
          notify[m].queue[j] \in Calls /\ call[notify[m].queue[j]].at # "new"
    BY DEF CallsKept
  <2>1. /\ notify'[m].queue[i] \in Calls /\ call[notify'[m].queue[i]].at # "new"
    BY <1>6, <1>7, <2>0
  <2> QED BY <2>1, <1>2, <1>3
<1> QED BY <1>2, <1>3, <1>6, <1>8 DEF CallsKept

LEMMA ManStep == ASSUME ManInv, [Man!Next]_Man!vars PROVE ManInv'
<1> USE DEF ManInv
<1>1. ASSUME NEW c \in Calls, NEW op \in Ops, Man!BeginSwap(c, op) \/ Man!PlaceUpgrade(c, op)
      PROVE  ManInv'
  <2>1. PICK a : a # "new" /\ call' = [call EXCEPT ![c] = [op |-> op, at |-> a]]
    BY <1>1 DEF Man!BeginSwap, Man!PlaceUpgrade
  <2>2. /\ call' = [d \in Calls |-> [op |-> call'[d].op, at |-> call'[d].at]]
        /\ \A d \in Calls : call'[d].at # "new" => call'[d].op \in Ops
        /\ \A d \in Calls : call[d].at # "new" => call'[d].at # "new"
        /\ call'[c].at # "new"
    BY <2>1 DEF CallsKept
  <2>3. UNCHANGED notify
    BY <1>1 DEF Man!BeginSwap, Man!PlaceUpgrade
  <2>4. \A n \in Man!Cells : \A i \in 1 .. Len(notify[n].queue) : notify[n].queue[i] \in Calls
    BY DEF CallsKept
  <2>5. CallsKept'
    BY <2>2, <2>3, <2>4 DEF CallsKept
  <2>6. UNCHANGED <<notify, stop, src, proc, snk, ring, fetched, effects, out>>
    BY <1>1 DEF Man!BeginSwap, Man!PlaceUpgrade
  <2>7. \/ ctl' = [ctl EXCEPT !.paused = TRUE] \/ ctl' = [ctl EXCEPT !.slot["upgrade"] = c]
    BY <1>1 DEF Man!BeginSwap, Man!PlaceUpgrade
  <2>8. ManShape'
    <3>0. \/ ctl' = [paused |-> TRUE, slot |-> ctl.slot, pct |-> ctl.pct]
          \/ ctl' = [paused |-> ctl.paused, slot |-> [ctl.slot EXCEPT !["upgrade"] = c],
                     pct |-> ctl.pct]
      BY <2>7 DEF ManShape
    <3>1. /\ ctl' = [paused |-> ctl'.paused, slot |-> ctl'.slot, pct |-> ctl'.pct]
          /\ ctl'.slot \in [Man!Slots -> Calls \cup {Man!None}]
      BY <3>0 DEF ManShape
    <3> QED BY <2>6, <3>1 DEF ManShape
  <2>9. SlotsAsked'
    BY <2>7, <2>2 DEF SlotsAsked, ManShape, Man!Slots, Man!None
  <2>10. HandsEmpty' /\ DrainedStays'
    BY <2>6 DEF HandsEmpty, DrainedStays
  <2> QED BY <2>5, <2>8, <2>9, <2>10
<1>2. ASSUME NEW c \in Calls, Man!Caller(c) PROVE ManInv'
  <2>1. CASE Man!AwaitDrain(c) \/ Man!AwaitSwap(c) \/ Man!AwaitUpgrade(c)
    <3>1. PICK n \in Man!Cells : Man!Notified(c, n) /\ call[c].at # "new"
      BY <2>1 DEF Man!AwaitDrain, Man!AwaitSwap, Man!AwaitUpgrade, Man!Cells
    <3>2. UNCHANGED <<ctl, stop, src, proc, snk, ring, fetched, effects, out>>
      BY <2>1 DEF Man!AwaitDrain, Man!AwaitSwap, Man!AwaitUpgrade
    <3>3. CallsKept' /\ \A d \in Calls : call[d].at # "new" => call'[d].at # "new"
      BY <3>1, NotifiedKeeps
    <3> QED BY <3>2, <3>3 DEF ManShape, SlotsAsked, HandsEmpty, DrainedStays, Man!Slots
  <2>2. CASE Man!PlaceSwap(c) \/ Man!Resume(c)
    <3>1. PICK a : a # "new" /\ call' = [call EXCEPT ![c].at = a] /\ call[c].at # "new"
      BY <2>2 DEF Man!PlaceSwap, Man!Resume
    <3>2. /\ call' = [d \in Calls |-> [op |-> call'[d].op, at |-> call'[d].at]]
          /\ \A d \in Calls : call'[d].op = call[d].op
          /\ \A d \in Calls : call'[d].at = IF d = c THEN a ELSE call[d].at
      BY <3>1 DEF CallsKept
    <3>3. UNCHANGED <<notify, stop, src, proc, snk, ring, fetched, effects, out>>
      BY <2>2 DEF Man!PlaceSwap, Man!Resume
    <3>4. \A n \in Man!Cells : \A i \in 1 .. Len(notify[n].queue) : notify[n].queue[i] \in Calls
      BY DEF CallsKept
    <3>5. CallsKept'
      BY <3>1, <3>2, <3>3, <3>4 DEF CallsKept
    <3>6. call[c].op \in Ops
      BY <3>1 DEF CallsKept
    <3>7. ctl' = [ctl EXCEPT !.slot[call[c].op] = c] \/ ctl' = [ctl EXCEPT !.paused = FALSE]
      BY <2>2 DEF Man!PlaceSwap, Man!Resume
    <3>8. ManShape'
      <4>1. /\ ctl' = [paused |-> ctl'.paused, slot |-> ctl'.slot, pct |-> ctl'.pct]
            /\ ctl'.slot \in [Man!Slots -> Calls \cup {Man!None}]
        BY <3>7 DEF ManShape
      <4> QED BY <3>3, <4>1 DEF ManShape
    <3>9. /\ ctl'.slot["sink"] # ctl.slot["sink"] => call[c].op = "sink"
          /\ ctl'.slot["upgrade"] \in {c, ctl.slot["upgrade"]}
      BY <3>7 DEF ManShape, Man!Slots
    <3>10. ctl.slot["upgrade"] \in Calls \cup {Man!None}
      BY DEF ManShape, Man!Slots
    <3>11. SlotsAsked'
      BY <3>1, <3>2, <3>6, <3>9, <3>10 DEF SlotsAsked
    <3> QED BY <3>3, <3>5, <3>8, <3>11 DEF HandsEmpty, DrainedStays
  <2> QED BY <1>2, <2>1, <2>2 DEF Man!Caller
<1>3. ASSUME Man!SourceTask PROVE ManInv'
  <2>1. CASE Man!SourceSwap
    <3>1. CallsKept' /\ \A d \in Calls : call[d].at # "new" => call'[d].at # "new"
      BY <2>1, NotifyOneKeeps DEF Man!SourceSwap, Man!Cells
    <3> QED BY <2>1, <3>1 DEF Man!SourceSwap, ManShape, SlotsAsked, HandsEmpty, DrainedStays,
               Man!Slots, Man!None
  <2>2. CASE Man!SourceStop
    BY <2>2 DEF Man!SourceStop, ManShape, CallsKept, SlotsAsked, HandsEmpty, DrainedStays
  <2>3. CASE Man!SourcePoll
    BY <2>3 DEF Man!SourcePoll, ManShape, CallsKept, SlotsAsked, HandsEmpty, DrainedStays
  <2>4. CASE Man!NextBatch
    <3>1. UNCHANGED <<ctl, notify, call, stop, proc, snk, ring, effects, out>>
      BY <2>4 DEF Man!NextBatch
    <3>2. /\ src' = [at |-> src'.at, batch |-> src'.batch] /\ src'.batch \in Nat
          /\ fetched' \in Nat
          /\ src'.at \notin {"push", "failed"} => src'.batch = 0
      BY <2>4 DEF Man!NextBatch, ManShape, HandsEmpty
    <3> QED BY <3>1, <3>2 DEF ManShape, CallsKept, SlotsAsked, HandsEmpty, DrainedStays
  <2>5. CASE Man!SourcePush
    <3>1. UNCHANGED <<ctl, notify, call, stop, proc, snk, fetched, effects, out>>
      BY <2>5 DEF Man!SourcePush
    <3>2. /\ src' = [at |-> "top", batch |-> 0]
          /\ ring' = [src |-> Append(ring.src, src.batch), sink |-> ring.sink]
      BY <2>5 DEF Man!SourcePush, ManShape
    <3>3. Append(ring.src, src.batch) \in Seq(Nat)
      BY DEF ManShape
    <3>4. CallsKept' /\ SlotsAsked'
      BY <3>1 DEF CallsKept, SlotsAsked
    <3>5. ManShape'
      BY <3>1, <3>2, <3>3 DEF ManShape
    <3> QED BY <3>1, <3>2, <3>4, <3>5 DEF HandsEmpty, DrainedStays
  <2> QED BY <1>3, <2>1, <2>2, <2>3, <2>4, <2>5 DEF Man!SourceTask
<1>4. ASSUME Man!ProcessorTask PROVE ManInv'
  <2>1. CASE Man!ProcessorStop
    BY <2>1 DEF Man!ProcessorStop, ManShape, CallsKept, SlotsAsked, HandsEmpty, DrainedStays
  <2>2. CASE Man!ProcessorTop
    <3>1. UNCHANGED <<stop, src, snk, ring, fetched, out>>
      BY <2>2 DEF Man!ProcessorTop
    <3>2. CASE ctl.slot["upgrade"] = Man!None
      BY <2>2, <3>2 DEF Man!ProcessorTop, ManShape, CallsKept, SlotsAsked, HandsEmpty, DrainedStays
    <3>3. CASE ctl.slot["upgrade"] # Man!None
      <4>1. Man!TakeUpgrade(ctl.slot["upgrade"]) /\ proc.at = "top"
        BY <2>2, <3>3 DEF Man!ProcessorTop
      <4>2. PICK k : ctl' = [ctl EXCEPT !.slot["upgrade"] = Man!None, !.pct = k]
        BY <4>1 DEF Man!TakeUpgrade
      <4>3. PICK a, b, d : proc' = [proc EXCEPT !.at = "pop", !.current = a, !.green = b, !.canary = d]
        BY <4>1 DEF Man!TakeUpgrade
      <4>4. CallsKept'
        BY <4>1, NotifyOneKeeps DEF Man!TakeUpgrade, Man!Cells
      <4>5. proc' = [at |-> "pop", batch |-> proc.batch, current |-> a, green |-> b, canary |-> d]
        BY <4>3 DEF ManShape
      <4>6. /\ ctl' = [paused |-> ctl.paused, slot |-> [ctl.slot EXCEPT !["upgrade"] = Man!None], pct |-> k]
        BY <4>2 DEF ManShape
      <4> QED BY <3>1, <4>1, <4>4, <4>5, <4>6 DEF ManShape, SlotsAsked, HandsEmpty, DrainedStays,
                 Man!Slots, Man!None
    <3> QED BY <3>2, <3>3
  <2>3. CASE Man!ProcessorPop
    <3>1. UNCHANGED <<ctl, notify, call, stop, src, snk, fetched>>
      BY <2>3 DEF Man!ProcessorPop
    <3>2. /\ ring.src \in Seq(Nat) /\ ring.src # <<>>
          /\ Head(ring.src) \in Nat /\ Tail(ring.src) \in Seq(Nat)
      BY <2>3 DEF Man!ProcessorPop, ManShape
    <3>3. ring' = [src |-> Tail(ring.src), sink |-> ring.sink]
      BY <2>3 DEF Man!ProcessorPop, ManShape
    <3>4. \/ proc' = [proc EXCEPT !.at = "push", !.batch = Head(ring.src)]
             /\ out' = [out EXCEPT !.processed = @ \cup {Head(ring.src)}]
          \/ proc' = [proc EXCEPT !.at = "failed"] /\ UNCHANGED out
      BY <2>3 DEF Man!ProcessorPop
    <3>5. ManShape'
      BY <3>1, <3>2, <3>3, <3>4 DEF ManShape
    <3>6. HandsEmpty' /\ DrainedStays'
      BY <3>1, <3>3, <3>4 DEF ManShape, HandsEmpty, DrainedStays
    <3> QED BY <3>1, <3>5, <3>6 DEF CallsKept, SlotsAsked
  <2>4. CASE Man!ProcessorPush
    <3>1. UNCHANGED <<ctl, notify, call, stop, src, snk, fetched, effects, out>>
      BY <2>4 DEF Man!ProcessorPush
    <3>2. ring' = [src |-> ring.src, sink |-> Append(ring.sink, proc.batch)]
      BY <2>4 DEF Man!ProcessorPush, ManShape
    <3>3. /\ Append(ring.sink, proc.batch) \in Seq(Nat)
          /\ proc' = [proc EXCEPT !.at = "top", !.batch = 0]
      BY <2>4 DEF Man!ProcessorPush, ManShape
    <3>4. CallsKept' /\ SlotsAsked'
      BY <3>1 DEF CallsKept, SlotsAsked
    <3>5. proc' = [at |-> "top", batch |-> 0, current |-> proc.current, green |-> proc.green,
                   canary |-> proc.canary]
      BY <3>3 DEF ManShape
    <3>6. Append(ring.sink, proc.batch) \in Seq(Nat)
      BY <3>3
    <3>7. ManShape'
      BY <3>1, <3>2, <3>5, <3>6 DEF ManShape
    <3> QED BY <3>1, <3>4, <3>5, <3>7 DEF HandsEmpty, DrainedStays
  <2>5. CASE Man!ProcessorPopEmpty \/ Man!DrainEnds
    <3>1. UNCHANGED <<ctl, notify, call, stop, src, snk, ring, fetched, effects, out>>
      BY <2>5 DEF Man!ProcessorPopEmpty, Man!DrainEnds
    <3>2. PICK a \in {"idle", "top"} : proc' = [proc EXCEPT !.at = a] /\ proc.at \in {"pop", "drain"}
      BY <2>5 DEF Man!ProcessorPopEmpty, Man!DrainEnds
    <3>3. CallsKept' /\ SlotsAsked'
      BY <3>1 DEF CallsKept, SlotsAsked
    <3> QED BY <3>1, <3>2, <3>3 DEF ManShape, HandsEmpty, DrainedStays
  <2>6. CASE Man!ProcessorIdle
    <3>1. UNCHANGED <<ctl, stop, src, snk, ring, fetched, effects, out>>
      BY <2>6 DEF Man!ProcessorIdle
    <3>2. CallsKept' /\ \A d \in Calls : call[d].at # "new" => call'[d].at # "new"
      <4>1. CASE UNCHANGED <<notify, call>>
        BY <4>1 DEF CallsKept
      <4>2. CASE Man!NotifyOne("drain")
        BY <4>2, NotifyOneKeeps DEF Man!Cells
      <4> QED BY <2>6, <4>1, <4>2 DEF Man!ProcessorIdle
    <3>3. /\ \E a \in {"done", "drain", "top"} : proc' = [proc EXCEPT !.at = a]
          /\ proc'.at = "drain" => ring.sink = <<>>
          /\ proc.at = "idle"
      BY <2>6 DEF Man!ProcessorIdle, ManShape, Man!SeesDrained
    <3> QED BY <3>1, <3>2, <3>3 DEF ManShape, SlotsAsked, HandsEmpty, DrainedStays, Man!Slots
  <2>7. CASE Man!ProcessorSwap
    <3>1. UNCHANGED <<stop, src, snk, ring, fetched, out>>
      BY <2>7 DEF Man!ProcessorSwap
    <3>2. CallsKept' /\ \A d \in Calls : call[d].at # "new" => call'[d].at # "new"
      BY <2>7, NotifyOneKeeps DEF Man!ProcessorSwap, Man!Cells
    <3>3. /\ ctl' = [ctl EXCEPT !.slot["processor"] = Man!None] /\ proc.at = "drain"
          /\ proc' = [proc EXCEPT !.at = "top", !.current = ctl.slot["processor"]]
      BY <2>7 DEF Man!ProcessorSwap
    <3> QED BY <3>1, <3>2, <3>3 DEF ManShape, SlotsAsked, HandsEmpty, DrainedStays, Man!Slots,
               Man!None
  <2> QED BY <1>4, <2>1, <2>2, <2>3, <2>4, <2>5, <2>6, <2>7 DEF Man!ProcessorTask
<1>5. ASSUME Man!SinkTask PROVE ManInv'
  <2>1. CASE Man!SinkPop
    <3>1. UNCHANGED <<ctl, notify, call, stop, src, proc, fetched, effects, out>>
      BY <2>1 DEF Man!SinkPop
    <3>2. /\ ring.sink \in Seq(Nat) /\ ring.sink # <<>>
          /\ Head(ring.sink) \in Nat /\ Tail(ring.sink) \in Seq(Nat)
      BY <2>1 DEF Man!SinkPop, ManShape
    <3>3. /\ ring' = [src |-> ring.src, sink |-> Tail(ring.sink)]
          /\ snk' = [snk EXCEPT !.at = "write", !.batch = Head(ring.sink)]
      BY <2>1 DEF Man!SinkPop, ManShape
    <3> QED BY <3>1, <3>2, <3>3 DEF ManShape, CallsKept, SlotsAsked, HandsEmpty, DrainedStays
  <2>2. CASE Man!SinkPopEmpty \/ Man!SinkYield
    <3>1. UNCHANGED <<ctl, notify, call, stop, src, proc, ring, fetched, effects, out>>
      BY <2>2 DEF Man!SinkPopEmpty, Man!SinkYield
    <3>2. PICK a \in {"idle", "pop"} : snk' = [snk EXCEPT !.at = a] /\ snk.at \in {"pop", "idle"}
      BY <2>2 DEF Man!SinkPopEmpty, Man!SinkYield
    <3>3. CallsKept' /\ SlotsAsked'
      BY <3>1 DEF CallsKept, SlotsAsked
    <3> QED BY <3>1, <3>2, <3>3 DEF ManShape, HandsEmpty, DrainedStays
  <2>3. CASE Man!WriteBatch \/ Man!Flush \/ Man!SinkEnd
    <3>1. UNCHANGED <<ctl, notify, call, stop, src, proc, ring, fetched, effects>>
      BY <2>3 DEF Man!WriteBatch, Man!Flush, Man!SinkEnd
    <3>2. out' = [delivered |-> out'.delivered, credited |-> out'.credited,
                  processed |-> out'.processed]
      <4>1. CASE Man!WriteBatch
        BY <4>1 DEF Man!WriteBatch, ManShape
      <4>2. CASE Man!Flush
        BY <4>2 DEF Man!Flush, Man!Flushed, ManShape
      <4>3. CASE Man!SinkEnd
        BY <4>3 DEF Man!SinkEnd, Man!Flushed, ManShape
      <4> QED BY <2>3, <4>1, <4>2, <4>3
    <3>3. PICK a, e, f, g : /\ snk' = [at |-> a, batch |-> e, pending |-> f, buffered |-> g]
                            /\ e \in Nat /\ (a \notin {"write", "failed"} => e = 0)
      <4>1. CASE Man!WriteBatch
        BY <4>1 DEF Man!WriteBatch, ManShape, HandsEmpty
      <4>2. CASE Man!Flush
        BY <4>2 DEF Man!Flush, ManShape, HandsEmpty
      <4>3. CASE Man!SinkEnd
        BY <4>3 DEF Man!SinkEnd, ManShape, HandsEmpty
      <4> QED BY <2>3, <4>1, <4>2, <4>3
    <3>4. CallsKept' /\ SlotsAsked' /\ DrainedStays'
      BY <3>1 DEF CallsKept, SlotsAsked, DrainedStays
    <3> QED BY <3>1, <3>2, <3>3, <3>4 DEF ManShape, HandsEmpty
  <2>4. CASE Man!SinkSwap
    <3>1. UNCHANGED <<stop, src, proc, ring, fetched, effects, out>>
      BY <2>4 DEF Man!SinkSwap
    <3>2. CallsKept' /\ \A d \in Calls : call[d].at # "new" => call'[d].at # "new"
      BY <2>4, NotifyOneKeeps DEF Man!SinkSwap, Man!Cells
    <3>3. /\ ctl' = [ctl EXCEPT !.slot["sink"] = Man!None]
          /\ snk' = [snk EXCEPT !.buffered = {}]
      BY <2>4 DEF Man!SinkSwap
    <3> QED BY <3>1, <3>2, <3>3 DEF ManShape, SlotsAsked, HandsEmpty, DrainedStays, Man!Slots,
               Man!None
  <2> QED BY <1>5, <2>1, <2>2, <2>3, <2>4 DEF Man!SinkTask
<1>6. CASE Man!Shutdown
  BY <1>6 DEF Man!Shutdown, ManShape, CallsKept, SlotsAsked, HandsEmpty, DrainedStays
<1>7. CASE UNCHANGED Man!vars
  BY <1>7 DEF Man!vars, ManShape, CallsKept, SlotsAsked, HandsEmpty, DrainedStays
<1> QED BY <1>1, <1>2, <1>3, <1>4, <1>5, <1>6, <1>7 DEF Man!Next

\* A new processor becomes active only when the sink ring is empty, for any
\* calls, permits left behind, failures and shutdowns.
THEOREM SwapsAreDrained == Man!Spec => Man!ProcessorSwapDrained
<1>1. ManInv /\ [Man!Next]_Man!vars => ManInv'
  BY ManStep
<1>2. ManInv => [(proc.at = "drain" /\ proc.current' # proc.current) => ring.sink = <<>>]_Man!vars
  BY DEF ManInv, DrainedStays
<1> QED BY <1>1, <1>2, ManInit, PTL DEF Man!Spec, Man!ProcessorSwapDrained

\* A sink that only enqueues is not replaced.
SinkKept == ~Batched \/ "sink" \notin Ops

\* What waits for a flush is what the sink holds.
PendingHeld == snk.pending = snk.buffered /\ (~Batched => snk.buffered = {})

LEMMA RangeAppend ==
  ASSUME NEW q \in Seq(Nat), NEW e \in Nat
  PROVE  Man!Range(Append(q, e)) = Man!Range(q) \cup {e}
<1>1. /\ DOMAIN Append(q, e) = 1 .. Len(q) + 1 /\ DOMAIN q = 1 .. Len(q)
      /\ Append(q, e)[Len(q) + 1] = e /\ \A i \in 1 .. Len(q) : Append(q, e)[i] = q[i]
  OBVIOUS
<1>2. ASSUME NEW x \in Man!Range(q) \cup {e} PROVE x \in Man!Range(Append(q, e))
  <2>1. \E i \in 1 .. Len(q) + 1 : x = Append(q, e)[i]
    BY <1>1, <1>2 DEF Man!Range
  <2> QED BY <2>1, <1>1 DEF Man!Range
<1>3. ASSUME NEW x \in Man!Range(Append(q, e)) PROVE x \in Man!Range(q) \cup {e}
  <2>1. PICK i \in 1 .. Len(q) + 1 : x = Append(q, e)[i]
    BY <1>1, <1>3 DEF Man!Range
  <2>2. i \in 1 .. Len(q) \/ i = Len(q) + 1
    OBVIOUS
  <2> QED BY <2>1, <2>2, <1>1 DEF Man!Range
<1> QED BY <1>2, <1>3

LEMMA RangeTail ==
  ASSUME NEW q \in Seq(Nat), q # <<>>
  PROVE  Man!Range(q) = Man!Range(Tail(q)) \cup {Head(q)}
<1>1. /\ DOMAIN Tail(q) = 1 .. Len(q) - 1 /\ DOMAIN q = 1 .. Len(q) /\ Len(q) >= 1
      /\ Head(q) = q[1] /\ \A i \in 1 .. Len(q) - 1 : Tail(q)[i] = q[i + 1]
  OBVIOUS
<1>2. ASSUME NEW x \in Man!Range(q) PROVE x \in Man!Range(Tail(q)) \cup {Head(q)}
  <2>1. PICK i \in 1 .. Len(q) : x = q[i]
    BY <1>1, <1>2 DEF Man!Range
  <2>2. CASE i = 1
    BY <1>1, <2>1, <2>2
  <2>3. CASE i # 1
    <3>1. i - 1 \in 1 .. Len(q) - 1 /\ Tail(q)[i - 1] = q[(i - 1) + 1] /\ (i - 1) + 1 = i
      BY <1>1, <2>3
    <3> QED BY <1>1, <2>1, <3>1 DEF Man!Range
  <2> QED BY <2>2, <2>3
<1>3. ASSUME NEW x \in Man!Range(Tail(q)) \cup {Head(q)} PROVE x \in Man!Range(q)
  <2>1. CASE x = Head(q)
    BY <1>1, <2>1 DEF Man!Range
  <2>2. CASE x \in Man!Range(Tail(q))
    <3>1. PICK i \in 1 .. Len(q) - 1 : x = Tail(q)[i]
      BY <1>1, <2>2 DEF Man!Range
    <3>2. i + 1 \in 1 .. Len(q) /\ x = q[i + 1]
      BY <1>1, <3>1
    <3> QED BY <1>1, <3>2 DEF Man!Range
  <2> QED BY <1>3, <2>1, <2>2
<1> QED BY <1>2, <1>3

\* The batches delivered or in flight; they are numbered from 1.
Somewhere == (out.delivered \cup Man!InFlight) \ {0}

\* A step that fetches and fails nothing takes nothing away.
LEMMA NothingGoes ==
  ASSUME SinkKept, ManInv, PendingHeld, Man!Next, ~Man!AnyFailed'
  PROVE  /\ fetched' = fetched => Somewhere \subseteq Somewhere'
         /\ fetched' # fetched => fetched' = fetched + 1 /\ Somewhere \cup {fetched'} \subseteq Somewhere'
<1> USE DEF Somewhere, Man!InFlight, ManInv
<1>1. CASE Man!NextBatch
  <2>1. UNCHANGED <<proc, snk, ring, out>> /\ src.batch = 0
    BY <1>1 DEF Man!NextBatch, HandsEmpty
  <2>2. \/ fetched' = fetched + 1 /\ src'.batch = fetched + 1
        \/ fetched' = fetched
    BY <1>1 DEF Man!NextBatch
  <2> QED BY <2>1, <2>2 DEF ManShape
<1>2. CASE Man!SourcePush
  <2>1. UNCHANGED <<proc, snk, out, fetched>>
    BY <1>2 DEF Man!SourcePush
  <2>2. ring'.src = Append(ring.src, src.batch) /\ ring'.sink = ring.sink
    BY <1>2 DEF Man!SourcePush, ManShape
  <2>3. Man!Range(ring'.src) = Man!Range(ring.src) \cup {src.batch}
    BY <2>2, RangeAppend DEF ManShape
  <2> QED BY <2>1, <2>2, <2>3
<1>3. CASE Man!ProcessorPop
  <2>1. UNCHANGED <<src, snk, fetched>> /\ proc.batch = 0
    BY <1>3 DEF Man!ProcessorPop, HandsEmpty
  <2>2. /\ ring'.src = Tail(ring.src) /\ ring'.sink = ring.sink
        /\ ring.src \in Seq(Nat) /\ ring.src # <<>>
    BY <1>3 DEF Man!ProcessorPop, ManShape
  <2>3. proc'.batch = Head(ring.src) /\ out'.delivered = out.delivered
    <3>1. proc' # [proc EXCEPT !.at = "failed"]
      BY DEF Man!AnyFailed, ManShape
    <3> QED BY <1>3, <3>1 DEF Man!ProcessorPop, ManShape
  <2>4. Man!Range(ring.src) = Man!Range(ring'.src) \cup {Head(ring.src)}
    BY <2>2, RangeTail
  <2> QED BY <2>1, <2>2, <2>3, <2>4
<1>4. CASE Man!ProcessorPush
  <2>1. UNCHANGED <<src, snk, out, fetched>>
    BY <1>4 DEF Man!ProcessorPush
  <2>2. ring'.sink = Append(ring.sink, proc.batch) /\ ring'.src = ring.src
    BY <1>4 DEF Man!ProcessorPush, ManShape
  <2>3. Man!Range(ring'.sink) = Man!Range(ring.sink) \cup {proc.batch}
    BY <2>2, RangeAppend DEF ManShape
  <2> QED BY <2>1, <2>2, <2>3
<1>5. CASE Man!SinkPop
  <2>1. UNCHANGED <<src, proc, out, fetched>> /\ snk.batch = 0
    BY <1>5 DEF Man!SinkPop, HandsEmpty
  <2>2. /\ ring'.sink = Tail(ring.sink) /\ ring'.src = ring.src
        /\ ring.sink \in Seq(Nat) /\ ring.sink # <<>>
    BY <1>5 DEF Man!SinkPop, ManShape
  <2>3. snk'.batch = Head(ring.sink) /\ snk'.buffered = snk.buffered
    BY <1>5 DEF Man!SinkPop, ManShape
  <2>4. Man!Range(ring.sink) = Man!Range(ring'.sink) \cup {Head(ring.sink)}
    BY <2>2, RangeTail
  <2> QED BY <2>1, <2>2, <2>3, <2>4
<1>6. CASE Man!WriteBatch
  <2>1. UNCHANGED <<src, proc, ring, fetched>>
    BY <1>6 DEF Man!WriteBatch
  <2>2. \/ /\ out'.delivered = out.delivered \cup {snk.batch} /\ snk'.buffered = snk.buffered
        \/ /\ out'.delivered = out.delivered /\ snk'.buffered = snk.buffered \cup {snk.batch}
    <3>1. snk' # [snk EXCEPT !.at = "failed"]
      BY DEF Man!AnyFailed, ManShape
    <3> QED BY <1>6, <3>1 DEF Man!WriteBatch, ManShape
  <2> QED BY <2>1, <2>2
<1>7. CASE Man!Flush \/ Man!SinkEnd
  <2>1. UNCHANGED <<src, proc, ring, fetched>>
    BY <1>7 DEF Man!Flush, Man!SinkEnd
  <2>2. out'.delivered = out.delivered \cup snk.buffered /\ snk'.batch = snk.batch
    <3>1. snk' # [snk EXCEPT !.at = "failed"]
      BY DEF Man!AnyFailed, ManShape
    <3>2. out' = Man!Flushed /\ \E a : snk' = [snk EXCEPT !.at = a, !.pending = {}, !.buffered = {}]
      BY <1>7, <3>1 DEF Man!Flush, Man!SinkEnd
    <3> QED BY <3>2 DEF Man!Flushed, ManShape
  <2> QED BY <2>1, <2>2
<1>8. CASE Man!SinkSwap
  <2>1. UNCHANGED <<src, proc, ring, fetched, out>> /\ snk'.batch = snk.batch
    BY <1>8 DEF Man!SinkSwap, ManShape
  <2>2. "sink" \in Ops
    BY <1>8 DEF Man!SinkSwap, SlotsAsked
  <2>3. snk.buffered = {}
    BY <2>2 DEF SinkKept, PendingHeld
  <2> QED BY <2>1, <2>3
<1>9. CASE \/ Man!SourceStop \/ Man!SourceSwap \/ Man!SourcePoll
           \/ Man!ProcessorStop \/ Man!ProcessorPopEmpty \/ Man!ProcessorIdle
           \/ Man!DrainEnds \/ Man!ProcessorSwap \/ Man!SinkPopEmpty \/ Man!SinkYield
  <2>1. UNCHANGED <<ring, out, fetched>>
    BY <1>9 DEF Man!SourceStop, Man!SourceSwap, Man!SourcePoll, Man!ProcessorStop,
       Man!ProcessorPopEmpty, Man!ProcessorIdle, Man!DrainEnds, Man!ProcessorSwap,
       Man!SinkPopEmpty, Man!SinkYield
  <2>2. src'.batch = src.batch
    BY <1>9 DEF Man!SourceStop, Man!SourceSwap, Man!SourcePoll, Man!ProcessorStop,
       Man!ProcessorPopEmpty, Man!ProcessorIdle, Man!DrainEnds, Man!ProcessorSwap,
       Man!SinkPopEmpty, Man!SinkYield, ManShape
  <2>3. proc'.batch = proc.batch
    BY <1>9 DEF Man!SourceStop, Man!SourceSwap, Man!SourcePoll, Man!ProcessorStop,
       Man!ProcessorPopEmpty, Man!ProcessorIdle, Man!DrainEnds, Man!ProcessorSwap,
       Man!SinkPopEmpty, Man!SinkYield, ManShape
  <2>4. snk'.batch = snk.batch /\ snk'.buffered = snk.buffered
    BY <1>9 DEF Man!SourceStop, Man!SourceSwap, Man!SourcePoll, Man!ProcessorStop,
       Man!ProcessorPopEmpty, Man!ProcessorIdle, Man!DrainEnds, Man!ProcessorSwap,
       Man!SinkPopEmpty, Man!SinkYield, ManShape
  <2> QED BY <2>1, <2>2, <2>3, <2>4
<1>10. CASE Man!ProcessorTop
  <2>1. UNCHANGED <<src, snk, ring, out, fetched>>
    BY <1>10 DEF Man!ProcessorTop
  <2>2. proc'.batch = proc.batch
    BY <1>10 DEF Man!ProcessorTop, Man!TakeUpgrade, ManShape
  <2> QED BY <2>1, <2>2
<1>11. CASE \/ \E c \in Calls, op \in Ops : Man!BeginSwap(c, op) \/ Man!PlaceUpgrade(c, op)
            \/ \E c \in Calls : Man!Caller(c)
            \/ Man!Shutdown
  <2>1. UNCHANGED <<src, proc, snk, ring, out, fetched>>
    BY <1>11 DEF Man!BeginSwap, Man!PlaceUpgrade, Man!Caller, Man!AwaitDrain, Man!AwaitSwap,
                 Man!AwaitUpgrade, Man!PlaceSwap, Man!Resume, Man!Shutdown
  <2> QED BY <2>1
<1> QED BY <1>1, <1>2, <1>3, <1>4, <1>5, <1>6, <1>7, <1>8, <1>9, <1>10, <1>11
        DEF Man!Next, Man!SourceTask, Man!ProcessorTask, Man!SinkTask

\* What a step of the sink task does to the outputs it has not credited.
LEMMA OutputsTogether ==
  ASSUME ManInv, [Man!Next]_Man!vars
  PROVE  \/ out'.delivered = out.delivered /\ out'.credited = out.credited
         \/ /\ out'.delivered = out.delivered \cup {snk.batch}
            /\ out'.credited = out.credited \cup {snk.batch}
         \/ /\ out'.delivered = out.delivered \cup snk.buffered
            /\ out'.credited = out.credited \cup snk.pending
<1> USE DEF ManInv
<1>1. CASE Man!WriteBatch
  BY <1>1 DEF Man!WriteBatch, ManShape
<1>2. CASE Man!Flush \/ Man!SinkEnd
  <2>1. out' \in {out, Man!Flushed}
    BY <1>2 DEF Man!Flush, Man!SinkEnd
  <2> QED BY <2>1 DEF Man!Flushed, ManShape
<1>3. CASE Man!ProcessorPop
  BY <1>3 DEF Man!ProcessorPop, ManShape
<1>4. CASE \/ \E c \in Calls, op \in Ops : Man!BeginSwap(c, op) \/ Man!PlaceUpgrade(c, op)
           \/ \E c \in Calls : Man!Caller(c)
           \/ Man!Shutdown \/ Man!SourceTask
  <2>1. UNCHANGED out
    BY <1>4 DEF Man!BeginSwap, Man!PlaceUpgrade, Man!Caller, Man!AwaitDrain, Man!AwaitSwap,
                Man!AwaitUpgrade, Man!PlaceSwap, Man!Resume, Man!Shutdown, Man!SourceTask,
                Man!SourceStop, Man!SourceSwap, Man!SourcePoll, Man!NextBatch, Man!SourcePush
  <2> QED BY <2>1
<1>5. CASE \/ Man!ProcessorStop \/ Man!ProcessorTop \/ Man!ProcessorPush
           \/ Man!ProcessorPopEmpty \/ Man!ProcessorIdle \/ Man!DrainEnds \/ Man!ProcessorSwap
           \/ Man!SinkPop \/ Man!SinkPopEmpty \/ Man!SinkSwap \/ Man!SinkYield
           \/ UNCHANGED Man!vars
  <2>1. UNCHANGED out
    BY <1>5 DEF Man!ProcessorStop, Man!ProcessorTop, Man!ProcessorPush, Man!ProcessorPopEmpty,
                Man!ProcessorIdle, Man!DrainEnds, Man!ProcessorSwap, Man!SinkPop,
                Man!SinkPopEmpty, Man!SinkSwap, Man!SinkYield, Man!vars
  <2> QED BY <2>1
<1> QED BY <1>1, <1>2, <1>3, <1>4, <1>5 DEF Man!Next, Man!ProcessorTask, Man!SinkTask

LEMMA PendingStep ==
  ASSUME SinkKept, ManInv, PendingHeld, [Man!Next]_Man!vars
  PROVE  PendingHeld'
<1> USE DEF ManInv
<1>1. CASE Man!WriteBatch
  BY <1>1 DEF Man!WriteBatch, ManShape, PendingHeld
<1>2. CASE Man!Flush \/ Man!SinkEnd
  BY <1>2 DEF Man!Flush, Man!SinkEnd, ManShape, PendingHeld
<1>3. CASE Man!SinkSwap
  <2>1. "sink" \in Ops
    BY <1>3 DEF Man!SinkSwap, SlotsAsked
  <2> QED BY <1>3, <2>1 DEF SinkKept, PendingHeld, ManShape, Man!SinkSwap
<1>4. CASE Man!SinkPop \/ Man!SinkPopEmpty \/ Man!SinkYield
  <2>1. snk'.pending = snk.pending /\ snk'.buffered = snk.buffered
    BY <1>4 DEF Man!SinkPop, Man!SinkPopEmpty, Man!SinkYield, ManShape
  <2> QED BY <2>1 DEF PendingHeld
<1>5. CASE \/ \E c \in Calls, op \in Ops : Man!BeginSwap(c, op) \/ Man!PlaceUpgrade(c, op)
           \/ \E c \in Calls : Man!Caller(c)
           \/ Man!Shutdown \/ Man!SourceTask \/ Man!ProcessorTask \/ UNCHANGED Man!vars
  <2>1. UNCHANGED snk
    BY <1>5 DEF Man!BeginSwap, Man!PlaceUpgrade, Man!Caller, Man!AwaitDrain, Man!AwaitSwap,
                Man!AwaitUpgrade, Man!PlaceSwap, Man!Resume, Man!Shutdown, Man!SourceTask,
                Man!SourceStop, Man!SourceSwap, Man!SourcePoll, Man!NextBatch, Man!SourcePush,
                Man!ProcessorTask, Man!ProcessorStop, Man!ProcessorTop, Man!ProcessorPop,
                Man!ProcessorPush, Man!ProcessorPopEmpty, Man!ProcessorIdle, Man!DrainEnds,
                Man!ProcessorSwap, Man!vars
  <2> QED BY <2>1 DEF PendingHeld
<1> QED BY <1>1, <1>2, <1>3, <1>4, <1>5 DEF Man!Next, Man!SinkTask

\* A task that has failed stays so.
LEMMA FailedStays == ASSUME ManInv, Man!Next, Man!AnyFailed PROVE Man!AnyFailed'
<1> USE DEF ManInv
<1>1. src.at = "failed" => src' = src
  BY DEF Man!Next, Man!BeginSwap, Man!PlaceUpgrade, Man!Caller, Man!AwaitDrain, Man!AwaitSwap,
         Man!AwaitUpgrade, Man!PlaceSwap, Man!Resume, Man!Shutdown, Man!SourceTask,
         Man!SourceStop, Man!SourceSwap, Man!SourcePoll, Man!NextBatch, Man!SourcePush,
         Man!ProcessorTask, Man!ProcessorStop, Man!ProcessorTop, Man!ProcessorPop,
         Man!ProcessorPush, Man!ProcessorPopEmpty, Man!ProcessorIdle, Man!DrainEnds,
         Man!ProcessorSwap, Man!SinkTask, Man!SinkPop, Man!SinkPopEmpty, Man!WriteBatch,
         Man!Flush, Man!SinkSwap, Man!SinkYield, Man!SinkEnd
<1>2. proc.at = "failed" => proc' = proc
  BY DEF Man!Next, Man!BeginSwap, Man!PlaceUpgrade, Man!Caller, Man!AwaitDrain, Man!AwaitSwap,
         Man!AwaitUpgrade, Man!PlaceSwap, Man!Resume, Man!Shutdown, Man!SourceTask,
         Man!SourceStop, Man!SourceSwap, Man!SourcePoll, Man!NextBatch, Man!SourcePush,
         Man!ProcessorTask, Man!ProcessorStop, Man!ProcessorTop, Man!ProcessorPop,
         Man!ProcessorPush, Man!ProcessorPopEmpty, Man!ProcessorIdle, Man!DrainEnds,
         Man!ProcessorSwap, Man!SinkTask, Man!SinkPop, Man!SinkPopEmpty, Man!WriteBatch,
         Man!Flush, Man!SinkSwap, Man!SinkYield, Man!SinkEnd
<1>3. snk.at = "failed" => snk' = snk
  BY DEF Man!Next, Man!BeginSwap, Man!PlaceUpgrade, Man!Caller, Man!AwaitDrain, Man!AwaitSwap,
         Man!AwaitUpgrade, Man!PlaceSwap, Man!Resume, Man!Shutdown, Man!SourceTask,
         Man!SourceStop, Man!SourceSwap, Man!SourcePoll, Man!NextBatch, Man!SourcePush,
         Man!ProcessorTask, Man!ProcessorStop, Man!ProcessorTop, Man!ProcessorPop,
         Man!ProcessorPush, Man!ProcessorPopEmpty, Man!ProcessorIdle, Man!DrainEnds,
         Man!ProcessorSwap, Man!SinkTask, Man!SinkPop, Man!SinkPopEmpty, Man!WriteBatch,
         Man!Flush, Man!SinkSwap, Man!SinkYield, Man!SinkEnd
<1> QED BY <1>1, <1>2, <1>3 DEF Man!AnyFailed

\* No replacement, upgrade or shutdown makes a batch disappear, for any calls
\* that overlap in any way, as long as a sink that only enqueues is not
\* replaced.
THEOREM BatchesConserved == SinkKept => (Man!Spec => []Man!Conserved)
<1> SUFFICES ASSUME SinkKept PROVE Man!Spec => []Man!Conserved
  OBVIOUS
<1> DEFINE Inv == ManInv /\ PendingHeld /\ Man!Conserved
<1>1. Man!Init => Inv
  <2> SUFFICES ASSUME Man!Init PROVE PendingHeld /\ Man!Conserved
    BY ManInit
  <2> QED BY DEF Man!Init, PendingHeld, Man!Conserved
<1>2. Inv /\ [Man!Next]_Man!vars => Inv'
  <2> SUFFICES ASSUME Inv, [Man!Next]_Man!vars PROVE PendingHeld' /\ Man!Conserved'
    BY ManStep
  <2>1. PendingHeld'
    BY PendingStep
  <2>2. CASE UNCHANGED Man!vars
    BY <2>1, <2>2 DEF Man!vars, Man!Conserved, Man!InFlight, Man!AnyFailed, Man!Range
  <2>3. CASE Man!Next /\ Man!AnyFailed'
    BY <2>1, <2>3 DEF Man!Conserved
  <2>4. CASE Man!Next /\ ~Man!AnyFailed'
    <3>1. ~Man!AnyFailed
      BY <2>4, FailedStays
    <3>2. 1 .. fetched \subseteq Somewhere
      BY <3>1 DEF Man!Conserved, Somewhere, ManInv, ManShape
    <3>3. fetched \in Nat
      BY DEF ManInv, ManShape
    <3>4. 1 .. fetched' \subseteq Somewhere'
      <4>1. CASE fetched' = fetched
        BY <2>4, <3>2, <4>1, NothingGoes
      <4>2. CASE fetched' # fetched
        <5>1. fetched' = fetched + 1 /\ Somewhere \cup {fetched'} \subseteq Somewhere'
          BY <2>4, <4>2, NothingGoes
        <5>2. 1 .. fetched' = (1 .. fetched) \cup {fetched'}
          BY <5>1, <3>3
        <5> QED BY <5>1, <5>2, <3>2
      <4> QED BY <4>1, <4>2
    <3> QED BY <2>1, <3>4 DEF Man!Conserved, Somewhere
  <2> QED BY <2>1, <2>2, <2>3, <2>4
<1> QED BY <1>1, <1>2, PTL DEF Man!Spec

\* outputs_sent and the ledger are credited only for outputs that reached the
\* outside, for any calls, failures and shutdowns.
THEOREM CreditsAreDelivered == SinkKept => (Man!Spec => []Man!CreditedIsDelivered)
<1> SUFFICES ASSUME SinkKept PROVE Man!Spec => []Man!CreditedIsDelivered
  OBVIOUS
<1> DEFINE Inv == ManInv /\ PendingHeld /\ Man!CreditedIsDelivered
<1>1. Man!Init => Inv
  <2> SUFFICES ASSUME Man!Init PROVE PendingHeld /\ Man!CreditedIsDelivered
    BY ManInit
  <2> QED BY DEF Man!Init, PendingHeld, Man!CreditedIsDelivered
<1>2. Inv /\ [Man!Next]_Man!vars => Inv'
  <2> SUFFICES ASSUME Inv, [Man!Next]_Man!vars PROVE PendingHeld' /\ Man!CreditedIsDelivered'
    BY ManStep
  <2>1. PendingHeld'
    BY PendingStep
  <2>2. Man!CreditedIsDelivered'
    BY OutputsTogether DEF PendingHeld, Man!CreditedIsDelivered
  <2> QED BY <2>1, <2>2
<1> QED BY <1>1, <1>2, PTL DEF Man!Spec

\* No canary takes a share of the events, and a snapshot or restore does not
\* fail.
Carried ==
  /\ ~MayFail /\ "canary" \notin Ops
  /\ Man!None \notin Calls \cup {First}

\* The instance that serves holds every effect.
StateCarried ==
  /\ proc.canary = Man!None /\ proc.current \in Man!Instances
  /\ proc.green \in Calls \cup {Man!None}
  /\ effects = [i \in Man!Instances |-> effects[i]]
  /\ out.processed \subseteq effects[proc.current]

\* A transfer hands all of them to the next one.
LEMMA TransferCarries ==
  ASSUME ~MayFail, StateCarried, NEW new \in Calls, effects' \in Man!Transfers(proc.current, new)
  PROVE  /\ effects' = [i \in Man!Instances |-> effects'[i]]
         /\ out.processed \subseteq effects'[new]
<1>1. effects' = [effects EXCEPT ![new] = IF effects[proc.current] = {} THEN @
                                          ELSE effects[proc.current]]
  BY DEF Man!Transfers
<1>2. new \in Man!Instances
  BY DEF Man!Instances
<1> QED BY <1>1, <1>2 DEF StateCarried

LEMMA CarriedStep ==
  ASSUME Carried, ManInv, StateCarried, [Man!Next]_Man!vars
  PROVE  StateCarried'
<1> USE DEF ManInv
<1>1. CASE Man!ProcessorTop
  <2>0. out' = out
    BY <1>1 DEF Man!ProcessorTop
  <2>1. CASE ctl.slot["upgrade"] = Man!None
    BY <1>1, <2>0, <2>1 DEF Man!ProcessorTop, StateCarried, ManShape
  <2>2. CASE ctl.slot["upgrade"] # Man!None
    <3>1. PICK c : c = ctl.slot["upgrade"]
      OBVIOUS
    <3>2. c \in Calls /\ call[c].op # "canary"
      BY <2>2, <3>1 DEF Carried, SlotsAsked, CallsKept, ManShape, Man!Slots
    <3>3. Man!TakeUpgrade(c)
      BY <1>1, <2>2, <3>1 DEF Man!ProcessorTop
    <3>4. PICK a, b, d :
            /\ proc' = [proc EXCEPT !.at = "pop", !.current = a, !.green = b, !.canary = d]
            /\ b \in {c, Man!None, proc.green} /\ d \in {Man!None, proc.canary}
            /\ \/ a = proc.current /\ effects' = effects
               \/ /\ proc.green # Man!None /\ a = proc.green
                  /\ effects' \in Man!Transfers(proc.current, proc.green)
      <4>1. CASE call[c].op = "cutover" /\ proc.green # Man!None
        BY <3>3, <4>1 DEF Man!TakeUpgrade, StateCarried
      <4>2. CASE call[c].op = "cutover" /\ proc.green = Man!None
        BY <3>3, <4>2 DEF Man!TakeUpgrade, StateCarried
      <4>3. CASE call[c].op = "complete"
        BY <3>3, <4>3 DEF Man!TakeUpgrade, StateCarried
      <4>4. CASE call[c].op \notin {"cutover", "complete"}
        BY <3>2, <3>3, <4>4 DEF Man!TakeUpgrade, StateCarried
      <4> QED BY <4>1, <4>2, <4>3, <4>4
    <3>5. /\ proc'.current = a /\ proc'.green = b /\ proc'.canary = d
      BY <3>4 DEF ManShape
    <3>6. CASE a = proc.current /\ effects' = effects
      BY <2>0, <3>2, <3>4, <3>5, <3>6 DEF StateCarried
    <3>7. CASE /\ proc.green # Man!None /\ a = proc.green
               /\ effects' \in Man!Transfers(proc.current, proc.green)
      <4>1. proc.green \in Calls
        BY <3>7 DEF StateCarried
      <4>2. /\ effects' = [i \in Man!Instances |-> effects'[i]]
            /\ out.processed \subseteq effects'[a]
        BY <3>7, <4>1, TransferCarries DEF Carried
      <4> QED BY <2>0, <3>2, <3>4, <3>5, <3>7, <4>1, <4>2 DEF StateCarried, Man!Instances
    <3> QED BY <3>4, <3>6, <3>7
  <2> QED BY <2>1, <2>2
<1>2. CASE Man!ProcessorPop
  <2>1. PICK e : e = Head(ring.src)
    OBVIOUS
  <2>2. /\ proc' = [proc EXCEPT !.at = "push", !.batch = e]
        /\ effects' = [effects EXCEPT ![Man!Route(e)] = @ \cup {e}]
        /\ out' = [out EXCEPT !.processed = @ \cup {e}]
    BY <1>2, <2>1 DEF Man!ProcessorPop, Carried
  <2>3. Man!Route(e) = proc.current
    BY DEF Man!Route, StateCarried
  <2>4. out'.processed = out.processed \cup {e}
    BY <2>2 DEF ManShape
  <2>5. proc'.current = proc.current /\ proc'.green = proc.green /\ proc'.canary = proc.canary
    BY <2>2 DEF ManShape
  <2> QED BY <2>2, <2>3, <2>4, <2>5 DEF StateCarried
<1>3. CASE Man!ProcessorSwap
  <2>1. PICK c : c = ctl.slot["processor"]
    OBVIOUS
  <2>2. /\ c \in Calls /\ out' = out /\ effects' \in Man!Transfers(proc.current, c)
        /\ proc' = [proc EXCEPT !.at = "top", !.current = c]
    BY <1>3, <2>1 DEF Man!ProcessorSwap, ManShape, Man!Slots
  <2>3. proc'.current = c /\ proc'.green = proc.green /\ proc'.canary = proc.canary
    BY <2>2 DEF ManShape
  <2>4. /\ effects' = [i \in Man!Instances |-> effects'[i]]
        /\ out.processed \subseteq effects'[c]
    BY <2>2, TransferCarries DEF Carried
  <2> QED BY <2>2, <2>3, <2>4 DEF StateCarried, Man!Instances
<1>4. CASE Man!ProcessorStop \/ Man!ProcessorPush \/ Man!ProcessorPopEmpty \/ Man!ProcessorIdle
           \/ Man!DrainEnds
  <2>1. /\ proc'.current = proc.current /\ proc'.green = proc.green /\ proc'.canary = proc.canary
        /\ UNCHANGED <<effects, out>>
    BY <1>4 DEF Man!ProcessorStop, Man!ProcessorPush, Man!ProcessorPopEmpty, Man!ProcessorIdle,
                Man!DrainEnds, ManShape
  <2> QED BY <2>1 DEF StateCarried
<1>5. CASE Man!SinkTask
  <2>1. UNCHANGED <<proc, effects>>
    BY <1>5 DEF Man!SinkTask, Man!SinkPop, Man!SinkPopEmpty, Man!WriteBatch, Man!Flush,
                Man!SinkSwap, Man!SinkYield, Man!SinkEnd
  <2>2. out'.processed = out.processed
    <3>1. CASE Man!WriteBatch
      BY <3>1 DEF Man!WriteBatch, ManShape
    <3>2. CASE Man!Flush \/ Man!SinkEnd
      <4>1. out' \in {out, Man!Flushed}
        BY <3>2 DEF Man!Flush, Man!SinkEnd
      <4> QED BY <4>1 DEF Man!Flushed, ManShape
    <3>3. CASE Man!SinkPop \/ Man!SinkPopEmpty \/ Man!SinkSwap \/ Man!SinkYield
      BY <3>3 DEF Man!SinkPop, Man!SinkPopEmpty, Man!SinkSwap, Man!SinkYield
    <3> QED BY <1>5, <3>1, <3>2, <3>3 DEF Man!SinkTask
  <2> QED BY <2>1, <2>2 DEF StateCarried
<1>6. CASE \/ \E c \in Calls, op \in Ops : Man!BeginSwap(c, op) \/ Man!PlaceUpgrade(c, op)
           \/ \E c \in Calls : Man!Caller(c)
           \/ Man!Shutdown \/ Man!SourceTask \/ UNCHANGED Man!vars
  <2>1. UNCHANGED <<proc, effects, out>>
    BY <1>6 DEF Man!BeginSwap, Man!PlaceUpgrade, Man!Caller, Man!AwaitDrain, Man!AwaitSwap,
                Man!AwaitUpgrade, Man!PlaceSwap, Man!Resume, Man!Shutdown, Man!SourceTask,
                Man!SourceStop, Man!SourceSwap, Man!SourcePoll, Man!NextBatch, Man!SourcePush,
                Man!vars
  <2> QED BY <2>1 DEF StateCarried
<1> QED BY <1>1, <1>2, <1>3, <1>4, <1>5, <1>6 DEF Man!Next, Man!ProcessorTask

\* The effect of every processed event is in the state of an instance in use,
\* through swaps and blue-green upgrades that overlap in any way, are cut over
\* or rolled back.
THEOREM StateIsCarried == Carried => (Man!Spec => []Man!StateSurvives)
<1> SUFFICES ASSUME Carried PROVE Man!Spec => []Man!StateSurvives
  OBVIOUS
<1>1. Man!Init => ManInv /\ StateCarried
  <2> SUFFICES ASSUME Man!Init PROVE StateCarried
    BY ManInit
  <2> QED BY DEF Man!Init, StateCarried, Man!Instances
<1>2. ManInv /\ StateCarried /\ [Man!Next]_Man!vars => (ManInv /\ StateCarried)'
  BY ManStep, CarriedStep
<1>3. StateCarried => Man!StateSurvives
  BY DEF StateCarried, Man!StateSurvives, Man!Instances, Carried
<1> QED BY <1>1, <1>2, <1>3, PTL DEF Man!Spec
=============================================================================
