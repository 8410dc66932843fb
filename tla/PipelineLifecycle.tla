------------------------- MODULE PipelineLifecycle -------------------------
(***************************************************************************)
(* The lifecycle of one pipeline on a standalone node: the REST handlers   *)
(* of aeon-engine/src/rest_api.rs, each a request that runs beside the     *)
(* others, over the definition kept by PipelineManager, the running tasks  *)
(* and write gates kept by PipelineSupervisor, and the control handle in   *)
(* AppState.pipeline_controls.                                             *)
(*                                                                         *)
(* A task stands for one run_buffered_managed; what a call of its          *)
(* PipelineControl does to it is taken as one step here and detailed in    *)
(* module ManagedPipeline.  The definition is the only one: pipelines of   *)
(* other names share no state with it.                                     *)
(***************************************************************************)
EXTENDS PipelineManager

CONSTANTS
  Requests,  \* requests that may be made, numbered in the order they are made
  Ops,       \* the operations they may be
  Serial,    \* TRUE: a request is made when no other is under way
  First,     \* the processor a pipeline is created with
  MayFail,   \* TRUE: building a connector or a processor may fail
  MayEnd     \* TRUE: a task may end by itself (source exhausted, or an error)

\* A task and its gate are named after the request that spawned it.
NoOne == 0

VARIABLES
  pipe,     \* the definition
  hist,     \* its history
  task,     \* task[r]: the task request r spawned
  running,  \* PipelineSupervisor.running: the task under the pipeline's name
  gate,     \* the gate registered under the pipeline's name
  control,  \* pipeline_controls: the handle, and the requests that hold a reference to it
  req       \* req[r]: the request's operation, place, arguments and locals

vars == <<pipe, hist, task, running, gate, control, req>>

NoTask == [at |-> "none", stop |-> FALSE, gate |-> NoOne, run |-> NoProcessors]

TypeOK ==
  /\ pipe \in Definitions
  /\ \A i \in DOMAIN hist : hist[i] \in [from : PipelineStates, to : PipelineStates]
  /\ task \in [Requests -> [at : {"none", "live", "ended"}, stop : BOOLEAN,
                            gate : Requests \cup {NoOne}, run : TaskProcessors]]
  /\ {running, gate, control.of} \subseteq Requests \cup {NoOne} /\ control.held \subseteq Requests
  /\ req \in [Requests -> [op : Ops \cup {None}, new : Processors \cup {None},
       at : {"new", "read", "check", "build", "insert", "install", "remove", "join",
             "uninstall", "look", "swap", "meta", "record", "apply", "done"},
       def : Definitions, task : Requests \cup {NoOne}, ok : BOOLEAN,
       note : Seq([from : PipelineStates, to : PipelineStates])]]

Init ==
  /\ pipe = Absent /\ hist = <<>>
  /\ task = [r \in Requests |-> NoTask]
  /\ running = NoOne /\ gate = NoOne
  /\ control = [of |-> NoOne, held |-> {}]
  /\ req = [r \in Requests |-> [op |-> None, new |-> None, at |-> "new", def |-> Absent,
                                task |-> NoOne, ok |-> FALSE, note |-> <<>>]]

Underway(r) == req[r].at \notin {"new", "done"}
At(r, a) == req[r].at = a
Goes(r, a) == req' = [req EXCEPT ![r].at = a]
Returns(r, ok) == req' = [req EXCEPT ![r].at = "done", ![r].ok = ok]

\* A request arrives: its first step is one on the definition, except for an
\* upgrade, which first looks for the control handle.
Arrives(r, op) ==
  /\ At(r, "new") /\ \A s \in Requests : s < r => ~At(s, "new")
  /\ Serial => \A s \in Requests : ~Underway(s)
  /\ op \in Ops

\* The first step of request r with outcome o: it goes on at a, or fails.
Declare(r, op, p, o, a) ==
  /\ pipe' = o.def
  /\ req' = [req EXCEPT ![r] = [@ EXCEPT !.op = op, !.new = p, !.ok = o.ok,
                                         !.at = IF o.ok THEN a ELSE "done",
                                         !.note = IF a = "record" THEN o.hist ELSE <<>>]]
  /\ hist' = IF op = "delete" /\ o.ok THEN <<>>
             ELSE IF a = "record" THEN hist ELSE hist \o o.hist

---------------------------------------------------------------------------
(* create_pipeline, reconfigure_source, reconfigure_sink, delete_pipeline.  *)

CreateRequest(r) ==
  /\ Arrives(r, "create") /\ Declare(r, "create", None, Create(pipe, First), "done")
  /\ UNCHANGED <<task, running, gate, control>>

\* Only the definition changes: no connector is swapped.
ReconfigureRequest(r) ==
  /\ Arrives(r, "reconfigure") /\ Declare(r, "reconfigure", None, Reconfigure(pipe), "done")
  /\ UNCHANGED <<task, running, gate, control>>

DeleteRequest(r) ==
  /\ Arrives(r, "delete") /\ Declare(r, "delete", None, Delete(pipe), "done")
  /\ UNCHANGED <<task, running, gate, control>>

---------------------------------------------------------------------------
(* start_pipeline and PipelineSupervisor::start.                            *)

StartRequest(r) ==
  /\ Arrives(r, "start")
  /\ Declare(r, "start", None, Start(pipe), "read")
  /\ UNCHANGED <<task, running, gate, control>>

StartRead(r) ==
  /\ At(r, "read")
  /\ req' = [req EXCEPT ![r] = [@ EXCEPT !.def = pipe, !.ok = pipe.state # "absent",
                                         !.at = IF pipe.state = "absent" THEN "done" ELSE "check"]]
  /\ UNCHANGED <<pipe, hist, task, running, gate, control>>

\* An entry under the name is reused, whatever became of its task.  The lock
\* on the running set is released before the pipeline is built.
StartCheck(r) ==
  /\ At(r, "check")
  /\ req' = [req EXCEPT ![r].task = running,
                        ![r].at = IF running = NoOne THEN "build" ELSE "install"]
  /\ UNCHANGED <<pipe, hist, task, running, gate, control>>

\* Connectors, processor and gate are built and the task is spawned.  What
\* fails may fail before or after the gate is created.
StartBuild(r) ==
  /\ At(r, "build")
  /\ \/ /\ gate' = IF gate = NoOne THEN r ELSE gate
        /\ task' = [task EXCEPT ![r] = [NoTask EXCEPT !.at = "live", !.gate = gate',
                                         !.run = Built(req[r].def)]]
        /\ req' = [req EXCEPT ![r].at = "insert", ![r].task = r]
     \/ /\ MayFail
        /\ gate' \in {gate, IF gate = NoOne THEN r ELSE gate}
        /\ Returns(r, FALSE)
        /\ UNCHANGED task
  /\ UNCHANGED <<pipe, hist, running, control>>

StartInsert(r) ==
  /\ At(r, "insert")
  /\ running' = r
  /\ Goes(r, "install")
  /\ UNCHANGED <<pipe, hist, task, gate, control>>

\* The handle goes into pipeline_controls; a write waits for readers.
StartInstall(r) ==
  /\ At(r, "install") /\ control.held = {}
  /\ control' = [control EXCEPT !.of = req[r].task]
  /\ Returns(r, TRUE)
  /\ UNCHANGED <<pipe, hist, task, running, gate>>

---------------------------------------------------------------------------
(* stop_pipeline and PipelineSupervisor::stop.                              *)

StopRequest(r) ==
  /\ Arrives(r, "stop")
  /\ Declare(r, "stop", None, Stop(pipe), "remove")
  /\ UNCHANGED <<task, running, gate, control>>

\* The entry leaves the running set and its shutdown flag is set.
StopRemove(r) ==
  /\ At(r, "remove")
  /\ running' = NoOne
  /\ task' = [t \in Requests |-> IF t = running THEN [task[t] EXCEPT !.stop = TRUE] ELSE task[t]]
  /\ req' = [req EXCEPT ![r].task = running,
                        ![r].at = IF running = NoOne THEN "uninstall" ELSE "join"]
  /\ UNCHANGED <<pipe, hist, gate, control>>

\* Mutant of StopJoin: stop does not wait for the task.
StopJoinNot(r) ==
  /\ At(r, "join")
  /\ gate' = NoOne
  /\ Goes(r, "uninstall")
  /\ UNCHANGED <<pipe, hist, task, running, control>>

\* The task is awaited, then every gate under the pipeline's name is dropped.
StopJoin(r) ==
  /\ At(r, "join") /\ task[req[r].task].at = "ended"
  /\ gate' = NoOne
  /\ Goes(r, "uninstall")
  /\ UNCHANGED <<pipe, hist, task, running, control>>

StopUninstall(r) ==
  /\ At(r, "uninstall") /\ control.held = {}
  /\ control' = [control EXCEPT !.of = NoOne]
  /\ Returns(r, TRUE)
  /\ UNCHANGED <<pipe, hist, task, running, gate>>

---------------------------------------------------------------------------
(* upgrade_pipeline: hot swap first, definition after.                      *)

\* The reference into pipeline_controls is held until the handler returns.
UpgradeRequest(r, p) ==
  /\ Arrives(r, "upgrade")
  /\ req' = [req EXCEPT ![r] = [@ EXCEPT !.op = "upgrade", !.new = p, !.task = control.of,
                                         !.at = IF control.of = NoOne THEN "meta" ELSE "swap"]]
  /\ control' = IF control.of = NoOne THEN control ELSE [control EXCEPT !.held = @ \cup {r}]
  /\ UNCHANGED <<pipe, hist, task, running, gate>>

\* drain_and_swap returns once the processor task has taken the replacement.
UpgradeSwap(r) ==
  /\ At(r, "swap")
  /\ \/ /\ task[req[r].task].at = "live"
        /\ task' = [task EXCEPT ![req[r].task].run = Swapped(@, req[r].new)]
        /\ Goes(r, "meta")
        /\ UNCHANGED control
     \/ /\ MayFail
        /\ Returns(r, FALSE)
        /\ control' = [control EXCEPT !.held = @ \ {r}]
        /\ UNCHANGED task
  /\ UNCHANGED <<pipe, hist, running, gate>>

\* A refused metadata update after a swap is only logged.
UpgradeMeta(r) ==
  /\ At(r, "meta")
  /\ LET o == Upgrade(pipe, req[r].new) IN
     /\ pipe' = o.def /\ hist' = hist \o o.hist
     /\ Returns(r, o.ok \/ req[r].task # NoOne)
  /\ control' = [control EXCEPT !.held = @ \ {r}]
  /\ UNCHANGED <<task, running, gate>>

---------------------------------------------------------------------------
(* upgrade_blue_green, upgrade_canary, cutover_pipeline, rollback_pipeline, *)
(* promote_canary: definition first, runtime after.                         *)

BlueGreenRequest(r, p) ==
  /\ Arrives(r, "blueGreen") /\ Declare(r, "blueGreen", p, BlueGreen(pipe, p), "record")
  /\ UNCHANGED <<task, running, gate, control>>

CanaryRequest(r, p) ==
  /\ Arrives(r, "canary") /\ Declare(r, "canary", p, Canary(pipe, p), "record")
  /\ UNCHANGED <<task, running, gate, control>>

CutoverRequest(r) ==
  /\ Arrives(r, "cutover") /\ Declare(r, "cutover", None, Cutover(pipe), "record")
  /\ UNCHANGED <<task, running, gate, control>>

RollbackRequest(r) ==
  /\ Arrives(r, "rollback") /\ Declare(r, "rollback", None, Rollback(pipe), "record")
  /\ UNCHANGED <<task, running, gate, control>>

PromoteRequest(r) ==
  /\ Arrives(r, "promote") /\ Declare(r, "promote", None, Promote(pipe), "record")
  /\ UNCHANGED <<task, running, gate, control>>

\* record_history runs after the lock on the definition is dropped.
Record(r) ==
  /\ At(r, "record")
  /\ hist' = hist \o req[r].note
  /\ req' = [req EXCEPT ![r].at = "look", ![r].note = <<>>]
  /\ UNCHANGED <<pipe, task, running, gate, control>>

\* Without a handle the request is done; a promotion that finds no canary in
\* the definition makes no call.
Look(r) ==
  /\ At(r, "look")
  /\ \/ /\ control.of = NoOne \/ (req[r].op = "promote" /\ pipe.up.kind # "canary")
        /\ Returns(r, TRUE)
        /\ UNCHANGED control
     \/ /\ control.of # NoOne /\ ~(req[r].op = "promote" /\ pipe.up.kind # "canary")
        /\ req' = [req EXCEPT ![r].at = "apply", ![r].task = control.of, ![r].def = pipe]
        /\ control' = [control EXCEPT !.held = @ \cup {r}]
  /\ UNCHANGED <<pipe, hist, task, running, gate>>

\* The call of PipelineControl the request makes.
Effect(r, t) ==
  LET op == req[r].op
      pct == Steps[req[r].def.up.step]
  IN  CASE op = "blueGreen" -> WithGreen(t, req[r].new)
        [] op = "canary"    -> WithCanary(t, req[r].new, Steps[1])
        [] op = "cutover"   -> CutOver(t)
        [] op = "rollback"  -> RolledBack(t)
        [] op = "promote"   -> IF pct >= 100 THEN Completed(t) ELSE WithPct(t, pct)

ApplyRuntime(r) ==
  /\ At(r, "apply")
  /\ \/ /\ task[req[r].task].at = "live"
        /\ task' = [task EXCEPT ![req[r].task].run = Effect(r, @)]
        /\ Returns(r, TRUE)
     \/ /\ MayFail /\ req[r].op \in {"blueGreen", "canary"}
        /\ Returns(r, FALSE)
        /\ UNCHANGED task
  /\ control' = [control EXCEPT !.held = @ \ {r}]
  /\ UNCHANGED <<pipe, hist, running, gate>>

---------------------------------------------------------------------------

\* A task ends after its shutdown flag is set or, when it may, by itself.
TaskEnds(t) ==
  /\ task[t].at = "live" /\ (task[t].stop \/ MayEnd)
  /\ task' = [task EXCEPT ![t].at = "ended"]
  /\ UNCHANGED <<pipe, hist, running, gate, control, req>>

Handler(r) ==
  \/ StartRead(r) \/ StartCheck(r) \/ StartBuild(r) \/ StartInsert(r) \/ StartInstall(r)
  \/ StopRemove(r) \/ StopJoin(r) \/ StopUninstall(r)
  \/ UpgradeSwap(r) \/ UpgradeMeta(r)
  \/ Record(r) \/ Look(r) \/ ApplyRuntime(r)

Next ==
  \E r \in Requests :
    \/ CreateRequest(r) \/ ReconfigureRequest(r) \/ DeleteRequest(r)
    \/ StartRequest(r) \/ StopRequest(r)
    \/ \E p \in Processors : UpgradeRequest(r, p) \/ BlueGreenRequest(r, p) \/ CanaryRequest(r, p)
    \/ CutoverRequest(r) \/ RollbackRequest(r) \/ PromoteRequest(r)
    \/ Handler(r)
    \/ TaskEnds(r)

Spec == Init /\ [][Next]_vars

\* Handlers are polled when they can go on.  A task that is told to stop need
\* not end: its source may wait for room in a ring that nobody empties any more.
Fairness == \A r \in Requests : WF_vars(Handler(r))

FairSpec == Spec /\ Fairness

---------------------------------------------------------------------------
(* Properties.                                                              *)

Quiet == \A r \in Requests : ~Underway(r)
Live(t) == t # NoOne /\ task[t].at = "live"
\* Request r waits for the end of the task it told to stop.
Awaits(r) == At(r, "join") /\ Live(req[r].task)
Declared == pipe.state \in {"running", "upgrading"}

\* "Running and processing events": when no request is under way a live task
\* is recorded exactly when the definition says the pipeline runs.
Converged == Quiet => (Declared <=> Live(running))

\* When no request is under way events go to the processors the definition
\* names, through every upgrade, cutover, promotion, rollback and restart.
ServesDeclared ==
  (Quiet /\ Declared /\ Live(running)) => RoutedShare(task[running].run) = DeclaredShare(pipe)

\* No task is left that nobody can stop: a live task is recorded as running,
\* told to stop, or in the hands of the request that spawned it.
NoOrphan ==
  \A t \in Requests :
    Live(t) => (running = t \/ task[t].stop \/ (At(t, "insert") /\ req[t].task = t))

\* The gate of the recorded task is the one a cutover finds in the registry.
GateRegistered ==
  (Live(running) /\ ~task[running].stop) => gate = task[running].gate

\* Two tasks never consume the same source at once.
OneTask == \A s, t \in Requests : (Live(s) /\ Live(t)) => s = t

\* The history is a chain: an entry starts in the state the one before it
\* ended in, and the last one ends in the current state.
HistoryChains ==
  /\ \A i \in 1 .. Len(hist) - 1 : hist[i].to = hist[i + 1].from
  /\ (Quiet /\ hist # <<>>) => hist[Len(hist)].to = pipe.state

\* The connectors of the running task are those of the definition.
ServesConfiguration ==
  (Quiet /\ Declared /\ Live(running)) => task[running].run.conf = pipe.conf

\* A start that returns Ok leaves a pipeline that runs.
StartRuns ==
  [][\A r \in Requests :
       (At(r, "install") /\ req'[r].at = "done" /\ req'[r].ok) => Live(req[r].task)]_vars

\* Every request is answered.
RequestsReturn == \A r \in Requests : Underway(r) ~> At(r, "done")
=============================================================================
