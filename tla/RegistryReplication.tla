------------------------ MODULE RegistryReplication ------------------------
(***************************************************************************)
(* One pipeline's definition replicated through Raft: the REST handlers of *)
(* a cluster node propose a RegistryCommand, the state machine of every    *)
(* node (aeon-cluster/src/store.rs) hands the committed command to its     *)
(* ClusterRegistryApplier (aeon-engine/src/cluster_applier.rs), and that   *)
(* applies it to the local PipelineManager and PipelineSupervisor.  With   *)
(* it the snapshots, the restarts and the slot the applier is installed in.*)
(*                                                                         *)
(* Raft itself is openraft's: committed entries form one log, every node   *)
(* stores and applies it in order, a node that leads has all of it, and a  *)
(* node that lacks purged entries gets a snapshot.                         *)
(***************************************************************************)
EXTENDS PipelineManager

CONSTANTS
  Nodes,       \* the nodes of the cluster
  First,       \* the processor a pipeline is created with
  Commands,    \* the commands that may be proposed
  MaxLog,      \* bound on the committed commands
  MaxRestarts, \* bound on restarts
  MayFail,     \* TRUE: building a pipeline or a processor may fail on a node
  MayEnd       \* TRUE: a task may end by itself (source exhausted, or an error)

AllCommands ==
  [op : {"create", "run", "stop", "promote", "cutover", "rollback", "reconfigure", "delete"},
   proc : {None}] \cup [op : {"upgrade", "blueGreen", "canary"}, proc : Processors]

VARIABLES
  log,      \* committed commands
  purged,   \* entries no longer in the leader's log
  has,      \* has[n]: entries node n has received
  snap,     \* snap[n]: the entries node n's persisted snapshot covers
  applied,  \* applied[n]: last_applied_log
  slot,     \* slot[n]: registry_applier is filled
  busy,     \* busy[n]: apply waits in a call of PipelineControl
  pipe,     \* pipe[n]: the definition in n's PipelineManager
  task,     \* task[n]: the entry in n's PipelineSupervisor and its task
  meta,     \* upgrades whose local metadata update is still to come
  restarts, \* restarts so far
  strayed,  \* history: nodes whose definition has not come from the log alone
            \* since they started: an entry was passed over, or an upgrade's
            \* local update came after later entries
  parted    \* history: nodes where, since they last stopped the pipeline, a
            \* build failed, the task ended by itself, or such a late update
            \* changed the definition only

vars == <<log, purged, has, snap, applied, slot, busy, pipe, task, meta, restarts,
          strayed, parted>>

NoTask == [at |-> "none", run |-> NoProcessors]

TypeOK ==
  /\ \A i \in DOMAIN log : log[i] \in Commands
  /\ purged \in 0 .. Len(log) /\ {has, snap, applied} \subseteq [Nodes -> 0 .. Len(log)]
  /\ {slot, busy} \subseteq [Nodes -> BOOLEAN]
  /\ pipe \in [Nodes -> Definitions]
  /\ task \in [Nodes -> [at : {"none", "live", "ended"}, run : TaskProcessors]]
  /\ meta \subseteq [node : Nodes, index : 1 .. Len(log)]
  /\ restarts \in 0 .. MaxRestarts
  /\ {strayed, parted} \subseteq SUBSET Nodes

Init ==
  /\ log = <<>> /\ purged = 0
  /\ has = [n \in Nodes |-> 0] /\ snap = has /\ applied = has
  /\ slot = [n \in Nodes |-> FALSE] /\ busy = slot
  /\ pipe = [n \in Nodes |-> Absent]
  /\ task = [n \in Nodes |-> NoTask]
  /\ meta = {} /\ restarts = 0
  /\ strayed = {} /\ parted = {}

---------------------------------------------------------------------------
(* Proposing.                                                               *)

\* A handler runs on the leader (maybe_forward_to_leader), and its
\* propose_registry returns once the command is applied there; only an upgrade
\* has something left to do after that.
Propose(n, c) ==
  /\ Len(log) < MaxLog /\ has[n] = Len(log)
  /\ log' = Append(log, c)
  /\ has' = [has EXCEPT ![n] = @ + 1]
  /\ meta' = IF c.op = "upgrade"
             THEN meta \cup {[node |-> n, index |-> Len(log) + 1]} ELSE meta
  /\ UNCHANGED <<purged, snap, applied, slot, busy, pipe, task, restarts, strayed, parted>>

\* In a cluster pipeline_controls is never filled, so upgrade_pipeline takes
\* its metadata-only branch on the node that served the request.
LocalUpgrade(u) ==
  /\ u \in meta /\ applied[u.node] >= u.index
  /\ pipe' = [pipe EXCEPT ![u.node] = Upgrade(@, log[u.index].proc).def]
  /\ meta' = meta \ {u}
  /\ LET late == IF applied[u.node] > u.index THEN {u.node} ELSE {}
     IN  strayed' = strayed \cup late /\ parted' = parted \cup late
  /\ UNCHANGED <<log, purged, has, snap, applied, slot, busy, task, restarts>>

---------------------------------------------------------------------------
(* Raft.                                                                    *)

Receive(n) ==
  /\ has[n] < Len(log) /\ has[n] >= purged
  /\ has' = [has EXCEPT ![n] = @ + 1]
  /\ UNCHANGED <<log, purged, snap, applied, slot, busy, pipe, task, meta, restarts,
                 strayed, parted>>

\* build_snapshot: ClusterSnapshot holds no pipelines.
BuildSnapshot(n) ==
  /\ snap[n] < applied[n] /\ ~busy[n]
  /\ snap' = [snap EXCEPT ![n] = applied[n]]
  /\ UNCHANGED <<log, purged, has, applied, slot, busy, pipe, task, meta, restarts,
                 strayed, parted>>

Purge(n) ==
  /\ purged < snap[n]
  /\ purged' = snap[n]
  /\ UNCHANGED <<log, has, snap, applied, slot, busy, pipe, task, meta, restarts,
                 strayed, parted>>

\* install_snapshot: last_applied_log jumps, the PipelineManager is not touched.
InstallSnapshot(n, m) ==
  /\ has[n] < purged /\ snap[m] >= purged /\ ~busy[n]
  /\ \E i \in {snap[m], applied[m]} :
       /\ has' = [has EXCEPT ![n] = i]
       /\ snap' = [snap EXCEPT ![n] = i]
       /\ applied' = [applied EXCEPT ![n] = i]
  /\ strayed' = strayed \cup {n}
  /\ UNCHANGED <<log, purged, slot, busy, pipe, task, meta, restarts, parted>>

---------------------------------------------------------------------------
(* Applying.                                                                *)

\* PipelineManager::apply.
Outcome(d, c) ==
  CASE c.op = "create"      -> Create(d, First)
    [] c.op = "run"         -> ApplySetState(d, "running")
    [] c.op = "stop"        -> ApplySetState(d, "stopped")
    [] c.op = "upgrade"     -> ApplyUpgrade(d, c.proc)
    [] c.op = "blueGreen"   -> BlueGreen(d, c.proc)
    [] c.op = "canary"      -> Canary(d, c.proc)
    [] c.op = "promote"     -> Promote(d)
    [] c.op = "cutover"     -> Cutover(d)
    [] c.op = "rollback"    -> Rollback(d)
    [] c.op = "reconfigure" -> Reconfigure(d)
    [] c.op = "delete"      -> ApplyDelete(d)

\* The commands that end in a call of PipelineControl, and what it leaves.
Calls == {"upgrade", "blueGreen", "canary", "cutover", "rollback"}
CallEffect(t, c) ==
  CASE c.op = "upgrade"   -> Swapped(t, c.proc)
    [] c.op = "blueGreen" -> WithGreen(t, c.proc)
    [] c.op = "canary"    -> WithCanary(t, c.proc, Steps[1])
    [] c.op = "cutover"   -> CutOver(t)
    [] c.op = "rollback"  -> RolledBack(t)

\* What the supervisor makes of node n's entry with command c and outcome o.
\* A stop awaits the task; start reuses an entry whatever became of its task;
\* promote and reconfigure are declarative only.
Runtime(n, c, o) ==
  CASE c.op = "run" /\ task[n].at = "none"      -> [at |-> "live", run |-> Built(o.def)]
    [] c.op \in {"stop", "delete"}              -> NoTask
    [] c.op \in Calls /\ task[n].at = "live"    ->
         [task[n] EXCEPT !.run = CallEffect(@, c)]
    [] OTHER                                    -> task[n]

\* Command c has node n build a pipeline or a processor first.
Builds(n, c) ==
  \/ c.op = "run" /\ task[n].at = "none"
  \/ c.op \in {"upgrade", "blueGreen", "canary"} /\ task[n].at = "live"

\* The supervisor's part of an entry; when a build fails it is left undone.
Carry(n, c, o) ==
  \/ /\ task' = [task EXCEPT ![n] = Runtime(n, c, o)]
     /\ parted' = IF c.op \in {"stop", "delete"} THEN parted \ {n} ELSE parted
  \/ /\ MayFail /\ Builds(n, c)
     /\ parted' = parted \cup {n}
     /\ task' = task

\* A call on a task that has ended is never answered, and apply waits in it.
Hangs(n, c) == c.op \in Calls /\ task[n].at = "ended"

\* The next entry of node n reaches an applier, or is passed over.
ToApply(n) == applied[n] < has[n] /\ ~busy[n]

\* Mutant of ApplyEntry: a refused command is not counted as applied.
ApplyEntryHalts(n) ==
  /\ ToApply(n) /\ slot[n]
  /\ LET c == log[applied[n] + 1]
         o == Outcome(pipe[n], c)
     IN  /\ o.ok
         /\ applied' = [applied EXCEPT ![n] = @ + 1]
         /\ pipe' = [pipe EXCEPT ![n] = o.def]
         /\ Carry(n, c, o)
  /\ UNCHANGED <<log, purged, has, snap, slot, busy, meta, restarts, strayed>>

\* The declarative state first; a refused command ends there, except that a
\* delete stops the task before it asks.
ApplyEntry(n) ==
  /\ ToApply(n) /\ slot[n]
  /\ LET c == log[applied[n] + 1]
         o == Outcome(pipe[n], c)
     IN  /\ applied' = [applied EXCEPT ![n] = @ + 1]
         /\ pipe' = [pipe EXCEPT ![n] = o.def]
         /\ IF o.ok \/ c.op = "delete"
            THEN Carry(n, c, o) /\ busy' = [busy EXCEPT ![n] = Hangs(n, c)]
            ELSE UNCHANGED <<task, busy, parted>>
  /\ UNCHANGED <<log, purged, has, snap, slot, meta, restarts, strayed>>

\* "No local applier installed - replicate silently."
SkipEntry(n) ==
  /\ ToApply(n) /\ ~slot[n]
  /\ applied' = [applied EXCEPT ![n] = @ + 1]
  /\ strayed' = strayed \cup {n}
  /\ UNCHANGED <<log, purged, has, snap, slot, busy, pipe, task, meta, restarts, parted>>

InstallApplier(n) ==
  /\ ~slot[n]
  /\ slot' = [slot EXCEPT ![n] = TRUE]
  /\ UNCHANGED <<log, purged, has, snap, applied, busy, pipe, task, meta, restarts,
                 strayed, parted>>

TaskEnds(n) ==
  /\ MayEnd /\ task[n].at = "live"
  /\ task' = [task EXCEPT ![n].at = "ended"]
  /\ parted' = parted \cup {n}
  /\ UNCHANGED <<log, purged, has, snap, applied, slot, busy, pipe, meta, restarts, strayed>>

\* Mutant of Restart: the definitions are kept while the log is applied again.
RestartKeeps(n) ==
  /\ restarts < MaxRestarts
  /\ restarts' = restarts + 1
  /\ applied' = [applied EXCEPT ![n] = snap[n]]
  /\ slot' = [slot EXCEPT ![n] = FALSE] /\ busy' = [busy EXCEPT ![n] = FALSE]
  /\ task' = [task EXCEPT ![n] = NoTask]
  /\ meta' = {u \in meta : u.node # n}
  /\ strayed' = (strayed \ {n}) \cup (IF snap[n] > 0 THEN {n} ELSE {})
  /\ parted' = parted \ {n}
  /\ UNCHANGED <<log, purged, has, snap, pipe>>

\* The log and the last snapshot are on disk; hydrate_from_l3 restores
\* last_applied_log, and PipelineManager and supervisor are new.
Restart(n) ==
  /\ restarts < MaxRestarts
  /\ restarts' = restarts + 1
  /\ applied' = [applied EXCEPT ![n] = snap[n]]
  /\ slot' = [slot EXCEPT ![n] = FALSE] /\ busy' = [busy EXCEPT ![n] = FALSE]
  /\ pipe' = [pipe EXCEPT ![n] = Absent] /\ task' = [task EXCEPT ![n] = NoTask]
  /\ meta' = {u \in meta : u.node # n}
  /\ strayed' = (strayed \ {n}) \cup (IF snap[n] > 0 THEN {n} ELSE {})
  /\ parted' = parted \ {n}
  /\ UNCHANGED <<log, purged, has, snap>>

Next ==
  \E n \in Nodes :
    \/ \E c \in Commands : Propose(n, c)
    \/ \E u \in meta : LocalUpgrade(u)
    \/ Receive(n) \/ BuildSnapshot(n) \/ Purge(n)
    \/ \E m \in Nodes : InstallSnapshot(n, m)
    \/ ApplyEntry(n) \/ SkipEntry(n) \/ InstallApplier(n)
    \/ TaskEnds(n) \/ Restart(n)

Spec == Init /\ [][Next]_vars

\* openraft replicates, installs snapshots and applies on its own tasks; the
\* applier is installed by the start-up code.
Fairness ==
  \A n \in Nodes : /\ WF_vars(Receive(n)) /\ WF_vars(ApplyEntry(n))
                   /\ WF_vars(\E m \in Nodes : InstallSnapshot(n, m))
                   /\ WF_vars(InstallApplier(n))

FairSpec == Spec /\ Fairness

---------------------------------------------------------------------------
(* Properties.                                                              *)

\* The definition that the first k entries of the log describe.
Replayed(k) ==
  LET d[i \in 0 .. Len(log)] == IF i = 0 THEN Absent ELSE Outcome(d[i - 1], log[i]).def
  IN  d[k]

\* "every node converges on the same local view of pipelines": a node that was
\* handed every entry holds the definition the entries it has applied describe,
\* through refused commands, failed builds, restarts, calls that hang, and the
\* local update that follows an upgrade, unless later entries overtake that.
\* (registry_slot, registry_snapshot, registry_local: what happens otherwise.)
SameView == \A n \in Nodes \ strayed : pipe[n] = Replayed(applied[n])

\* The same of every node, strayed or not; it does not hold.
EveryView == \A n \in Nodes : pipe[n] = Replayed(applied[n])

\* "the running-task set converges with the replicated declarative state on
\* every node": a task runs exactly where the definition is running, and it
\* serves the declared processor, also on a node that passed over entries;
\* after a failed build or a task that ended, again from the next stop on.
RuntimeFollows ==
  \A n \in Nodes \ parted :
    /\ task[n].at = "live" <=> pipe[n].state \in {"running", "upgrading"}
    /\ task[n].at = "live" => RoutedShare(task[n].run) = DeclaredShare(pipe[n])

\* Every committed command is applied on every node.
EverywhereApplied ==
  \A n \in Nodes : \A i \in 1 .. MaxLog : (Len(log) >= i) ~> (applied[n] >= i)
=============================================================================
