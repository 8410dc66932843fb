------------------------- MODULE PartitionHandover -------------------------
(***************************************************************************)
(* A partition moves from one node to another: the operator's              *)
(* BeginTransfer, the driver on the target node (bulk sync, PoH chain,     *)
(* cutover, CompleteTransfer or AbortTransfer), the write gate on the      *)
(* source node, the committed log every node applies at its own pace, and  *)
(* the source loops that start and stop reading the partition.             *)
(*                                                                         *)
(* Sources: aeon-cluster partition_driver.rs, transfer.rs, node.rs,        *)
(* store.rs, transport/cutover.rs; aeon-engine engine_cutover.rs,          *)
(* pipeline.rs, pipeline_supervisor.rs, eo2.rs.  Raft itself (openraft) is *)
(* external: a single committed log.  The gate is abstracted to open or    *)
(* closed, which is what module WriteGate establishes of it.               *)
(*                                                                         *)
(* The source loop the supervisor starts (run_buffered_managed) neither    *)
(* asks the gate nor moves its source: it hands a changed slice to         *)
(* MaybeL2Wrapped, which has no reassign_partitions of its own, so the     *)
(* trait's default does nothing.  run_buffered asks the gate.  Gated and   *)
(* Forwards together are the loop the comments describe; a run that sets   *)
(* both grants the protocol more than the code has.                        *)
(***************************************************************************)
EXTENDS PartitionTable, Integers, Sequences, TLC

CONSTANTS
  Gated,        \* the source loop enters the gate before a fetch: run_buffered
                \*   does, run_buffered_managed does not
  Forwards,     \* the source rewires itself when it is handed a new slice:
                \*   KafkaSource does, MaybeL2Wrapped around it does not
  NoNode,
  Zero,         \* partition 0, which the supervisor's gate and the Kafka
                \*   source's fallback are for; it need not be modelled
  MaxTransfers, \* bound: transfers the operator starts
  MaxFails,     \* bound: steps that fail and messages that are lost
  MaxLog,       \* bound: committed entries
  MaxTasks,     \* bound: drive_one tasks spawned and not yet running
  MaxOffset,    \* bound: events fetched per node and partition
  MaxRestarts,  \* bound: pipeline restarts
  MaxMoves      \* bound: ownership moves by a rebalance

ASSUME HandoverAssumption ==
  /\ Gated \in BOOLEAN /\ Forwards \in BOOLEAN
  /\ NoNode \notin Nodes /\ Partitions # {}
  /\ \A b \in {MaxTransfers, MaxFails, MaxLog, MaxTasks, MaxOffset,
             MaxRestarts, MaxMoves} : b \in Nat

VARIABLES
  log,       \* the committed entries
  ctable,    \* the table after all of them: what the leader answers from
  applied,   \* how many entries each node has applied
  table,     \* each node's table after its applied entries
  late,      \* proposals reported as failed that may still be committed
  tasks,     \* spawned drive_one calls, by target, partition and source
  drv,       \* the transfer drivers, by node and partition
  running,   \* the nodes on which the pipeline runs
  gate,      \* the write gates, "none" where no gate is registered
  assigned,  \* the partitions each node's source reads
  watch,     \* the owned-partitions watch as the source loop sees it
  offset,    \* the durable watermark of each partition on each node
  budget     \* what is left of the bounds

vars == <<log, ctable, applied, table, late, tasks, drv, running,
          gate, assigned, watch, offset, budget>>

raftVars   == <<log, ctable, late>>
engineVars == <<running, gate, assigned, watch, offset>>

Phases == {"none", "connect", "bulk", "poh", "cutover", "complete", "abort"}
NoDrive == [phase |-> "none", source |-> NoNode, final |-> 0]

\* The drive of p on node t moves to phase ph.
SetPhase(t, p, ph) == drv' = [drv EXCEPT ![t][p].phase = ph]
EndDrive(t, p) == drv' = [drv EXCEPT ![t][p] = NoDrive]

Spend(what) == /\ budget[what] > 0
               /\ budget' = [budget EXCEPT ![what] = @ - 1]

\* The node's source loop fetches from p.
Serving(n, p) ==
  /\ n \in running /\ p \in assigned[n]
  /\ Gated => gate[n][p] = "Open"

\* The gates a pipeline registers: the supervisor creates partition 0's, a
\* gated run one per partition.
FreshGates == [p \in Partitions |-> IF Gated \/ p = Zero THEN "Open" ELSE "none"]

\* What the connector factory reads: the owned slice, or partition 0 when
\* the node owns nothing.
SourceFor(T, n) == IF PartitionsFor(T, n) = {} THEN {Zero} \cap Partitions
                                          ELSE PartitionsFor(T, n)

\* Raft commits r: the leader applies it and answers from the result.
CommitEntry(r) ==
  /\ Len(log) < MaxLog
  /\ log' = Append(log, r)
  /\ ctable' = ApplyRequest(ctable, r)

Init ==
  \E owner \in [Partitions -> Nodes] :
    /\ ctable = [p \in Partitions |-> Owned(owner[p])]
    /\ table = [n \in Nodes |-> ctable]
    /\ running = Nodes
    /\ assigned = [n \in Nodes |-> SourceFor(ctable, n)]
    /\ watch = [n \in Nodes |-> IF PartitionsFor(ctable, n) = {} THEN "unsent"
                                                             ELSE "seen"]
    /\ log = <<>>
    /\ applied = [n \in Nodes |-> 0]
    /\ late = {}
    /\ tasks = [n \in Nodes |-> [p \in Partitions |-> [s \in Nodes |-> 0]]]
    /\ drv = [n \in Nodes |-> [p \in Partitions |-> NoDrive]]
    /\ gate = [n \in Nodes |-> FreshGates]
    /\ offset = [n \in Nodes |-> [p \in Partitions |-> 0]]
    /\ budget = [transfers |-> MaxTransfers, fails |-> MaxFails,
                 restarts |-> MaxRestarts, moves |-> MaxMoves]

-----------------------------------------------------------------------------
(* The leader and the replicas.                                            *)

\* propose_partition_transfer on a node whose view shows p owned.
BeginTransfer(p, t) ==
  /\ Spend("transfers")
  /\ \E l \in Nodes : /\ table[l][p].kind = "Owned"
                      /\ table[l][p].node # t
                      /\ CommitEntry(BeginReq(p, table[l][p].node, t))
  /\ UNCHANGED <<applied, table, tasks, late, drv>> /\ UNCHANGED engineVars

\* A rebalance after a membership change assigns p directly.
RebalanceMove(p, n) ==
  /\ Spend("moves")
  /\ CommitEntry(AssignReq(p, n))
  /\ UNCHANGED <<applied, table, tasks, late, drv>> /\ UNCHANGED engineVars

\* A node applies its next committed entry and publishes the new table; the
\* watch is sent to when the node's own slice has changed.
ApplyNext(n) ==
  LET new == ApplyRequest(table[n], log[applied[n] + 1]) IN
  /\ applied[n] < Len(log)
  /\ table' = [table EXCEPT ![n] = new]
  /\ applied' = [applied EXCEPT ![n] = @ + 1]
  /\ watch' = [watch EXCEPT ![n] =
                 IF PartitionsFor(new, n) # PartitionsFor(table[n], n)
                 THEN "changed" ELSE @]
  /\ UNCHANGED <<tasks, drv, running, gate, assigned, offset, budget>>
  /\ UNCHANGED raftVars

\* A proposal its caller gave up on is committed after all.
LateCommit(r) ==
  /\ r \in late
  /\ CommitEntry(r)
  /\ late' = late \ {r}
  /\ UNCHANGED <<applied, table, tasks, drv, budget>> /\ UNCHANGED engineVars

-----------------------------------------------------------------------------
(* The transfer driver on the target node t.                               *)

\* watch_loop finds p Transferring to this node in the node's own table and
\* no tracker for p, and spawns drive_one with the source it read.
WatchTick(t, p) ==
  LET o == table[t][p] IN
  /\ drv[t][p].phase = "none"
  /\ o.kind = "Transferring" /\ o.target = t
  /\ tasks[t][p][o.node] < MaxTasks
  /\ tasks' = [tasks EXCEPT ![t][p][o.node] = @ + 1]
  /\ UNCHANGED <<applied, table, drv, budget>> /\ UNCHANGED raftVars
  /\ UNCHANGED engineVars

\* A spawned drive_one runs: it inserts a tracker, or gives up when a drive
\* of p is in flight.  The transfer it was spawned for may be over by now.
StartDrive(t, p) ==
  /\ \E s \in Nodes :
       /\ tasks[t][p][s] > 0
       /\ tasks' = [tasks EXCEPT ![t][p][s] = @ - 1]
       /\ \/ /\ drv[t][p].phase = "none"
             /\ drv' = [drv EXCEPT ![t][p] =
                          [phase |-> "connect", source |-> s, final |-> 0]]
          \/ drv[t][p].phase # "none" /\ UNCHANGED drv
  /\ UNCHANGED <<applied, table, budget>> /\ UNCHANGED raftVars
  /\ UNCHANGED engineVars

\* Mutant of Connect: a failed drive leaves its tracker in the map.
ConnectLeaksTracker(t, p) ==
  /\ drv[t][p].phase = "connect"
  /\ \/ SetPhase(t, p, "bulk") /\ UNCHANGED budget
     \/ SetPhase(t, p, "leaked") /\ Spend("fails")
  /\ UNCHANGED <<applied, table, tasks>> /\ UNCHANGED raftVars /\ UNCHANGED engineVars

\* resolve_address or connect: an error ends the drive without an abort.
Connect(t, p) ==
  /\ drv[t][p].phase = "connect"
  /\ \/ SetPhase(t, p, "bulk") /\ UNCHANGED budget
     \/ EndDrive(t, p) /\ Spend("fails")
  /\ UNCHANGED <<applied, table, tasks>> /\ UNCHANGED raftVars /\ UNCHANGED engineVars

\* request_partition_transfer installs the source's segments as they are
\* now; the source keeps running.
BulkSync(t, p) ==
  /\ drv[t][p].phase = "bulk"
  /\ \/ /\ offset' = [offset EXCEPT ![t][p] = offset[drv[t][p].source][p]]
        /\ SetPhase(t, p, "poh")
        /\ UNCHANGED budget
     \/ SetPhase(t, p, "abort") /\ Spend("fails") /\ UNCHANGED offset
  /\ UNCHANGED <<applied, table, tasks, running, gate, assigned, watch>>
  /\ UNCHANGED raftVars

\* request_poh_chain_transfer and the install.
PohTransfer(t, p) ==
  /\ drv[t][p].phase = "poh"
  /\ \/ SetPhase(t, p, "cutover") /\ UNCHANGED budget
     \/ SetPhase(t, p, "abort") /\ Spend("fails")
  /\ UNCHANGED <<applied, table, tasks>> /\ UNCHANGED raftVars /\ UNCHANGED engineVars

\* drain_and_freeze on the source: closes the gate, if there is one.
CloseGate(s, p) ==
  gate' = [gate EXCEPT ![s][p] = IF @ = "none" THEN "none" ELSE "Closed"]

\* request_partition_cutover: the source drains, freezes and answers with
\* its final watermark; or it drained too slowly or its answer is lost, with
\* the gate closed; or the request never arrived.
Cutover(t, p) ==
  /\ drv[t][p].phase = "cutover"
  /\ \/ /\ CloseGate(drv[t][p].source, p)
        /\ drv' = [drv EXCEPT ![t][p].phase = "complete",
                              ![t][p].final = offset[drv[t][p].source][p]]
        /\ UNCHANGED budget
     \/ /\ Spend("fails")
        /\ SetPhase(t, p, "abort")
        /\ CloseGate(drv[t][p].source, p) \/ UNCHANGED gate
  /\ UNCHANGED <<applied, table, tasks, running, assigned, watch, offset>>
  /\ UNCHANGED raftVars

\* propose_with_forward(CompleteTransfer).  The caller sees Ok, the state
\* machine's rejection, or an error; an error says nothing of the entry: it
\* was never proposed, was committed, or will be.
ProposeComplete(t, p) ==
  LET r == CompleteReq(p, t) IN
  /\ drv[t][p].phase = "complete"
  /\ \/ /\ CommitEntry(r)
        /\ IF Accepts(ctable, r) THEN EndDrive(t, p) ELSE SetPhase(t, p, "abort")
        /\ UNCHANGED <<late, budget>>
     \/ /\ Spend("fails")
        /\ SetPhase(t, p, "abort")
        /\ \/ UNCHANGED raftVars
           \/ CommitEntry(r) /\ UNCHANGED late
           \/ late' = late \cup {r} /\ UNCHANGED <<log, ctable>>
  /\ UNCHANGED <<applied, table, tasks>> /\ UNCHANGED engineVars

\* abort_with_reason: propose AbortTransfer{revert_to: source}, best effort,
\* and drop the tracker whatever comes of it.
ProposeAbort(t, p) ==
  LET r == AbortReq(p, drv[t][p].source) IN
  /\ drv[t][p].phase = "abort"
  /\ EndDrive(t, p)
  /\ \/ CommitEntry(r) /\ UNCHANGED <<late, budget>>
     \/ /\ Spend("fails")
        /\ \/ UNCHANGED raftVars
           \/ late' = late \cup {r} /\ UNCHANGED <<log, ctable>>
  /\ UNCHANGED <<applied, table, tasks>> /\ UNCHANGED engineVars

-----------------------------------------------------------------------------
(* The pipelines.                                                          *)

\* The source loop sees the owned-partitions watch change and hands the
\* slice, empty or not, to its source.
Reassign(n) ==
  /\ n \in running /\ watch[n] = "changed"
  /\ watch' = [watch EXCEPT ![n] = "seen"]
  /\ assigned' = IF Forwards THEN [assigned EXCEPT ![n] = PartitionsFor(table[n], n)]
                              ELSE assigned
  /\ UNCHANGED <<applied, table, tasks, drv, running, gate, offset, budget>>
  /\ UNCHANGED raftVars

\* next_batch with its L2 append.
Fetch(n, p) ==
  /\ Serving(n, p)
  /\ offset[n][p] < MaxOffset
  /\ offset' = [offset EXCEPT ![n][p] = @ + 1]
  /\ UNCHANGED <<applied, table, tasks, drv, running, gate, assigned, watch, budget>>
  /\ UNCHANGED raftVars

\* PipelineSupervisor::stop (or a crash): the gates go with the pipeline.
StopPipeline(n) ==
  /\ n \in running
  /\ Spend("restarts")
  /\ running' = running \ {n}
  /\ gate' = [gate EXCEPT ![n] = [p \in Partitions |-> "none"]]
  /\ assigned' = [assigned EXCEPT ![n] = {}]
  /\ UNCHANGED <<applied, table, tasks, drv, watch, offset>> /\ UNCHANGED raftVars

\* PipelineSupervisor::start: fresh gates, and a source over the partitions
\* the node's own table gives it.  The subscription is a clone of a receiver
\* that never looked, so its relay sends the slice again at once if the
\* node's watch was ever sent to.
StartPipeline(n) ==
  /\ n \notin running
  /\ running' = running \cup {n}
  /\ gate' = [gate EXCEPT ![n] = FreshGates]
  /\ assigned' = [assigned EXCEPT ![n] = SourceFor(table[n], n)]
  /\ watch' = [watch EXCEPT ![n] = IF @ = "unsent" THEN "unsent" ELSE "changed"]
  /\ UNCHANGED <<applied, table, tasks, drv, offset, budget>> /\ UNCHANGED raftVars

-----------------------------------------------------------------------------
DriveStep(t, p) ==
  \/ WatchTick(t, p) \/ StartDrive(t, p) \/ Connect(t, p) \/ BulkSync(t, p) 
  \/ PohTransfer(t, p) \/ Cutover(t, p) \/ ProposeComplete(t, p) \/ ProposeAbort(t, p)

Next ==
  \/ \E p \in Partitions, n \in Nodes :
       BeginTransfer(p, n) \/ RebalanceMove(p, n) \/ DriveStep(n, p) \/ Fetch(n, p)
  \/ \E n \in Nodes :
       ApplyNext(n) \/ Reassign(n) \/ StopPipeline(n) \/ StartPipeline(n)
  \/ \E r \in late : LateCommit(r)

Spec == Init /\ [][Next]_vars

\* Raft replicates, the drivers' tasks and the source loops keep running;
\* nobody owes the operator a request, a failure or a restart.
Fairness ==
  /\ \A n \in Nodes : WF_vars(ApplyNext(n)) /\ WF_vars(Reassign(n))
  /\ \A n \in Nodes, p \in Partitions : WF_vars(DriveStep(n, p))

FairSpec == Spec /\ Fairness

-----------------------------------------------------------------------------
(* Properties.                                                             *)

\* Every variable ranges over the states the code can be in.
TypeOK ==
  /\ log \in Seq(Request) /\ Len(log) <= MaxLog
  /\ ctable \in Table
  /\ applied \in [Nodes -> 0..Len(log)]
  /\ table \in [Nodes -> Table]
  /\ late \subseteq Request
  /\ tasks \in [Nodes -> [Partitions -> [Nodes -> Nat]]]
  /\ drv \in [Nodes -> [Partitions -> [phase : Phases,
                                       source : Nodes \cup {NoNode}, final : Nat]]]
  /\ running \subseteq Nodes
  /\ gate \in [Nodes -> [Partitions -> {"none", "Open", "Closed"}]]
  /\ assigned \in [Nodes -> SUBSET Partitions]
  /\ watch \in [Nodes -> {"unsent", "seen", "changed"}]
  /\ offset \in [Nodes -> [Partitions -> Nat]]
  /\ budget \in [{"transfers", "fails", "restarts", "moves"} -> Nat]


\* A transfer in progress is resolved: the driver is started again after
\* every failure until it commits a completion or an abort.
TransferResolves ==
  \A p \in Partitions :
    (ctable[p].kind = "Transferring") ~> (ctable[p].kind = "Owned")

\* A running source ends up reading exactly what the committed table gives
\* its node: a transfer commit triggers reassign_partitions "on the live
\* source instead of a pipeline restart" (pipeline.rs).
SourceFollowsTable ==
  \A n \in Nodes : []<>(n \in running => assigned[n] = PartitionsFor(ctable, n))

\* "After a successful response, the source guarantees no further writes
\* will be accepted until the caller either commits the Raft ownership flip
\* or aborts the transfer" (transport/cutover.rs).
FrozenUntilDecided ==
  \A t \in Nodes, p \in Partitions :
    drv[t][p].phase = "complete" => ~Serving(drv[t][p].source, p)

\* "The target uses these [watermarks] to know when it has fully caught up
\* and can start accepting writes" (CutoverOffsets): a drive that completes
\* holds everything the source had made durable when it froze.
TargetCaughtUp ==
  [][\A t \in Nodes, p \in Partitions :
       drv[t][p].phase = "complete" /\ drv'[t][p].phase = "none"
         => offset[t][p] >= drv[t][p].final]_vars

\* "Abort an in-progress transfer - revert to source ownership": an abort
\* only ever ends the transfer that is in progress.
AbortEndsOwnTransfer ==
  [][Len(log') > Len(log) =>
       LET r == log'[Len(log')] IN
         r.op = "Abort" => ActiveNode(ctable[r.part]) = r.node]_vars

\* "the source's write gate auto-releases on the abort-flip": a partition
\* whose transfers are all over is served by its owner in the end.
ServedAgain ==
  \A p \in Partitions :
    <>[](\A n \in Nodes : drv[n][p].phase = "none" /\ applied[n] = Len(log))
      => []<>(Serving(ctable[p].node, p))

\* The nodes are interchangeable: nothing compares them.
Symmetry == Permutations(Nodes)
=============================================================================
