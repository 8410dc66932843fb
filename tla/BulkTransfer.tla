---------------------------- MODULE BulkTransfer ----------------------------
(***************************************************************************)
(* The operator's drain and rebalance: cluster_bulk_transfer of            *)
(* rest_api.rs plans on a snapshot of the table and then proposes the      *)
(* moves one at a time with propose_partition_transfer of node.rs, while   *)
(* other requests, the transfer drivers and membership changes go on       *)
(* changing the table.                                                     *)
(***************************************************************************)
EXTENDS Rebalance

CONSTANTS
  Requests,    \* drain and rebalance requests the leader may be serving
  MaxChanges,  \* bound: RebalancePartitions entries
  MaxFails     \* bound: drives and proposals that fail, answers that are lost

VARIABLES
  table,    \* the committed table
  members,  \* voters and learners
  job,      \* per request: its plan and the proposal it awaits
  drives,   \* the drives under way on the targets, and the aborts they owe
  changes, fails

vars == <<table, members, job, drives, changes, fails>>

NoRead == [part |-> -1, node |-> -1, target |-> -1]
NewJob == [state |-> "new", node |-> -1, plan |-> <<>>, read |-> NoRead]

Move == Partitions \X Nodes
Reads == {NoRead} \union [part : Partitions, node : Nodes, target : Nodes]

Init ==
  /\ table \in [Partitions -> {o \in Ownership : (o.kind = "Owned") <=> (o.node = o.target)}]
  /\ members \in (SUBSET Nodes) \ {{}}
  /\ job = [r \in Requests |-> NewJob]
  /\ drives = {}
  /\ changes = 0 /\ fails = 0

\* cluster_bulk_transfer up to its loop: the table and the members are read
\* once.  An empty plan answers "noop".
StartJob(r, node, plan) ==
  /\ job[r].state = "new"
  /\ job' = [job EXCEPT ![r] =
       [NewJob EXCEPT !.state = IF plan = <<>> THEN "done" ELSE "run",
                      !.node = node, !.plan = plan]]
  /\ UNCHANGED <<table, members, drives, changes, fails>>

StartDrain(r, n) == StartJob(r, n, PlanDrain(table, n, members))
StartRebalance(r) == StartJob(r, -1, PlanRebalance(table, members))

\* The next proposal reads the owner from the committed state; a partition in
\* transfer, or already on its target, needs none.
ReadOwner(r) ==
  LET p == job[r].plan[1][1]  t == job[r].plan[1][2] IN
  /\ job[r].state = "run" /\ job[r].read = NoRead /\ job[r].plan # <<>>
  /\ job' = [job EXCEPT ![r] =
       IF table[p].kind = "Owned" /\ table[p].node # t
       THEN [@ EXCEPT !.read = [part |-> p, node |-> table[p].node, target |-> t]]
       ELSE [@ EXCEPT !.plan = Tail(@)]]
  /\ UNCHANGED <<table, members, drives, changes, fails>>

\* The loop goes on with its next move, whatever came of this one.
NextMove(r) == job' = [job EXCEPT ![r].read = NoRead, ![r].plan = Tail(@)]

\* BeginTransfer is committed; the state machine checks the owner again.
CommitBegin(r) ==
  LET b == job[r].read IN
  /\ b # NoRead
  /\ table' = ApplyRequest(table, BeginReq(b.part, b.node, b.target))
  /\ NextMove(r)
  /\ UNCHANGED <<members, drives, changes, fails>>

\* The proposal ends in an error, committed or not, and the loop goes on.
ProposalFails(r) ==
  LET b == job[r].read IN
  /\ b # NoRead /\ fails < MaxFails
  /\ table' \in {table, ApplyRequest(table, BeginReq(b.part, b.node, b.target))}
  /\ NextMove(r)
  /\ fails' = fails + 1
  /\ UNCHANGED <<members, drives, changes>>

JobDone(r) ==
  /\ job[r].state = "run" /\ job[r].plan = <<>>
  /\ job' = [job EXCEPT ![r].state = "done"]
  /\ UNCHANGED <<table, members, drives, changes, fails>>

\* NotLeader ends the loop; a proposal already submitted is not committed.
LoseLeadership(r) ==
  /\ fails < MaxFails /\ job[r].state = "run"
  /\ job' = [job EXCEPT ![r] = [NewJob EXCEPT !.state = "done"]]
  /\ fails' = fails + 1
  /\ UNCHANGED <<table, members, drives, changes>>

\* A drive of p on the node t, with the source it read from the table.
Drive(p, s, t) == [part |-> p, node |-> s, target |-> t, aborts |-> FALSE]
GiveUp(d) == drives' = (drives \ {d}) \union {[d EXCEPT !.aborts = TRUE]}

\* watch_loop on the target: no drive of p is under way there.
StartDrive(p) ==
  /\ table[p].kind = "Transferring"
  /\ \A d \in drives : d.part = p /\ d.target = table[p].target => d.aborts
  /\ drives' = drives \union {Drive(p, table[p].node, table[p].target)}
  /\ UNCHANGED <<table, members, job, changes, fails>>

\* drive_one_inner comes to its end and proposes CompleteTransfer, whatever
\* has become of the entry since; a rejection makes it give up.
CompleteTransfer(d) ==
  LET r == CompleteReq(d.part, d.target) IN
  /\ ~d.aborts
  /\ table' = ApplyRequest(table, r)
  /\ IF Accepts(table, r) THEN drives' = drives \ {d} ELSE GiveUp(d)
  /\ UNCHANGED <<members, job, changes, fails>>

\* A step of the drive fails, or the answer to its CompleteTransfer is lost.
DriveFails(d) ==
  /\ ~d.aborts /\ fails < MaxFails
  /\ table' \in {table, ApplyRequest(table, CompleteReq(d.part, d.target))}
  /\ GiveUp(d)
  /\ fails' = fails + 1
  /\ UNCHANGED <<members, job, changes>>

\* abort_with_reason: the entry is set to the drive's own source, whatever it
\* is by then; or the proposal, which is best effort, is not committed.
AbortTransfer(d) ==
  /\ d.aborts
  /\ drives' = drives \ {d}
  /\ \/ /\ table' = ApplyRequest(table, AbortReq(d.part, d.node))
        /\ UNCHANGED fails
     \/ /\ fails < MaxFails /\ fails' = fails + 1
        /\ UNCHANGED table
  /\ UNCHANGED <<members, job, changes>>

\* A membership change and the RebalancePartitions entry that follows it.
ChangeMembers(m) ==
  /\ changes < MaxChanges
  /\ changes' = changes + 1
  /\ members' = m
  /\ table' \in Rebalanced(table, m)
  /\ UNCHANGED <<job, drives, fails>>

Finished ==
  /\ \A r \in Requests : job[r].state = "done"
  /\ drives = {}
  /\ \A p \in Partitions : table[p].kind = "Owned"
  /\ UNCHANGED vars

Next ==
  \/ \E r \in Requests : \/ \E n \in Nodes : StartDrain(r, n)
                         \/ StartRebalance(r)
                         \/ ReadOwner(r) \/ CommitBegin(r) \/ ProposalFails(r)
                         \/ JobDone(r) \/ LoseLeadership(r)
  \/ \E p \in Partitions : StartDrive(p)
  \/ \E d \in drives : CompleteTransfer(d) \/ DriveFails(d) \/ AbortTransfer(d)
  \/ \E m \in (SUBSET Nodes) \ {{}} : ChangeMembers(m)
  \/ Finished

Spec == Init /\ [][Next]_vars

\* The drives of p on the node t go on until they have ended.
DriveOn(p, t) ==
  \E d \in drives : /\ d.part = p /\ d.target = t
                    /\ CompleteTransfer(d) \/ AbortTransfer(d)

\* The request's loop runs on, the targets see the table and their drives end.
FairSpec ==
  /\ Spec
  /\ \A r \in Requests : WF_vars(ReadOwner(r)) /\ WF_vars(CommitBegin(r))
  /\ \A p \in Partitions : WF_vars(StartDrive(p))
  /\ \A p \in Partitions, t \in Nodes : WF_vars(DriveOn(p, t))

-----------------------------------------------------------------------------
\* The table once every move of a plan has begun and completed.
Executed(t, plan) == ApplyMoves(t, plan)

\* TypeOK: the table maps every partition to an owner or a transfer, and a
\* request holds a plan of partition moves (PartitionTable, TransferStatus).
TypeOK ==
  /\ table \in Table /\ members \subseteq Nodes
  /\ \A r \in Requests : /\ job[r].state \in {"new", "run", "done"}
                         /\ \A i \in DOMAIN job[r].plan : job[r].plan[i] \in Move
                         /\ job[r].read \in Reads
  /\ drives \subseteq [part : Partitions, node : Nodes, target : Nodes, aborts : BOOLEAN]

\* DrainPlanEmpties: once the plan of plan_drain is carried out the node owns
\* nothing, whenever there is another member, and no target is given two
\* partitions more than another.
DrainPlanEmpties ==
  \A n \in Nodes :
    LET plan == PlanDrain(table, n, members)
        given(t) == Cardinality({i \in DOMAIN plan : plan[i][2] = t})
    IN members \ {n} # {} =>
         /\ OwnedBy(Executed(table, plan), n) = {}
         /\ \A t, u \in members \ {n} : given(t) <= given(u) + 1

\* RebalancePlanLevels: the plan of plan_rebalance moves only what a member
\* owns above the ceiling, leaves no member above it, and planning again on
\* the result finds nothing to do.
RebalancePlanLevels ==
  LET plan == PlanRebalance(table, members)
      after == Executed(table, plan)
  IN /\ \A n \in members : Cardinality(OwnedBy(after, n)) <= Ceiling(table, members)
     /\ PlanRebalance(after, members) = <<>>
     /\ \A i \in DOMAIN plan :
          \E n \in members : plan[i][1] \in ToSet(Surplus(table, members, n))

\* RebalanceEntryLevels: whatever order the table is iterated in, after a
\* RebalancePartitions entry every partition is served by one of the given
\* nodes, and their counts differ by one at most (compute_rebalance).
RebalanceEntryLevels ==
  \A t \in Rebalanced(table, members) :
    /\ \A p \in Partitions : ActiveNode(t[p]) \in members
    /\ \A n, m \in members : CountFor(t, n) <= CountFor(t, m) + 1

\* The owners a transfer of p may end with: its own target, or the source of
\* a drive of p that has given up.
Outcomes(p) ==
  {Owned(table[p].target)}
    \union {Owned(d.node) : d \in {e \in drives : e.part = p /\ e.aborts}}

\* TransferHonoured: "the in-flight transfer is honoured rather than fought".
\* However many drains and rebalances run at once, and whatever stale plans
\* they propose from, a transfer that has begun is ended only by the drives of
\* its partition: it goes to its own target, or back to where a drive that
\* gave up came from.  Only a membership change's entry may put it elsewhere.
TransferHonoured ==
  [][\A p \in Partitions :
       table[p].kind = "Transferring" /\ changes' = changes =>
         table'[p] = table[p] \/ table'[p] \in Outcomes(p)]_vars

\* OwnTransferAborted: "Abort an in-progress transfer - revert to source
\* ownership": a transfer that is aborted goes back to its own source.
OwnTransferAborted ==
  [][\A p \in Partitions :
       table[p].kind = "Transferring" /\ changes' = changes =>
         table'[p] \in {table[p], Owned(table[p].node), Owned(table[p].target)}]_vars

\* PlannedLeaves: a partition in the plan of a drain eventually leaves the
\* drained node, whatever other requests run (cluster_bulk_transfer).
PlannedLeaves ==
  \A r \in Requests : \A p \in Partitions : \A n \in Nodes :
    (/\ job[r].state = "run" /\ job[r].node = n
     /\ \E i \in DOMAIN job[r].plan : job[r].plan[i][1] = p)
      ~> ActiveNode(table[p]) # n

\* FloorOrCeiling: what rebalance.rs says of a plan: "After the plan executes
\* every member holds either floor or ceiling partitions".
FloorOrCeiling ==
  LET after == Executed(table, PlanRebalance(table, members))
      total == Cardinality(UNION {OwnedBy(table, n) : n \in members})
  IN \A n \in members :
       Cardinality(OwnedBy(after, n)) >= total \div Cardinality(members)

\* MinimumMoves: what partition_manager.rs says of compute_rebalance: "the
\* minimum set of partition moves"; a table that is level needs none.
MinimumMoves ==
  (/\ \A p \in Partitions : ActiveNode(table[p]) \in members
   /\ \A n, m \in members : CountFor(table, n) <= CountFor(table, m) + 1)
    => Rebalanced(table, members) = {table}
=============================================================================
