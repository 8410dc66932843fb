------------------------- MODULE ClusterMembership -------------------------
(***************************************************************************)
(* Nodes join and leave a running cluster: add_node, remove_node, join and *)
(* propose of aeon-cluster's node.rs, the AddNode and RemoveNode handlers  *)
(* of transport/server.rs, cluster_leave of rest_api.rs, and the           *)
(* RebalancePartitions entries every replica applies.                      *)
(*                                                                         *)
(* openraft is external: it elects leaders among the voters, refuses a     *)
(* membership change asked of any other node, and commits entries in one   *)
(* log.  The membership every node reads is the committed one.             *)
(***************************************************************************)
EXTENDS Rebalance

CONSTANTS
  InitialMembers,
  Joiner,       \* the node that runs join()
  Seeds,        \* its seed_nodes, in order
  KeepsState,   \* TRUE for join_persistent: the node reads the state machine's
                \*   own table; FALSE for join()
  Slots,        \* calls and handlers that may be running at once
  Kinds,        \* what operators ask for: "add", "remove", "leave"
  MaxOps,       \* bound: operators' requests
  MaxElections, \* bound: leader changes
  MaxFails,     \* bound: errors of openraft or of the connection
  MaxLog        \* bound: committed entries

VARIABLES
  voters, learners, leader,
  log,      \* the committed entries
  applied,  \* how many of them each node has applied
  table,    \* each replica's table; Unassigned before the first assignment
  ops,      \* the membership calls in progress
  join,     \* the joining node's progress over its seeds
  removed,  \* nodes somebody asked to remove
  failed,   \* some call ended with an error
  budget

vars == <<voters, learners, leader, log, applied, table, ops, join, removed,
          failed, budget>>
raft == <<voters, learners, leader>>
replicas == <<log, applied, table>>

Unassigned == <<>>
NoOp == [kind |-> "none", node |-> 0, at |-> 0, stage |-> "idle", nodes |-> {}]
Members == voters \union learners
Entry(op, nodes) == [op |-> op, nodes |-> nodes]

Spend(what) == /\ budget[what] > 0
               /\ budget' = [budget EXCEPT ![what] = @ - 1]

Init ==
  /\ voters = InitialMembers /\ learners = {}
  /\ leader \in InitialMembers
  /\ log = <<Entry("Initial", InitialMembers)>>
  /\ applied = [n \in Nodes |-> 0]
  /\ table = [n \in Nodes |-> Unassigned]
  /\ ops = [s \in Slots |-> NoOp]
  /\ join = [state |-> "new", seed |-> 1, slot |-> "none", hint |-> 0]
  /\ removed = {} /\ failed = FALSE
  /\ budget = [ops |-> MaxOps, elections |-> MaxElections, fails |-> MaxFails]

-----------------------------------------------------------------------------
(* Raft and the replicas.                                                  *)

Elect(n) ==
  /\ n \in voters /\ n # leader
  /\ Spend("elections")
  /\ leader' = n
  /\ UNCHANGED <<voters, learners, ops, join, removed, failed>>
  /\ UNCHANGED replicas

Commit(e) == /\ Len(log) < MaxLog
             /\ log' = Append(log, e)

\* assign_initial_partitions once more, on a node that restarted.
AssignAgain ==
  /\ Commit(Entry("Initial", InitialMembers))
  /\ Spend("ops")
  /\ UNCHANGED <<applied, table, ops, join, removed, failed>> /\ UNCHANGED raft

\* apply_request: InitialAssignment only fills an empty table, and there is
\* nothing to rebalance in one.
Applied(t, e) ==
  IF e.op = "Initial"
  THEN {IF t = Unassigned THEN InitialAssignment(e.nodes) ELSE t}
  ELSE IF t = Unassigned THEN {t} ELSE Rebalanced(t, e.nodes)

ApplyNext(n) ==
  /\ n \in Members
  /\ applied[n] < Len(log)
  /\ applied' = [applied EXCEPT ![n] = @ + 1]
  /\ \E t \in Applied(table[n], log[applied[n] + 1]) :
       table' = [table EXCEPT ![n] = t]
  /\ UNCHANGED <<log, ops, join, removed, failed, budget>> /\ UNCHANGED raft

\* partition_table_snapshot: join() gives the node an empty state of its own.
PartitionTableSnapshot(n) ==
  IF n = Joiner /\ ~KeepsState THEN Unassigned ELSE table[n]

-----------------------------------------------------------------------------
(* The membership calls, one step per await.                               *)

SetOp(s, op) == ops' = [ops EXCEPT ![s] = op]
Stage(s, st) == SetOp(s, [ops[s] EXCEPT !.stage = st])

\* A step fails when its node leads no more, or for a reason of openraft's.
StepFails(s) ==
  /\ ops[s].stage \in {"learner", "promote", "demote", "drop", "propose"}
  /\ \/ ops[s].stage # "propose" /\ ops[s].at # leader /\ UNCHANGED budget
     \/ Spend("fails")
  /\ Stage(s, "failed")
  /\ failed' = TRUE
  /\ UNCHANGED <<join, removed>> /\ UNCHANGED raft /\ UNCHANGED replicas

Begin(s, kind, n, l, st) ==
  /\ ops[s].stage \in {"idle", "done", "failed"}
  /\ join.slot # s
  /\ kind \in Kinds
  /\ Spend("ops")
  /\ SetOp(s, [kind |-> kind, node |-> n, at |-> l, stage |-> st, nodes |-> {}])
  /\ UNCHANGED <<join, failed>> /\ UNCHANGED raft /\ UNCHANGED replicas

AddNode(s, n, l) == Begin(s, "add", n, l, "learner") /\ UNCHANGED removed

\* A node cannot remove itself.
RemoveNode(s, n, l) ==
  /\ n # l
  /\ Begin(s, "remove", n, l, "demote")
  /\ removed' = removed \union {n}

\* cluster_leave on n: the leader, asked by RPC, runs handle_remove_node.
Leave(s, n) ==
  /\ leader # n
  /\ Begin(s, "leave", n, leader, "demote")
  /\ removed' = removed \union {n}

OnLeader(s, st) == ops[s].stage = st /\ ops[s].at = leader

AddLearner(s) ==
  /\ OnLeader(s, "learner")
  /\ learners' = learners \union ({ops[s].node} \ voters)
  /\ Stage(s, "promote")
  /\ UNCHANGED <<voters, leader, join, removed, failed, budget>>
  /\ UNCHANGED replicas

\* AddVoterIds refuses a node it does not know.
Promote(s) ==
  LET n == ops[s].node IN
  /\ OnLeader(s, "promote")
  /\ IF n \in Members
     THEN /\ voters' = voters \union {n} /\ learners' = learners \ {n}
          /\ Stage(s, IF ops[s].kind = "add" THEN "read" ELSE "done")
          /\ UNCHANGED failed
     ELSE /\ UNCHANGED <<voters, learners>>
          /\ Stage(s, "failed") /\ failed' = TRUE
  /\ UNCHANGED <<leader, join, removed, budget>> /\ UNCHANGED replicas

\* RemoveVoters without retain: the node is no learner either.
Demote(s) ==
  /\ OnLeader(s, "demote")
  /\ voters' = voters \ {ops[s].node}
  /\ Stage(s, "drop")
  /\ UNCHANGED <<learners, leader, join, removed, failed, budget>>
  /\ UNCHANGED replicas

\* RemoveNodes: a learner goes, a voter (added again meanwhile) is refused.
\* The handler of the RPC stops here; remove_node goes on to rebalance.
DropNode(s) ==
  LET n == ops[s].node IN
  /\ OnLeader(s, "drop")
  /\ learners' = learners \ {n}
  /\ IF n \in voters
     THEN Stage(s, "failed") /\ failed' = TRUE
     ELSE /\ Stage(s, IF ops[s].kind = "remove" THEN "read" ELSE "done")
          /\ UNCHANGED failed
  /\ UNCHANGED <<voters, leader, join, removed, budget>> /\ UNCHANGED replicas

\* members(): voters and learners.
ReadMembers(s) ==
  /\ ops[s].stage = "read"
  /\ SetOp(s, [ops[s] EXCEPT !.nodes = Members, !.stage = "propose"])
  /\ UNCHANGED <<join, removed, failed, budget>> /\ UNCHANGED raft
  /\ UNCHANGED replicas

\* propose forwards to the leader when this node is not the leader any more.
ProposeRebalance(s) ==
  /\ ops[s].stage = "propose"
  /\ Commit(Entry("Rebalance", ops[s].nodes))
  /\ Stage(s, "done")
  /\ UNCHANGED <<applied, table, join, removed, failed, budget>>
  /\ UNCHANGED raft

-----------------------------------------------------------------------------
(* join(): the joining node asks its seeds in turn.                        *)

JoinOp(s) == [kind |-> "join", node |-> Joiner, at |-> s, stage |-> "learner",
              nodes |-> {}]

\* The loop goes to the next seed, and fails after the last.
NextSeed ==
  [join EXCEPT !.state = IF join.seed = Len(Seeds) THEN "failed" ELSE "ask",
               !.seed = @ + 1, !.slot = "none"]

StartJoin ==
  /\ join.state = "new" /\ Seeds # <<>>
  /\ join' = [join EXCEPT !.state = "ask"]
  /\ UNCHANGED <<ops, removed, failed, budget>> /\ UNCHANGED raft
  /\ UNCHANGED replicas

\* A seed that does not lead answers with the leader it knows; the answer is
\* logged and the next seed is tried.
SeedRejects ==
  /\ join.state = "ask" /\ Seeds[join.seed] # leader
  /\ join' = [NextSeed EXCEPT !.hint = leader]
  /\ UNCHANGED <<ops, removed, failed, budget>> /\ UNCHANGED raft
  /\ UNCHANGED replicas

\* The leader runs handle_add_node.
SeedAccepts(s) ==
  /\ join.state = "ask" /\ Seeds[join.seed] = leader
  /\ ops[s].stage \in {"idle", "done", "failed"}
  /\ SetOp(s, JoinOp(leader))
  /\ join' = [join EXCEPT !.state = "wait", !.slot = s]
  /\ UNCHANGED <<removed, failed, budget>> /\ UNCHANGED raft
  /\ UNCHANGED replicas

\* Mutant of JoinAnswer: an error after the learner step counts as joined.
JoinAnswerOptimistic ==
  /\ join.state = "wait" /\ ops[join.slot].stage \in {"done", "failed"}
  /\ join' = [join EXCEPT !.state = "joined", !.slot = "none"]
  /\ UNCHANGED <<ops, removed, failed, budget>> /\ UNCHANGED raft
  /\ UNCHANGED replicas

JoinAnswer ==
  /\ join.state = "wait" /\ ops[join.slot].stage \in {"done", "failed"}
  /\ join' = IF ops[join.slot].stage = "done"
             THEN [join EXCEPT !.state = "joined", !.slot = "none"] ELSE NextSeed
  /\ UNCHANGED <<ops, removed, failed, budget>> /\ UNCHANGED raft
  /\ UNCHANGED replicas

\* The connection breaks: the handler on the leader goes on all the same.
JoinLost ==
  /\ join.state = "wait" /\ Spend("fails")
  /\ join' = NextSeed
  /\ UNCHANGED <<ops, removed, failed>> /\ UNCHANGED raft
  /\ UNCHANGED replicas

-----------------------------------------------------------------------------
OpStep(s) == \/ AddLearner(s) \/ Promote(s) \/ Demote(s) \/ DropNode(s)
             \/ ReadMembers(s) \/ ProposeRebalance(s) \/ StepFails(s)

JoinStep == SeedRejects \/ JoinAnswer \/ \E s \in Slots : SeedAccepts(s)

Idle ==
  /\ \A s \in Slots : ops[s].stage \in {"idle", "done", "failed"}
  /\ join.state \in {"new", "joined", "failed"}

Next ==
  \/ \E n \in Nodes : Elect(n) \/ ApplyNext(n)
  \/ AssignAgain
  \/ \E s \in Slots :
       \/ OpStep(s)
       \/ \E n \in Nodes : \/ \E l \in voters : AddNode(s, n, l) \/ RemoveNode(s, n, l)
                           \/ Leave(s, n)
  \/ StartJoin \/ JoinStep \/ JoinLost
  \/ Idle /\ UNCHANGED vars

Spec == Init /\ [][Next]_vars

\* The calls in progress and the join loop run on.
FairSpec == /\ Spec
            /\ \A s \in Slots : WF_vars(OpStep(s))
            /\ WF_vars(JoinStep)

-----------------------------------------------------------------------------
\* Everything asked for is finished without an error, and n has applied it.
Settled(n) == Idle /\ ~failed /\ applied[n] = Len(log)

\* TypeOK: the membership, the log and the replicas' tables have their types
\* (Membership, ClusterRequest, PartitionTable).
TypeOK ==
  /\ voters \subseteq Nodes /\ learners \subseteq Nodes
  /\ voters \intersect learners = {} /\ leader \in Nodes
  /\ \A i \in DOMAIN log : log[i] \in [op : {"Initial", "Rebalance"}, nodes : SUBSET Nodes]
  /\ \A n \in Nodes : table[n] = Unassigned \/ table[n] \in Table
  /\ join.state \in {"new", "ask", "wait", "joined", "failed"}

\* LeaderIsVoter: no call, on whatever node it runs and however leadership
\* moves during it, takes the leader out of the voters, so a cluster never
\* loses its last voter ("The leader cannot remove itself").
LeaderIsVoter == leader \in voters

\* OwnersAreMembers: once every call has ended without an error, no replica's
\* table has a partition on a node that is not a member: what is asked for is
\* that partitions are rebalanced "away from the removed node".
OwnersAreMembers ==
  \A n \in Members : \A p \in Partitions :
    Settled(n) => ActiveNode(table[n][p]) \in Members

\* MembersLevel: once every call has ended without an error, the members'
\* shares in every replica's table differ by one at most, a member added last
\* included ("auto-rebalances").
MembersLevel ==
  \A n, a, b \in Members :
    Settled(n) => CountFor(table[n], a) <= CountFor(table[n], b) + 1

\* JoinedIsVoter: a node whose join() returned Ok is a voter, unless somebody
\* asked for its removal, also when answers were lost or leadership moved.
JoinedIsVoter ==
  join.state = "joined" /\ Joiner \notin removed => Joiner \in voters

\* JoinReturns: join() returns, whatever the seeds answer.
JoinReturns == join.state = "ask" ~> join.state \in {"joined", "failed"}

\* JoinReachesLeader: what join() says of a seed that is not the leader: "it
\* returns leader_id - retry against the actual leader".  A join does not fail
\* after it has been told of a leader.
JoinReachesLeader == join.state = "failed" => join.hint = 0

\* ReplicasAgree: what types.rs says of RebalancePartitions: "deterministic and
\* identical on all Raft replicas".
ReplicasAgree ==
  \A n, m \in Nodes : applied[n] = applied[m] => table[n] = table[m]

\* SnapshotIsCommitted: what partition_table_snapshot returns is "the current
\* partition table from the committed state".
SnapshotIsCommitted == \A n \in Members : PartitionTableSnapshot(n) = table[n]
=============================================================================
