----------------------------- MODULE Rebalance -----------------------------
(***************************************************************************)
(* The algorithms that choose where partitions go: initial_assignment and  *)
(* compute_rebalance of partition_manager.rs, which the Raft state machine *)
(* runs when it applies an entry, and plan_drain and plan_rebalance of     *)
(* rebalance.rs, which the leader runs when an operator asks.              *)
(*                                                                         *)
(* Nodes and partitions are numbers, compared the way the code sorts them. *)
(* PartitionTable keeps its entries in a HashMap: an iteration visits the  *)
(* partitions in an order that differs from one process to the next, which *)
(* is the parameter "order" of ComputeRebalance.                           *)
(***************************************************************************)
EXTENDS PartitionTable, Integers, Sequences, FiniteSets, SequencesExt

Ascending(S) == SetToSortSeq(S, LAMBDA a, b : a < b)

\* partition_counts: the partitions a node serves.
CountFor(table, n) == Cardinality(PartitionsFor(table, n))

\* The partitions a node owns outright: the planners leave those in transfer
\* alone.
OwnedBy(table, n) == {p \in Partitions : table[p] = Owned(n)}

-----------------------------------------------------------------------------
(* Applied by every replica.                                               *)

\* initial_assignment: round robin over the nodes.
InitialAssignment(nodes) ==
  LET ns == Ascending(nodes) IN
    [p \in Partitions |->
       Owned(ns[(Cardinality({q \in Partitions : q < p}) % Len(ns)) + 1])]

\* compute_rebalance gives the first total % n nodes one partition more.
TargetCount(ns, i) ==
  LET total == Cardinality(Partitions) IN
    (total \div Len(ns)) + (IF i <= total % Len(ns) THEN 1 ELSE 0)

\* The moves: first the partitions served by a node outside the set, then the
\* excess of every overloaded node, each to the first node with room left.
ComputeRebalance(table, nodes, order) ==
  LET ns == Ascending(nodes)
      room(i) == TargetCount(ns, i) - CountFor(table, ns[i])
      slots == FlattenSeq([i \in DOMAIN ns |->
                 [k \in 1..(IF room(i) > 0 THEN room(i) ELSE 0) |-> ns[i]]])
      on(i) == SelectSeq(order, LAMBDA p : ActiveNode(table[p]) = ns[i])
      orphaned == SelectSeq(order, LAMBDA p : ActiveNode(table[p]) \notin nodes)
      movers == orphaned
                \o FlattenSeq([i \in DOMAIN ns |-> SubSeq(on(i), 1, -room(i))])
  IN [k \in DOMAIN movers \intersect DOMAIN slots |-> <<movers[k], slots[k]>>]

\* RebalancePartitions in apply_request: every move is a plain assignment, so
\* a partition in transfer that is moved is in transfer no more.
ApplyMoves(table, moves) ==
  [p \in Partitions |->
     IF \E k \in DOMAIN moves : moves[k][1] = p
     THEN Owned(moves[CHOOSE k \in DOMAIN moves : moves[k][1] = p][2])
     ELSE table[p]]

\* The orders in which a HashMap may be iterated.
Orders == SetToSeqs(Partitions)

Rebalanced(table, nodes) ==
  {ApplyMoves(table, ComputeRebalance(table, nodes, o)) : o \in Orders}

-----------------------------------------------------------------------------
(* Planned by the leader.                                                  *)

\* plan_drain: what the node owns, round robin to the others; nothing when
\* there is no other.
PlanDrain(table, node, members) ==
  LET targets == Ascending(members \ {node})
      mine == Ascending(OwnedBy(table, node))
  IN IF targets = <<>> THEN <<>>
     ELSE [i \in DOMAIN mine |->
             <<mine[i], targets[((i - 1) % Len(targets)) + 1]>>]

Ceiling(table, members) ==
  LET total == Cardinality(UNION {OwnedBy(table, n) : n \in members})
  IN (total + Cardinality(members) - 1) \div Cardinality(members)

\* What a member owns above the ceiling, lowest partitions first.
Surplus(table, members, n) ==
  LET mine == Ascending(OwnedBy(table, n))
  IN SubSeq(mine, 1, Len(mine) - Ceiling(table, members))

\* Mutant of PlanRebalance: the deficits are not counted down.
PlanRebalanceOneTarget(table, members) ==
  LET ms == Ascending(members)
      movers == FlattenSeq([i \in DOMAIN ms |-> Surplus(table, members, ms[i])])
      load == [n \in members |-> Cardinality(OwnedBy(table, n))]
      Pick == CHOOSE n \in members : \A m \in members :
                load[n] < load[m] \/ (load[n] = load[m] /\ n <= m)
  IN IF members = {} THEN <<>>
     ELSE SortSeq([i \in DOMAIN movers |-> <<movers[i], Pick>>],
                  LAMBDA a, b : a[1] < b[1])

\* plan_rebalance: the surplus of every member above the ceiling, each
\* partition to the member with the most room at that point.
PlanRebalance(table, members) ==
  LET ms == Ascending(members)
      movers == FlattenSeq([i \in DOMAIN ms |-> Surplus(table, members, ms[i])])
      Pick(load) == CHOOSE n \in members : \A m \in members :
                      load[n] < load[m] \/ (load[n] = load[m] /\ n <= m)
      load[i \in 0..Len(movers)] ==
        IF i = 0 THEN [n \in members |-> Cardinality(OwnedBy(table, n))]
        ELSE [load[i - 1] EXCEPT ![Pick(load[i - 1])] = @ + 1]
  IN IF members = {} THEN <<>>
     ELSE SortSeq([i \in DOMAIN movers |-> <<movers[i], Pick(load[i - 1])>>],
                  LAMBDA a, b : a[1] < b[1])
=============================================================================
