--------------------------- MODULE PartitionTable ---------------------------
(***************************************************************************)
(* The replicated partition table of aeon-cluster and the requests of the  *)
(* Raft state machine that change it: PartitionOwnership and               *)
(* PartitionTable in types.rs, apply_request in store.rs.                  *)
(*                                                                         *)
(* A table is a function from partitions to ownerships.  RebalancePartitions*)
(* and InitialAssignment reduce to AssignPartition requests here; the      *)
(* algorithms that choose the moves are in module Rebalance.               *)
(***************************************************************************)

CONSTANTS Nodes, Partitions

Owned(n) == [kind |-> "Owned", node |-> n, target |-> n]
Transferring(s, t) == [kind |-> "Transferring", node |-> s, target |-> t]

Ownership == [kind : {"Owned", "Transferring"}, node : Nodes, target : Nodes]
Table == [Partitions -> Ownership]

\* active_node: the source serves the partition until the transfer is over.
ActiveNode(o) == o.node

\* partitions_for_node.
PartitionsFor(table, n) == {p \in Partitions : ActiveNode(table[p]) = n}

AssignReq(p, n)        == [op |-> "Assign", part |-> p, node |-> n, target |-> n]
BeginReq(p, s, t)      == [op |-> "Begin", part |-> p, node |-> s, target |-> t]
CompleteReq(p, n)      == [op |-> "Complete", part |-> p, node |-> n, target |-> n]
AbortReq(p, n)         == [op |-> "Abort", part |-> p, node |-> n, target |-> n]

Request == [op : {"Assign", "Begin", "Complete", "Abort"}, part : Partitions,
            node : Nodes, target : Nodes]

\* Mutant of Accepts: BeginTransfer is not validated again when it is applied.
AcceptsStale(table, r) ==
  LET cur == table[r.part] IN
    CASE r.op = "Complete" -> \/ cur.kind = "Transferring" /\ cur.target = r.node
                              \/ cur = Owned(r.node)
      [] OTHER             -> TRUE

\* The state machine's ClusterResponse: Ok or Error.
Accepts(table, r) ==
  LET cur == table[r.part] IN
    CASE r.op = "Begin"    -> cur = Owned(r.node)
      [] r.op = "Complete" -> \/ cur.kind = "Transferring" /\ cur.target = r.node
                              \/ cur = Owned(r.node)
      [] OTHER             -> TRUE

\* apply_request: an accepted request replaces the partition's entry, a
\* rejected one leaves the table alone.  Assign and Abort are never rejected.
ApplyRequest(table, r) ==
  IF Accepts(table, r)
  THEN [table EXCEPT ![r.part] =
          IF r.op = "Begin" THEN Transferring(r.node, r.target)
                            ELSE Owned(r.node)]
  ELSE table
=============================================================================
