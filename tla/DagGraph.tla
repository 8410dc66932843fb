----------------------------- MODULE DagGraph -----------------------------
(* The topology graph of a pipeline: built node by node and edge by edge,   *)
(* then validated.  Parallel edges are kept, as the code's Vec keeps them,  *)
(* and the order in which a HashMap yields the nodes is free.               *)
EXTENDS Naturals, FiniteSets, FiniteSetsExt, Relation

CONSTANTS
    Names,
    MaxEdges,      \* bound on the calls of add_edge that succeed
    Multiplicity   \* bound on parallel edges

Kinds  == {"source", "processor", "sink", "router"}
Absent == "absent"

VARIABLES
    nodes,     \* kind of each name, or Absent
    edges,     \* number of edges from -> to
    verdict,   \* "building", "sorting", "ok", or the error of validate
    inDegree, queue, visited   \* the locals of detect_cycles

vars == <<nodes, edges, verdict, inDegree, queue, visited>>

Present  == {n \in Names : nodes[n] # Absent}
Pairs    == Names \X Names
Count(E) == MapThenSumSet(LAMBDA p : E[p], Pairs)

Init ==
    /\ nodes = [n \in Names |-> Absent]
    /\ edges = [p \in Pairs |-> 0]
    /\ verdict = "building"
    /\ inDegree = [n \in Names |-> 0]
    /\ queue = {} /\ visited = 0

\* add_node; a duplicate name is an error that changes nothing.
AddNode(n, kind) ==
    /\ verdict = "building" /\ n \notin Present
    /\ nodes' = [nodes EXCEPT ![n] = kind]
    /\ UNCHANGED <<edges, verdict, inDegree, queue, visited>>

\* add_edge; an unknown end is an error that changes nothing.
AddEdge(from, to) ==
    /\ verdict = "building" /\ from \in Present /\ to \in Present
    /\ Count(edges) < MaxEdges /\ edges[<<from, to>>] < Multiplicity
    /\ edges' = [edges EXCEPT ![<<from, to>>] = @ + 1]
    /\ UNCHANGED <<nodes, verdict, inDegree, queue, visited>>

Incoming(n) == \E m \in Names : edges[<<m, n>>] > 0
Outgoing(n) == \E m \in Names : edges[<<n, m>>] > 0

\* The checks of validate before the cycles: the first that fails decides.
Structure ==
    CASE ~\E n \in Present : nodes[n] = "source" -> "no source"
      [] ~\E n \in Present : nodes[n] = "sink" -> "no sink"
      [] \E n \in Present : nodes[n] = "source" /\ Incoming(n) -> "fed source"
      [] \E n \in Present : nodes[n] = "sink" /\ Outgoing(n) -> "feeding sink"
      [] OTHER -> "sorting"

\* The number of edges that end in a node.
Degree(n) == Count([p \in Pairs |-> IF p[2] = n THEN edges[p] ELSE 0])

\* validate up to the first pop of detect_cycles' queue.
Validate ==
    /\ verdict = "building"
    /\ verdict' = Structure
    /\ inDegree' = [n \in Names |-> Degree(n)]
    /\ queue' = {n \in Present : Degree(n) = 0}
    /\ visited' = 0
    /\ UNCHANGED <<nodes, edges>>

\* One node popped: each of its edges takes one off the target's degree, and
\* a target at zero joins the queue.
Pop(n) ==
    /\ verdict = "sorting" /\ n \in queue
    /\ visited' = visited + 1
    /\ inDegree' = [m \in Names |-> inDegree[m] - edges[<<n, m>>]]
    /\ queue' = (queue \ {n}) \cup {m \in Present : edges[<<n, m>>] > 0 /\ inDegree'[m] = 0}
    /\ UNCHANGED <<nodes, edges, verdict>>

AllVisited == visited = Cardinality(Present)

Finish ==
    /\ verdict = "sorting" /\ queue = {}
    /\ verdict' = IF AllVisited THEN "ok" ELSE "cycle"
    /\ UNCHANGED <<nodes, edges, inDegree, queue, visited>>

Next == \/ \E n \in Names, kind \in Kinds : AddNode(n, kind)
        \/ \E p \in Pairs : AddEdge(p[1], p[2])
        \/ Validate \/ Finish
        \/ \E n \in Names : Pop(n)

Spec == Init /\ [][Next]_vars

-----------------------------------------------------------------------------
(* Properties                                                                *)

\* The paths of the graph.
Path == TransitiveClosure([p \in Pairs |-> edges[p] > 0], Names)

\* The decrements of detect_cycles stay at or above zero (the expect and the
\* unsigned subtraction cannot fail), and no node is visited twice.
TypeOK ==
    /\ nodes \in [Names -> Kinds \cup {Absent}]
    /\ inDegree \in [Names -> Nat]
    /\ queue \subseteq Present
    /\ visited + Cardinality(queue) <= Cardinality(Present)

\* detect_cycles says "cycle" for exactly the graphs that have one.
CycleFound ==
    /\ verdict = "ok" => \A n \in Names : ~Path[n, n]
    /\ verdict = "cycle" => \E n \in Names : Path[n, n]

\* "reachability": every sink of a validated graph is reached from a source.
SinksReached ==
    verdict = "ok" =>
        \A n \in Present : nodes[n] = "sink" =>
            \E m \in Present : nodes[m] = "source" /\ Path[m, n]
=============================================================================
