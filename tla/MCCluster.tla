----------------------------- MODULE MCCluster ------------------------------
(* The cluster's components for TLC: RaftLogStore, SegmentTransfer,         *)
(* BulkTransfer, ClusterMembership and RegistryReplication.  A behaviour is *)
(* about one of them, which its first state chooses; TLC so explores each   *)
(* component by itself in one run.  The components take turns in the        *)
(* variables x1, x2, ...                                                    *)
EXTENDS RaftLogStore, TLC

CONSTANTS n1, n2   \* nodes with a replica of the registry

VARIABLES
    part,   \* the component of the behaviour, with its settings
    x1, x2, x3, x4, x5, x6, x7, x8, x9, x10, x11, x12, x13   \* its variables

Parts == {"store", "segments", "collected", "plans", "requests", "serial", "join", "view",
          "runtime", "upgrades"}

Symmetry == Permutations({n1, n2})

\* The commands of RegistryReplication: those without a processor, and those
\* that bring the processor "p1".
Plain(names) == [op : names, proc : {"none"}]
Bring(names) == [op : names, proc : {"p1"}]
Swaps ==
    Plain({"create", "run", "stop", "delete"}) \cup [op : {"upgrade"}, proc : {"p0", "p1"}]
BlueGreens == Plain({"create", "run", "cutover", "rollback"}) \cup Bring({"blueGreen"})
EveryCommand ==
    Swaps \cup BlueGreens \cup Plain({"promote", "reconfigure"}) \cup Bring({"canary"})

\* Two transfers with a broken connection and a restart; one transfer while
\* the source collects segments.
Segments == INSTANCE SegmentTransfer WITH
    Nodes <- {"a", "b"}, NoNode <- "nobody", Encrypted <- FALSE,
    SegmentRecs <- 2, ChunkLen <- 2, MaxSeq <- 4, MaxTransfers <- 2,
    MaxFails <- 1, MaxGcs <- 0, MaxRestarts <- 1, owner <- x1, files <- x2,
    metas <- x3, store <- x4, writer <- x5, drive <- x6, budget <- x7

Collected == INSTANCE SegmentTransfer WITH
    Nodes <- {"a", "b"}, NoNode <- "nobody", Encrypted <- FALSE,
    SegmentRecs <- 2, ChunkLen <- 2, MaxSeq <- 4, MaxTransfers <- 1,
    MaxFails <- 1, MaxGcs <- 2, MaxRestarts <- 1, owner <- x1, files <- x2,
    metas <- x3, store <- x4, writer <- x5, drive <- x6, budget <- x7

\* Every table of four partitions, for the planners; two requests at once.
Plans == INSTANCE BulkTransfer WITH
    Nodes <- 1 .. 3, Partitions <- 0 .. 3, Requests <- {}, MaxChanges <- 0,
    MaxFails <- 0, table <- x1, members <- x2, job <- x3, drives <- x4,
    changes <- x5, fails <- x6

Requested == INSTANCE BulkTransfer WITH
    Nodes <- 1 .. 3, Partitions <- 0 .. 1, Requests <- {1, 2}, MaxChanges <- 1,
    MaxFails <- 1, table <- x1, members <- x2, job <- x3, drives <- x4,
    changes <- x5, fails <- x6

\* One call at a time; a join while another node is removed.
Serial == INSTANCE ClusterMembership WITH
    Nodes <- 1 .. 3, Partitions <- 0 .. 2, InitialMembers <- {1, 2},
    Joiner <- 3, Seeds <- <<>>, KeepsState <- TRUE, Slots <- {"s1"},
    Kinds <- {"add", "remove"}, MaxOps <- 2, MaxElections <- 1, MaxFails <- 1,
    MaxLog <- 4, voters <- x1, learners <- x2, leader <- x3, log <- x4,
    applied <- x5, table <- x6, ops <- x7, join <- x8, removed <- x9,
    failed <- x10, budget <- x11

Joining == INSTANCE ClusterMembership WITH
    Nodes <- 1 .. 3, Partitions <- 0 .. 1, InitialMembers <- {1, 2},
    Joiner <- 3, Seeds <- <<1, 2>>, KeepsState <- TRUE, Slots <- {"s1", "s2"},
    Kinds <- {"remove", "leave"}, MaxOps <- 1, MaxElections <- 1,
    MaxFails <- 1, MaxLog <- 4, voters <- x1, learners <- x2, leader <- x3,
    log <- x4, applied <- x5, table <- x6, ops <- x7, join <- x8,
    removed <- x9, failed <- x10, budget <- x11

\* Every command on two nodes; starts, stops and upgrades on one, and upgrades
\* in two steps (the nodes meet in the log and in snapshots only).  Builds
\* fail, tasks end, snapshots stand for entries, and entries are applied before
\* the applier is there.
View == INSTANCE RegistryReplication WITH
    Processors <- {"p0", "p1"}, Steps <- <<50, 100>>, Nodes <- {n1, n2},
    First <- "p0", Commands <- EveryCommand, MaxLog <- 2, MaxRestarts <- 1,
    MayFail <- TRUE, MayEnd <- TRUE, log <- x1, purged <- x2, has <- x3,
    snap <- x4, applied <- x5, slot <- x6, busy <- x7, pipe <- x8, task <- x9,
    meta <- x10, restarts <- x11, strayed <- x12, parted <- x13

Runtime == INSTANCE RegistryReplication WITH
    Processors <- {"p0", "p1"}, Steps <- <<50, 100>>, Nodes <- {"n"},
    First <- "p0", Commands <- Swaps, MaxLog <- 4, MaxRestarts <- 1,
    MayFail <- TRUE, MayEnd <- TRUE, log <- x1, purged <- x2, has <- x3,
    snap <- x4, applied <- x5, slot <- x6, busy <- x7, pipe <- x8, task <- x9,
    meta <- x10, restarts <- x11, strayed <- x12, parted <- x13

Upgrading == INSTANCE RegistryReplication WITH
    Processors <- {"p0", "p1"}, Steps <- <<50, 100>>, Nodes <- {"n"},
    First <- "p0", Commands <- BlueGreens, MaxLog <- 4, MaxRestarts <- 1,
    MayFail <- TRUE, MayEnd <- TRUE, log <- x1, purged <- x2, has <- x3,
    snap <- x4, applied <- x5, slot <- x6, busy <- x7, pipe <- x8, task <- x9,
    meta <- x10, restarts <- x11, strayed <- x12, parted <- x13

-----------------------------------------------------------------------------
(* One component at a time: it has the first variables, the others rest.    *)

Free0 == x1 = 0 /\ x2 = 0 /\ x3 = 0 /\ x4 = 0 /\ x5 = 0 /\ x6 = 0 /\ x7 = 0 /\
              x8 = 0 /\ x9 = 0 /\ x10 = 0 /\ x11 = 0 /\ x12 = 0 /\ x13 = 0
Free6 == x7 = 0 /\ x8 = 0 /\ x9 = 0 /\ x10 = 0 /\ x11 = 0 /\ x12 = 0 /\ x13 = 0
Free11 == x12 = 0 /\ x13 = 0
Free7 == x8 = 0 /\ x9 = 0 /\ x10 = 0 /\ x11 = 0 /\ x12 = 0 /\ x13 = 0
Only0 == UNCHANGED <<part, x1, x2, x3, x4, x5, x6, x7, x8, x9, x10, x11, x12, x13>>
Only6 == UNCHANGED <<part, vars, x7, x8, x9, x10, x11, x12, x13>>
Only7 == UNCHANGED <<part, vars, x8, x9, x10, x11, x12, x13>>
Only11 == UNCHANGED <<part, vars, x12, x13>>
Only13 == UNCHANGED <<part, vars>>

suite == <<part, vars, x1, x2, x3, x4, x5, x6, x7, x8, x9, x10, x11, x12, x13>>

SuiteInit ==
    /\ part \in Parts
    /\ Init
    /\ \/ part = "store" /\ Free0
       \/ part = "segments" /\ Segments!Init /\ Free7
       \/ part = "collected" /\ Collected!Init /\ Free7
       \/ part = "plans" /\ Plans!Init /\ Free6
       \/ /\ part = "requests" /\ x2 \in {{1, 2}, {1, 2, 3}} /\ Requested!Init /\ Free6
          /\ \A p \in 0 .. 1 : x1[p].kind = "Owned"
       \/ part = "serial" /\ Serial!Init /\ Free11
       \/ part = "join" /\ Joining!Init /\ Free11
       \/ part = "view" /\ View!Init
       \/ part = "runtime" /\ Runtime!Init
       \/ part = "upgrades" /\ Upgrading!Init

SuiteNext ==
    \/ part = "store" /\ Next /\ Only0
    \/ part = "segments" /\ Segments!Next /\ Only7
    \/ part = "collected" /\ Collected!Next /\ Only7
    \/ part = "requests" /\ Requested!Next /\ Only6
    \/ part = "serial" /\ Serial!Next /\ Only11
    \/ part = "join" /\ Joining!Next /\ Only11
    \/ part = "view" /\ View!Next /\ Only13
    \/ part = "runtime" /\ Runtime!Next /\ Only13
    \/ part = "upgrades" /\ Upgrading!Next /\ Only13
    \/ part \in {"store", "segments", "collected", "plans", "view", "runtime",
                  "upgrades"} /\ UNCHANGED suite

SuiteSpec == SuiteInit /\ [][SuiteNext]_suite

-----------------------------------------------------------------------------
(* Properties                                                               *)

\* SegmentTransfer: a bulk sync the driver takes for finished has installed
\* every segment of the manifest, each as long as the manifest says, and a
\* segment counted as received is byte for byte a segment of the source,
\* although the source appends to it between the stat, the CRC and the read.
CopiedWhole == part = "segments" => Segments!BulkInstalled /\ Segments!ReceivedWhole

\* Rebalance: the plan of plan_drain empties the node, whenever there is another
\* member, and gives no target two partitions more than another; the plan of
\* plan_rebalance moves only what a member owns above the ceiling and leaves no
\* member above it, so that planning again finds nothing to do; and in whatever
\* order the table is iterated, a RebalancePartitions entry leaves every
\* partition with one of the given nodes and their counts level.
PlansLevel ==
    part = "plans" =>
        Plans!DrainPlanEmpties /\ Plans!RebalancePlanLevels /\ Plans!RebalanceEntryLevels

\* BulkTransfer and SegmentTransfer: however many drains and rebalances run at
\* once, a transfer that has begun is ended only by the drives of its partition,
\* which give it to its own target or back to where a drive that gave up came
\* from, unless a membership change assigns the partition directly; and a store
\* never hands out a sequence number its directory already holds.
TransferHonoured ==
    /\ [][part = "requests" =>
            \A p \in 0 .. 1 :
              x1[p].kind = "Transferring" /\ x5' = x5 =>
                x1'[p] = x1[p] \/ x1'[p] \in Requested!Outcomes(p)]_suite
    /\ [][part = "collected" =>
            \A n \in {"a", "b"} :
              x4[n].open /\ x4'[n].open /\ x4'[n].next = x4[n].next + 1 =>
                x4[n].next \notin Collected!Records(n)]_suite

\* ClusterMembership: once every call has ended without an error, no replica's
\* table has a partition on a node that is not a member, and the members'
\* shares in it are level.  However leadership moves and answers are lost, no
\* call takes the leader out of the voters, and a node whose join() returned Ok
\* is a voter, unless somebody asked for its removal.
MembersServe ==
    /\ part = "serial" => Serial!OwnersAreMembers /\ Serial!MembersLevel
    /\ part = "join" => Joining!LeaderIsVoter /\ Joining!JoinedIsVoter

\* RegistryReplication: a node that was handed every entry holds the definition
\* the entries it has applied describe, through refused commands, failed builds,
\* restarts and the local update that follows an upgrade; and, where pipelines
\* are upgraded in one of the two ways, a task runs exactly where the definition
\* is running and serves the declared processor, after a failed build or a task
\* that ended again from the next stop on.
RegistryConverges ==
    /\ part = "view" => View!SameView
    /\ part = "runtime" => Runtime!SameView /\ Runtime!RuntimeFollows
    /\ part = "upgrades" => Upgrading!SameView /\ Upgrading!RuntimeFollows
=============================================================================
