----------------------------- MODULE MCProgress -----------------------------
(* What must eventually happen, for TLC: a behaviour is about one           *)
(* component, which its first state chooses among Parts and which then has  *)
(* the variables to itself.                                                 *)
EXTENDS Integers, Sequences, FiniteSets, SequencesExt

CONSTANT Parts   \* the components this run explores

VARIABLES
    part,   \* the component of the behaviour, with its settings
    x1, x2, x3, x4, x5, x6, x7, x8, x9, x10, x11, x12, x13, x14, x15, x16, x17,
            x18, x19, x20, x21, x22   \* its variables

\* Batches of a DagRunner source, whose events are numbered through.
Batches(s, sizes) ==
    [b \in 1 .. Len(sizes) |->
        LET before == FoldLeft(LAMBDA x, y : x + y, 0, SubSeq(sizes, 1, b - 1))
        IN  [i \in 1 .. sizes[b] |-> [id |-> <<s, before + i>>, source |-> s]]]
InputsOf(sources, sizes, max) ==
    {[s \in sources |-> Batches(s, z[s])] : z \in [sources -> SeqOf(sizes, max)]}
FirstBranch(e) == 1

Store == INSTANCE RaftLogStore WITH
    MaxIndex <- 2, MaxTerm <- 2, PurgeAll <- FALSE, dVote <- x1,
    dCommitted <- x2, dPurged <- x3, dLog <- x4, cVote <- x5, cCommitted <- x6,
    cPurged <- x7, cLast <- x8, open <- x9, op <- x10

Segments == INSTANCE SegmentTransfer WITH
    Nodes <- {1, 2}, NoNode <- 0, Encrypted <- FALSE, SegmentRecs <- 2,
    ChunkLen <- 2, MaxSeq <- 4, MaxTransfers <- 1, MaxFails <- 1, MaxGcs <- 2,
    MaxRestarts <- 1, owner <- x1, files <- x2, metas <- x3, store <- x4,
    writer <- x5, drive <- x6, budget <- x7

Drain == INSTANCE BulkTransfer WITH
    Nodes <- 1 .. 3, Partitions <- 0 .. 1, Requests <- {1, 2}, MaxChanges <- 0,
    MaxFails <- 0, table <- x1, members <- x2, job <- x3, drives <- x4,
    changes <- x5, fails <- x6

Join == INSTANCE ClusterMembership WITH
    Nodes <- 1 .. 3, Partitions <- {0}, InitialMembers <- {1, 2}, Joiner <- 3,
    Seeds <- <<1, 2>>, KeepsState <- TRUE, Slots <- {"c1", "c2"}, Kinds <- {},
    MaxOps <- 0, MaxElections <- 1, MaxFails <- 1, MaxLog <- 3, voters <- x1,
    learners <- x2, leader <- x3, log <- x4, applied <- x5, table <- x6,
    ops <- x7, join <- x8, removed <- x9, failed <- x10, budget <- x11

Registry == INSTANCE RegistryReplication WITH
    Processors <- {"p0", "p1"}, Steps <- <<50, 100>>, Nodes <- {1, 2},
    First <- "p0", Commands <- [op : {"create", "run"}, proc : {"none"}],
    MaxLog <- 2, MaxRestarts <- 1, MayFail <- TRUE, MayEnd <- TRUE, log <- x1,
    purged <- x2, has <- x3, snap <- x4, applied <- x5, slot <- x6, busy <- x7,
    pipe <- x8, task <- x9, meta <- x10, restarts <- x11, strayed <- x12,
    parted <- x13

Pull == INSTANCE DeliveryPipeline WITH
    Parts <- {0}, MaxSeq <- 3, Outs <- {0}, Push <- FALSE,
    Configs <- [blocking : BOOLEAN, policy : {"FailBatch"}], MaxRetries <- 1,
    FlushConfirms <- TRUE, Cap <- 0, SegSize <- 1, MaxFaults <- 3, conf <- x1,
    start <- x2, fetched <- x3, ready <- x4, taken <- x5, src <- x6,
    ledger <- x7, failed <- x8, pc <- x9, batch <- x10, attempt <- x11,
    pendingIds <- x12, unflushed <- x13, dsc <- x14, fsc <- x15,
    sinkBuf <- x16, delivered <- x17, ack <- x18, l2 <- x19, used <- x20,
    ckpt <- x21, faults <- x22

Push == INSTANCE DeliveryPipeline WITH
    Parts <- {0}, MaxSeq <- 5, Outs <- {0}, Push <- TRUE,
    Configs <- [blocking : {TRUE}, policy : {"FailBatch"}], MaxRetries <- 1,
    FlushConfirms <- TRUE, Cap <- 4, SegSize <- 3, MaxFaults <- 2, conf <- x1,
    start <- x2, fetched <- x3, ready <- x4, taken <- x5, src <- x6,
    ledger <- x7, failed <- x8, pc <- x9, batch <- x10, attempt <- x11,
    pendingIds <- x12, unflushed <- x13, dsc <- x14, fsc <- x15,
    sinkBuf <- x16, delivered <- x17, ack <- x18, l2 <- x19, used <- x20,
    ckpt <- x21, faults <- x22

Swap == INSTANCE ManagedPipeline WITH
    Calls <- {"c1", "c2"}, Ops <- {"processor", "blueGreen"}, Serial <- TRUE,
    MaxEvents <- 2, SrcCap <- 1, SinkCap <- 1, Batched <- FALSE,
    MayStop <- FALSE, MayFail <- FALSE, PullSource <- FALSE, First <- "p0",
    ctl <- x1, notify <- x2, call <- x3, stop <- x4, src <- x5, proc <- x6,
    snk <- x7, ring <- x8, fetched <- x9, effects <- x10, out <- x11

Requests == INSTANCE PipelineLifecycle WITH
    Processors <- {"p0", "p1"}, Steps <- <<50, 100>>, Requests <- 1 .. 4,
    Ops <- {"create", "start", "stop", "delete"}, Serial <- FALSE,
    First <- "p0", MayFail <- TRUE, MayEnd <- FALSE, pipe <- x1, hist <- x2,
    task <- x3, running <- x4, gate <- x5, control <- x6, req <- x7

Fan == INSTANCE DagRunner WITH
    Shape <- "fan", Sources <- 1 .. 2, Sinks <- 1 .. 2,
    Inputs <- InputsOf(1 .. 2, {1, 2}, 2), Kind <- "pull",
    Route <- FirstBranch, Fails <- TRUE, Partial <- FALSE, Stops <- TRUE,
    input <- x1, pc <- x2, at <- x3, pos <- x4, exhausted <- x5,
    anyActive <- x6, batch <- x7, shares <- x8, written <- x9, flushed <- x10,
    sent <- x11, shutdown <- x12

Linear == INSTANCE DagRunner WITH
    Shape <- "linear", Sources <- {1}, Sinks <- {1},
    Inputs <- InputsOf({1}, 0 .. 1, 3), Kind <- "push", Route <- FirstBranch,
    Fails <- TRUE, Partial <- FALSE, Stops <- TRUE, input <- x1, pc <- x2,
    at <- x3, pos <- x4, exhausted <- x5, anyActive <- x6, batch <- x7,
    shares <- x8, written <- x9, flushed <- x10, sent <- x11, shutdown <- x12

Streams == INSTANCE ProcessorHost WITH
    T3 <- TRUE, Calls <- {"c1"}, Partitions <- {0},
    PartOf <- [c \in {"c1"} |-> 0], MaxSessions <- 2, Cap <- 1,
    MaxInstances <- 2, MaxDrains <- 0, MaxRevokes <- 0, sess <- x1,
    count <- x2, revoked <- x3, route <- x4, stream <- x5, bucket <- x6,
    call <- x7, budget <- x8

\* Two calls on one connection; above, one call and a processor that connects
\* again.
Calls == INSTANCE ProcessorHost WITH
    T3 <- TRUE, Calls <- {"c1", "c2"}, Partitions <- {0},
    PartOf <- [c \in {"c1", "c2"} |-> 0], MaxSessions <- 1, Cap <- 2,
    MaxInstances <- 1, MaxDrains <- 0, MaxRevokes <- 0, sess <- x1,
    count <- x2, revoked <- x3, route <- x4, stream <- x5, bucket <- x6,
    call <- x7, budget <- x8

Nats == INSTANCE SourceConnectors WITH
    Kind <- "nats", N <- 3, Batch <- 2, Cap <- 2, Ring <- 1, FlushEvery <- 2,
    MaxBreaks <- 2, MaxCrashes <- 0, st <- x1, made <- x2, conn <- x3,
    pc <- x4, hold <- x5, pend <- x6, buf <- x7, flight <- x8, delivered <- x9,
    cursor <- x10, unflushed <- x11, token <- x12, breaks <- x13,
    crashes <- x14

Mongo == INSTANCE SourceConnectors WITH
    Kind <- "mongo", N <- 3, Batch <- 2, Cap <- 2, Ring <- 1, FlushEvery <- 2,
    MaxBreaks <- 2, MaxCrashes <- 0, st <- x1, made <- x2, conn <- x3,
    pc <- x4, hold <- x5, pend <- x6, buf <- x7, flight <- x8, delivered <- x9,
    cursor <- x10, unflushed <- x11, token <- x12, breaks <- x13,
    crashes <- x14

Kafka == INSTANCE SinkConnectors WITH
    Kind <- "kafka", Strategy <- "OrderedBatch", Transactional <- TRUE, N <- 3,
    BatchSize <- 2, MaxFaults <- 2, next <- x1, sent <- x2, dropped <- x3,
    staged <- x4, broker <- x5, pc <- x6, batch <- x7, futures <- x8,
    stash <- x9, pending <- x10, reported <- x11, acked <- x12, faults <- x13

Unordered == INSTANCE SinkConnectors WITH
    Kind <- "nats", Strategy <- "UnorderedBatch", Transactional <- FALSE,
    N <- 3, BatchSize <- 2, MaxFaults <- 1, next <- x1, sent <- x2,
    dropped <- x3, staged <- x4, broker <- x5, pc <- x6, batch <- x7,
    futures <- x8, stash <- x9, pending <- x10, reported <- x11, acked <- x12,
    faults <- x13

Queue == INSTANCE SinkConnectors WITH
    Kind <- "queue", Strategy <- "PerEvent", Transactional <- FALSE, N <- 3,
    BatchSize <- 2, MaxFaults <- 2, next <- x1, sent <- x2, dropped <- x3,
    staged <- x4, broker <- x5, pc <- x6, batch <- x7, futures <- x8,
    stash <- x9, pending <- x10, reported <- x11, acked <- x12, faults <- x13

Buffer == INSTANCE PushBuffer WITH
    Senders <- {"c1", "c2"}, Checking <- {"c1", "c2"}, ChannelCapacity <- 1,
    SpillThreshold <- 1, BatchSize <- 1, MaxGone <- 0, pc <- x1, seen <- x2,
    queue <- x3, chan <- x4, spill_count <- x5, overloaded <- x6, at <- x7,
    batch <- x8, remaining <- x9, gone <- x10

-----------------------------------------------------------------------------
(* One component at a time: it has the first variables, the others rest.    *)

Free6 == x7 = 0 /\ x8 = 0 /\ x9 = 0 /\ x10 = 0 /\ x11 = 0 /\
              x12 = 0 /\ x13 = 0 /\ x14 = 0 /\ x15 = 0 /\ x16 = 0 /\ x17 = 0 /\
              x18 = 0 /\ x19 = 0 /\ x20 = 0 /\ x21 = 0 /\ x22 = 0
Free7 == x8 = 0 /\ x9 = 0 /\ x10 = 0 /\ x11 = 0 /\ x12 = 0 /\ x13 = 0 /\
              x14 = 0 /\ x15 = 0 /\ x16 = 0 /\ x17 = 0 /\ x18 = 0 /\ x19 = 0 /\
              x20 = 0 /\ x21 = 0 /\ x22 = 0
Free8 == x9 = 0 /\ x10 = 0 /\ x11 = 0 /\ x12 = 0 /\ x13 = 0 /\ x14 = 0 /\
              x15 = 0 /\ x16 = 0 /\ x17 = 0 /\ x18 = 0 /\ x19 = 0 /\ x20 = 0 /\
              x21 = 0 /\ x22 = 0
Free10 == x11 = 0 /\ x12 = 0 /\ x13 = 0 /\ x14 = 0 /\ x15 = 0 /\ x16 = 0 /\
              x17 = 0 /\ x18 = 0 /\ x19 = 0 /\ x20 = 0 /\ x21 = 0 /\ x22 = 0
Free11 == x12 = 0 /\ x13 = 0 /\ x14 = 0 /\ x15 = 0 /\ x16 = 0 /\ x17 = 0 /\
              x18 = 0 /\ x19 = 0 /\ x20 = 0 /\ x21 = 0 /\ x22 = 0
Free12 == x13 = 0 /\ x14 = 0 /\ x15 = 0 /\ x16 = 0 /\ x17 = 0 /\ x18 = 0 /\
              x19 = 0 /\ x20 = 0 /\ x21 = 0 /\ x22 = 0
Free13 == x14 = 0 /\ x15 = 0 /\ x16 = 0 /\ x17 = 0 /\ x18 = 0 /\ x19 = 0 /\
              x20 = 0 /\ x21 = 0 /\ x22 = 0
Free14 == x15 = 0 /\ x16 = 0 /\ x17 = 0 /\ x18 = 0 /\ x19 = 0 /\ x20 = 0 /\
              x21 = 0 /\ x22 = 0
Only6 == UNCHANGED <<part, x7, x8, x9, x10, x11, x12, x13, x14, x15, x16,
                       x17, x18, x19, x20, x21, x22>>
Only7 == UNCHANGED <<part, x8, x9, x10, x11, x12, x13, x14, x15, x16, x17, x18,
                       x19, x20, x21, x22>>
Only8 == UNCHANGED <<part, x9, x10, x11, x12, x13, x14, x15, x16, x17, x18,
                       x19, x20, x21, x22>>
Only10 == UNCHANGED <<part, x11, x12, x13, x14, x15, x16, x17, x18, x19, x20,
                        x21, x22>>
Only11 == UNCHANGED <<part, x12, x13, x14, x15, x16, x17, x18, x19, x20, x21,
                        x22>>
Only12 == UNCHANGED <<part, x13, x14, x15, x16, x17, x18, x19, x20, x21, x22>>
Only13 == UNCHANGED <<part, x14, x15, x16, x17, x18, x19, x20, x21, x22>>
Only14 == UNCHANGED <<part, x15, x16, x17, x18, x19, x20, x21, x22>>
Only22 == UNCHANGED <<part>>

suite == <<part, x1, x2, x3, x4, x5, x6, x7, x8, x9, x10, x11, x12, x13, x14,
            x15, x16, x17, x18, x19, x20, x21, x22>>

SuiteInit ==
    /\ part \in Parts
    /\ \/ part = "store" /\ Store!Init /\ Free10
       \/ part = "segments" /\ Segments!Init /\ Free7
       \/ part = "drain" /\ x2 \in {{1, 2}, {1, 2, 3}} /\ Drain!Init /\ Free6
       \/ part = "join" /\ Join!Init /\ Free11
       \/ part = "registry" /\ Registry!Init /\ Free13
       \/ part = "pull" /\ Pull!Init
       \/ part = "push" /\ Push!Init
       \/ part = "swap" /\ Swap!Init /\ Free11
       \/ part = "requests" /\ Requests!Init /\ Free7
       \/ part = "fan" /\ Fan!Init /\ Free12
       \/ part = "linear" /\ Linear!Init /\ Free12
       \/ part = "streams" /\ Streams!Init /\ Free8
       \/ part = "calls" /\ Calls!Init /\ Free8
       \/ part = "nats" /\ Nats!Init /\ Free14
       \/ part = "mongo" /\ Mongo!Init /\ Free14
       \/ part = "kafka" /\ Kafka!Init /\ Free13
       \/ part = "unordered" /\ Unordered!Init /\ Free13
       \/ part = "queue" /\ Queue!Init /\ Free13
       \/ part = "buffer" /\ Buffer!Init /\ Free10

SuiteNext ==
    \/ part = "store" /\ Store!Next /\ Only10
    \/ part = "segments" /\ Segments!Next /\ Only7
    \/ part = "drain" /\ Drain!Next /\ Only6
    \/ part = "join" /\ Join!Next /\ Only11
    \/ part = "registry" /\ Registry!Next /\ Only13
    \/ part = "pull" /\ Pull!Next /\ Only22
    \/ part = "push" /\ Push!Next /\ Only22
    \/ part = "swap" /\ Swap!Next /\ Only11
    \/ part = "requests" /\ Requests!Next /\ Only7
    \/ part = "fan" /\ Fan!Next /\ Only12
    \/ part = "linear" /\ Linear!Next /\ Only12
    \/ part = "streams" /\ Streams!Next /\ Only8
    \/ part = "calls" /\ Calls!Next /\ Only8
    \/ part = "nats" /\ Nats!Next /\ Only14
    \/ part = "mongo" /\ Mongo!Next /\ Only14
    \/ part = "kafka" /\ Kafka!Next /\ Only13
    \/ part = "unordered" /\ Unordered!Next /\ Only13
    \/ part = "queue" /\ Queue!Next /\ Only13
    \/ part = "buffer" /\ Buffer!Next /\ Only10

SuiteSpec == SuiteInit /\ [][SuiteNext]_suite

Call(i) == IF i = 1 THEN "c1" ELSE "c2"

\* The i-th step the runtime, Raft or a server owes the component of the
\* behaviour; these are the steps of the components' FairSpecs.  As part never
\* changes, one fairness condition on Turn(i) is one for each component.
Turn(i) ==
    \/ part = "store" /\ i = 1 /\ Store!Step /\ Only10
    \/ part = "segments" /\ i = 1 /\ Segments!DriveStep /\ Only7
    \/ /\ part = "drain" /\ Only6
       /\ \/ i \in 1 .. 2 /\ (Drain!ReadOwner(i) \/ Drain!CommitBegin(i))
          \/ i \in 3 .. 4 /\ Drain!StartDrive(i - 3)
          \/ i \in 5 .. 6 /\ \E t \in 1 .. 3 : Drain!DriveOn(i - 5, t)
    \/ /\ part = "join" /\ Only11
       /\ \/ i \in 1 .. 2 /\ Join!OpStep(Call(i))
          \/ i = 3 /\ Join!JoinStep
    \/ /\ part = "registry" /\ Only13
       /\ \/ i \in 1 .. 2 /\ Registry!Receive(i)
          \/ i \in 3 .. 4 /\ Registry!ApplyEntry(i - 2)
          \/ i \in 5 .. 6 /\ \E m \in 1 .. 2 : Registry!InstallSnapshot(i - 4, m)
          \/ i \in 7 .. 8 /\ Registry!InstallApplier(i - 6)
    \/ /\ part = "pull" /\ Only22
       /\ \/ i = 1 /\ Pull!Fetch(0)
          \/ i = 2 /\ Pull!Process(0)
          \/ i = 3 /\ Pull!SinkStep
          \/ i = 4 /\ Pull!Restart
    \/ /\ part = "push" /\ Only22
       /\ \/ i = 1 /\ Push!Fetch(0)
          \/ i = 2 /\ Push!Process(0)
          \/ i = 3 /\ Push!SinkStep
          \/ i = 4 /\ Push!Restart
    \/ /\ part = "swap" /\ Only11
       /\ \/ i \in 1 .. 2 /\ Swap!Caller(Call(i))
          \/ i = 3 /\ Swap!SourceTask
          \/ i = 4 /\ Swap!ProcessorTask
          \/ i = 5 /\ Swap!SinkTask
    \/ part = "requests" /\ i \in 1 .. 4 /\ Requests!Handler(i) /\ Only7
    \/ part = "fan" /\ i = 1 /\ Fan!Step /\ Only12
    \/ part = "linear" /\ i = 1 /\ Linear!Step /\ Only12
    \/ /\ part = "streams" /\ Only8
       /\ \/ i \in 1 .. 2 /\ Streams!SessionStep(i)
          \/ i \in 3 .. 4 /\ \E n \in Streams!Pending(i - 2) : Streams!ForwarderTimeout(i - 2, n)
          \/ i = 5 /\ Streams!CallTimeout("c1")
          \/ i = 6 /\ Streams!CallStep("c1")
          \/ i = 7 /\ Streams!Expire(0)
    \/ /\ part = "calls" /\ Only8
       /\ \/ i = 1 /\ Calls!SessionStep(1)
          \/ i = 2 /\ \E n \in Calls!Pending(1) : Calls!ForwarderTimeout(1, n)
          \/ i \in 3 .. 4 /\ Calls!CallTimeout(Call(i - 2))
          \/ i \in 5 .. 6 /\ Calls!CallStep(Call(i - 4))
          \/ i = 7 /\ Calls!Expire(0)
    \/ /\ part = "nats" /\ Only14
       /\ \/ i = 1 /\ Nats!Produce
          \/ i = 2 /\ Nats!Deliver
          \/ i = 3 /\ Nats!BufferedBatch
          \/ i = 4 /\ Nats!NatsStream
          \/ i = 5 /\ Nats!NatsReceive
          \/ i = 6 /\ Nats!NatsAck
          \/ i = 7 /\ Nats!NatsReturn
          \/ i = 8 /\ Nats!NatsExpire
    \/ /\ part = "mongo" /\ Only14
       /\ \/ i = 1 /\ Mongo!Produce
          \/ i = 2 /\ Mongo!Deliver
          \/ i = 3 /\ Mongo!BufferedBatch
          \/ i = 4 /\ Mongo!Mongo
    \/ /\ part = "kafka" /\ Only13
       /\ \/ i = 1 /\ Kafka!Accept
          \/ i = 2 /\ Kafka!SinkStep
    \/ /\ part = "unordered" /\ Only13
       /\ \/ i = 1 /\ Unordered!Accept
          \/ i = 2 /\ Unordered!SinkStep
    \/ /\ part = "queue" /\ Only13
       /\ \/ i = 1 /\ Queue!Accept
          \/ i = 2 /\ Queue!SinkStep
    \/ /\ part = "buffer" /\ Only10
       /\ \/ i \in 1 .. 2 /\ Buffer!SendStep(Call(i))
          \/ i = 3 /\ Buffer!NextBatch

LiveSpec == /\ SuiteSpec
            /\ \A i \in 1 .. 8 : WF_suite(Turn(i))

-----------------------------------------------------------------------------
(* Properties                                                               *)

\* Below, x1, x2, ... are read as the INSTANCE of the part names them.
\* Of the four requests the last two are followed, which meet every state that
\* two others can leave or be in the middle of.
Under(i) ==
    \/ part = "store" /\ x10.kind # "none"
    \/ part = "segments" /\ x6.phase # "idle"
    \/ part = "join" /\ x8.state = "ask"
    \/ part = "swap" /\ Swap!Underway(Call(i))
    \/ part = "requests" /\ Requests!Underway(i + 2)
    \/ part = "fan" /\ x2 \notin {"ok", "error"}
    \/ part = "linear" /\ x12 /\ x2 \notin {"ok", "error"}
    \/ part = "streams" /\ i = 1 /\ x7["c1"].pc # "new"
    \/ part = "calls" /\ x7[Call(i)].pc # "new"
    \/ part = "buffer" /\ x1[Call(i)] = "wait"

Over(i) ==
    \/ part = "store" /\ x10.kind = "none"
    \/ part = "segments" /\ x6.phase = "idle"
    \/ part = "join" /\ x8.state \in {"joined", "failed"}
    \/ part = "swap" /\ x3[Call(i)].at = "done"
    \/ part = "requests" /\ (Requests!At(i + 2, "done") \/ Requests!Awaits(i + 2))
    \/ part \in {"fan", "linear"} /\ x2 \in {"ok", "error"}
    \/ part = "streams" /\ x7["c1"].pc \in Streams!Done
    \/ part = "calls" /\ x7[Call(i)].pc \in Calls!Done
    \/ part = "buffer" /\ x1[Call(i)] = "idle"

\* Whoever waits is answered: an operation of the Raft log store, a drive of a
\* partition transfer, a join, a call of PipelineControl, a REST request, a
\* call of a processor host and a sender of the push buffer all return, and a
\* run of a DAG ends, a push source's once it is told to.  A request that stops
\* or deletes a pipeline waits as long as its task takes to end, which may be
\* for ever (managed_join), and for nothing else.
CallsReturn == \A i \in 1 .. 2 : Under(i) ~> Over(i)

Planned(i) ==
    \/ /\ part = "drain" /\ x3[1].state = "run" /\ x3[1].node # -1
       /\ \E m \in DOMAIN x3[1].plan : x3[1].plan[m][1] = i - 1
    \/ part = "registry" /\ x5[i] < Len(x1)

Carried(i) ==
    \/ part = "drain" /\ x1[i - 1].node # x3[1].node
    \/ /\ part = "registry" /\ x5[i] = Len(x1)
       /\ i \in x12 \/ x8[i] = Registry!Replayed(Len(x1))

\* What the cluster decided is carried out: a partition in the plan of a drain
\* leaves the drained node, whatever other request runs; and every node comes to
\* the end of the committed log, where one that was handed every entry has
\* carried it out, through failed builds, restarts and a late applier (what a
\* node that passed over entries lacks: registry_slot, registry_snapshot).
PlansCarriedOut == \A i \in 1 .. 2 : Planned(i) ~> Carried(i)

Taken(i) ==
    \/ part = "pull" /\ x3[0] >= i
    \/ part = "swap" /\ x9 >= i
    \/ part \in {"nats", "mongo", "kafka", "unordered", "queue"}

Arrived(i) ==
    \/ part = "pull" /\ Pull!Delivered(<<0, i - 1>>)
    \/ part = "swap" /\ i \in x11.delivered
    \/ part = "nats" /\ i \in x9
    \/ part = "mongo" /\ (i \in x9 \/ (~x3 /\ i > x10))
    \/ part \in {"kafka", "unordered", "queue"} /\ i \in x11

\* Every event arrives: what a pipeline has read is delivered across failures,
\* crashes and restarts and whatever is swapped meanwhile, what NATS produces is
\* delivered although connections break, what MongoDB's change stream produces
\* although it reports errors, except what was still unread when the stream
\* ended (source_mongo_ends), and a sink reports every output although the
\* downstream system refuses some.
EverythingArrives == \A i \in 1 .. 3 : Taken(i) ~> Arrived(i)

Pressed ==
    \/ part = "push" /\ Push!Pressured
    \/ part = "buffer" /\ x6

\* A source held back by the capacity gate, or by the overload flag of the
\* push buffer, is let go again.
PressureEnds == Pressed ~> ~Pressed

\* Types of the components.
PartsTyped ==
    /\ part = "store" => Store!TypeOK
    /\ part = "segments" => Segments!TypeOK
    /\ part = "drain" => Drain!TypeOK
    /\ part = "join" => Join!TypeOK
    /\ part = "registry" => Registry!TypeOK
    /\ part = "swap" => Swap!TypeOK
    /\ part = "requests" => Requests!TypeOK
    /\ part = "fan" => Fan!TypeOK
    /\ part = "streams" => Streams!TypeOK
    /\ part = "nats" => Nats!TypeOK
    /\ part = "unordered" => Unordered!TypeOK
    /\ part = "buffer" => Buffer!TypeOK

\* DeliveryPipeline: what a push source has read since it was started and the
\* downstream has not received is still in the L2 store, at or after the
\* replay cursor of the last checkpoint.
L2Retains == part = "push" => Push!L2Retains
=============================================================================
