------------------------------ MODULE MCEngine ------------------------------
(* The engine's components for TLC: the managed pipeline and its lifecycle, *)
(* DAGs, the WASM guest, the processor hosts and the connectors.  A         *)
(* behaviour is about one of them, which its first state chooses among      *)
(* Parts and which then has the variables x1, x2, ... to itself.            *)
EXTENDS Integers, Sequences, FiniteSets, SequencesExt, TLC

CONSTANTS
    Parts,        \* the components this run explores
    Overlapping,  \* TRUE: requests on a pipeline's lifecycle overlap
    c1, c2,       \* calls and senders
    d1, d2, d3    \* nodes of a DAG

VARIABLES
    part,   \* the component of the behaviour, with its settings
    x1, x2, x3, x4, x5, x6, x7, x8, x9, x10, x11, x12, x13, x14   \* its variables

\* Calls are interchangeable, and so are names.
Symmetry == Permutations({c1, c2}) \cup Permutations({d1, d2, d3})

\* Batches of a DagRunner source, whose events are numbered through.
Batches(s, sizes) ==
    [k \in 1 .. Len(sizes) |->
        LET before == FoldLeft(LAMBDA x, y : x + y, 0, SubSeq(sizes, 1, k - 1))
        IN  [i \in 1 .. sizes[k] |-> [id |-> <<s, before + i>>, source |-> s]]]
InputsOf(sources, sizes, max) ==
    {[s \in sources |-> Batches(s, z[s])] : z \in [sources -> SeqOf(sizes, max)]}

\* The third event of each three goes beyond two branches.
Branch(e) == ((e.id[2] - 1) % 3) + 1

FaultOps ==
    {"processor", "source", "blueGreen", "cutover", "canary", "promote", "complete", "rollback"}
AllRequests ==
    {"create", "reconfigure", "delete", "start", "stop", "upgrade", "blueGreen", "canary",
     "cutover", "rollback", "promote"}

\* Swaps that overlap; upgrades with errors, a shutdown and a sink that
\* buffers.
Swaps == INSTANCE ManagedPipeline WITH
    Calls <- {c1, c2}, Ops <- {"processor", "source", "sink"}, Serial <- FALSE,
    MaxEvents <- 2, SrcCap <- 1, SinkCap <- 1, Batched <- FALSE,
    MayStop <- FALSE, MayFail <- FALSE, PullSource <- FALSE, First <- "p0",
    ctl <- x1, notify <- x2, call <- x3, stop <- x4, src <- x5, proc <- x6,
    snk <- x7, ring <- x8, fetched <- x9, effects <- x10, out <- x11

Faults == INSTANCE ManagedPipeline WITH
    Calls <- {c1, c2}, Ops <- FaultOps, Serial <- FALSE, MaxEvents <- 1,
    SrcCap <- 1, SinkCap <- 1, Batched <- TRUE, MayStop <- TRUE,
    MayFail <- TRUE, PullSource <- TRUE, First <- "p0", ctl <- x1,
    notify <- x2, call <- x3, stop <- x4, src <- x5, proc <- x6, snk <- x7,
    ring <- x8, fetched <- x9, effects <- x10, out <- x11

\* Requests one at a time: starts and stops, upgrades, canaries; all of them
\* with failing builds and tasks that end.
OneByOne == INSTANCE PipelineLifecycle WITH
    Processors <- {"p0", "p1"}, Steps <- <<50, 100>>, Requests <- 1 .. 5,
    Ops <- {"create", "start", "stop", "upgrade", "delete"}, Serial <- TRUE,
    First <- "p0", MayFail <- FALSE, MayEnd <- FALSE, pipe <- x1, hist <- x2,
    task <- x3, running <- x4, gate <- x5, control <- x6, req <- x7

BlueGreens == INSTANCE PipelineLifecycle WITH
    Processors <- {"p0", "p1"}, Steps <- <<50, 100>>, Requests <- 1 .. 6,
    Ops <- {"create", "start", "blueGreen", "cutover", "rollback", "reconfigure"},
    Serial <- TRUE, First <- "p0", MayFail <- FALSE, MayEnd <- FALSE,
    pipe <- x1, hist <- x2, task <- x3, running <- x4, gate <- x5,
    control <- x6, req <- x7

Canaries == INSTANCE PipelineLifecycle WITH
    Processors <- {"p0", "p1"}, Steps <- <<50, 100>>, Requests <- 1 .. 6,
    Ops <- {"create", "start", "canary", "promote", "reconfigure"},
    Serial <- TRUE, First <- "p0", MayFail <- FALSE, MayEnd <- FALSE,
    pipe <- x1, hist <- x2, task <- x3, running <- x4, gate <- x5,
    control <- x6, req <- x7

Asked == INSTANCE PipelineLifecycle WITH
    Processors <- {"p0", "p1"}, Steps <- <<50, 100>>, Requests <- 1 .. 4,
    Ops <- AllRequests, Serial <- ~Overlapping, First <- "p0", MayFail <- TRUE,
    MayEnd <- TRUE, pipe <- x1, hist <- x2, task <- x3, running <- x4,
    gate <- x5, control <- x6, req <- x7

Graph == INSTANCE DagGraph WITH
    Names <- {d1, d2, d3}, MaxEdges <- 5, Multiplicity <- 2, nodes <- x1,
    edges <- x2, verdict <- x3, inDegree <- x4, queue <- x5, visited <- x6

\* Three sources and two sinks; a router with two branches; one push source
\* with lulls.
Fan == INSTANCE DagRunner WITH
    Shape <- "fan", Sources <- 1 .. 3, Sinks <- 1 .. 2,
    Inputs <- InputsOf(1 .. 3, {1, 2}, 2), Kind <- "pull", Route <- Branch,
    Fails <- TRUE, Partial <- FALSE, Stops <- TRUE, input <- x1, pc <- x2,
    at <- x3, pos <- x4, exhausted <- x5, anyActive <- x6, batch <- x7,
    shares <- x8, written <- x9, flushed <- x10, sent <- x11, shutdown <- x12

Routed == INSTANCE DagRunner WITH
    Shape <- "routed", Sources <- {1}, Sinks <- 1 .. 2,
    Inputs <- InputsOf({1}, 1 .. 3, 3), Kind <- "pull", Route <- Branch,
    Fails <- TRUE, Partial <- FALSE, Stops <- TRUE, input <- x1, pc <- x2,
    at <- x3, pos <- x4, exhausted <- x5, anyActive <- x6, batch <- x7,
    shares <- x8, written <- x9, flushed <- x10, sent <- x11, shutdown <- x12

Linear == INSTANCE DagRunner WITH
    Shape <- "linear", Sources <- {1}, Sinks <- {1},
    Inputs <- InputsOf({1}, 0 .. 2, 4), Kind <- "push", Route <- Branch,
    Fails <- TRUE, Partial <- FALSE, Stops <- TRUE, input <- x1, pc <- x2,
    at <- x3, pos <- x4, exhausted <- x5, anyActive <- x6, batch <- x7,
    shares <- x8, written <- x9, flushed <- x10, sent <- x11, shutdown <- x12

\* Up to two pairs of metadata, and calls that use up the heap.
Pair(k, v) == [key |-> k, value |-> v]
OnePair    == {<<Pair(k, v)>> : k \in {0, 1, 8}, v \in {0, 1, 9}}
Guest == INSTANCE WasmGuest WITH
    HeapSize <- 262144, SourceLens <- {0, 1, 12},
    Metas <- {<<>>, <<Pair(1, 1), Pair(1, 1)>>} \cup OnePair,
    PayloadLens <- {0, 7, 100000}, Works <- {16, 120000}, pos <- x1,
    pc <- x2, event <- x3, ptr <- x4, todo <- x5, spoiled <- x6,
    misplaced <- x7

\* Two partitions with a drain; a processor that connects again and is
\* revoked.
WebSocket == INSTANCE ProcessorHost WITH
    T3 <- FALSE, Calls <- 0 .. 1, Partitions <- 0 .. 1,
    PartOf <- [k \in 0 .. 1 |-> k], MaxSessions <- 2, Cap <- 1,
    MaxInstances <- 2, MaxDrains <- 1, MaxRevokes <- 0, sess <- x1,
    count <- x2, revoked <- x3, route <- x4, stream <- x5, bucket <- x6,
    call <- x7, budget <- x8

Again == INSTANCE ProcessorHost WITH
    T3 <- FALSE, Calls <- {c1, c2}, Partitions <- {0},
    PartOf <- [k \in {c1, c2} |-> 0], MaxSessions <- 2, Cap <- 2,
    MaxInstances <- 1, MaxDrains <- 0, MaxRevokes <- 1, sess <- x1,
    count <- x2, revoked <- x3, route <- x4, stream <- x5, bucket <- x6,
    call <- x7, budget <- x8

\* A source each; the outputs of NATS and RabbitMQ are never lost, those of
\* Redis and PostgreSQL within a bound.
Nats == INSTANCE SourceConnectors WITH
    Kind <- "nats", N <- 4, Batch <- 2, Cap <- 2, Ring <- 1, FlushEvery <- 2,
    MaxBreaks <- 2, MaxCrashes <- 0, st <- x1, made <- x2, conn <- x3,
    pc <- x4, hold <- x5, pend <- x6, buf <- x7, flight <- x8, delivered <- x9,
    cursor <- x10, unflushed <- x11, token <- x12, breaks <- x13,
    crashes <- x14

Rabbit == INSTANCE SourceConnectors WITH
    Kind <- "rabbit", N <- 4, Batch <- 2, Cap <- 2, Ring <- 1, FlushEvery <- 2,
    MaxBreaks <- 2, MaxCrashes <- 0, st <- x1, made <- x2, conn <- x3,
    pc <- x4, hold <- x5, pend <- x6, buf <- x7, flight <- x8, delivered <- x9,
    cursor <- x10, unflushed <- x11, token <- x12, breaks <- x13,
    crashes <- x14

Redis == INSTANCE SourceConnectors WITH
    Kind <- "redis", N <- 6, Batch <- 2, Cap <- 2, Ring <- 1, FlushEvery <- 2,
    MaxBreaks <- 1, MaxCrashes <- 1, st <- x1, made <- x2, conn <- x3,
    pc <- x4, hold <- x5, pend <- x6, buf <- x7, flight <- x8, delivered <- x9,
    cursor <- x10, unflushed <- x11, token <- x12, breaks <- x13,
    crashes <- x14

Postgres == INSTANCE SourceConnectors WITH
    Kind <- "postgres", N <- 6, Batch <- 2, Cap <- 2, Ring <- 1,
    FlushEvery <- 2, MaxBreaks <- 1, MaxCrashes <- 1, st <- x1, made <- x2,
    conn <- x3, pc <- x4, hold <- x5, pend <- x6, buf <- x7, flight <- x8,
    delivered <- x9, cursor <- x10, unflushed <- x11, token <- x12,
    breaks <- x13, crashes <- x14

Mongo == INSTANCE SourceConnectors WITH
    Kind <- "mongo", N <- 4, Batch <- 2, Cap <- 2, Ring <- 1, FlushEvery <- 2,
    MaxBreaks <- 2, MaxCrashes <- 0, st <- x1, made <- x2, conn <- x3,
    pc <- x4, hold <- x5, pend <- x6, buf <- x7, flight <- x8, delivered <- x9,
    cursor <- x10, unflushed <- x11, token <- x12, breaks <- x13,
    crashes <- x14

\* The strategies of the sinks.
Each == INSTANCE SinkConnectors WITH
    Kind <- "redis", Strategy <- "PerEvent", Transactional <- FALSE, N <- 5,
    BatchSize <- 3, MaxFaults <- 3, next <- x1, sent <- x2, dropped <- x3,
    staged <- x4, broker <- x5, pc <- x6, batch <- x7, futures <- x8,
    stash <- x9, pending <- x10, reported <- x11, acked <- x12, faults <- x13

Transaction == INSTANCE SinkConnectors WITH
    Kind <- "kafka", Strategy <- "OrderedBatch", Transactional <- TRUE, N <- 5,
    BatchSize <- 2, MaxFaults <- 3, next <- x1, sent <- x2, dropped <- x3,
    staged <- x4, broker <- x5, pc <- x6, batch <- x7, futures <- x8,
    stash <- x9, pending <- x10, reported <- x11, acked <- x12, faults <- x13

Ordered == INSTANCE SinkConnectors WITH
    Kind <- "kafka", Strategy <- "OrderedBatch", Transactional <- FALSE,
    N <- 5, BatchSize <- 3, MaxFaults <- 3, next <- x1, sent <- x2,
    dropped <- x3, staged <- x4, broker <- x5, pc <- x6, batch <- x7,
    futures <- x8, stash <- x9, pending <- x10, reported <- x11, acked <- x12,
    faults <- x13

Unordered == INSTANCE SinkConnectors WITH
    Kind <- "nats", Strategy <- "UnorderedBatch", Transactional <- FALSE,
    N <- 3, BatchSize <- 2, MaxFaults <- 2, next <- x1, sent <- x2,
    dropped <- x3, staged <- x4, broker <- x5, pc <- x6, batch <- x7,
    futures <- x8, stash <- x9, pending <- x10, reported <- x11, acked <- x12,
    faults <- x13

Buffer == INSTANCE PushBuffer WITH
    Senders <- {c1, c2}, Checking <- {c1, c2}, ChannelCapacity <- 2,
    SpillThreshold <- 2, BatchSize <- 2, MaxGone <- 0, pc <- x1, seen <- x2,
    queue <- x3, chan <- x4, spill_count <- x5, overloaded <- x6, at <- x7,
    batch <- x8, remaining <- x9, gone <- x10

-----------------------------------------------------------------------------
(* One component at a time: it has the first variables, the others rest.    *)

Free6 == x7 = 0 /\ x8 = 0 /\ x9 = 0 /\ x10 = 0 /\ x11 = 0 /\ x12 = 0 /\
              x13 = 0 /\ x14 = 0
Free7 == x8 = 0 /\ x9 = 0 /\ x10 = 0 /\ x11 = 0 /\ x12 = 0 /\ x13 = 0 /\
              x14 = 0
Free8 == x9 = 0 /\ x10 = 0 /\ x11 = 0 /\ x12 = 0 /\ x13 = 0 /\ x14 = 0
Free10 == x11 = 0 /\ x12 = 0 /\ x13 = 0 /\ x14 = 0
Free11 == x12 = 0 /\ x13 = 0 /\ x14 = 0
Free12 == x13 = 0 /\ x14 = 0
Free13 == x14 = 0
Only6 == UNCHANGED <<part, x7, x8, x9, x10, x11, x12, x13, x14>>
Only7 == UNCHANGED <<part, x8, x9, x10, x11, x12, x13, x14>>
Only8 == UNCHANGED <<part, x9, x10, x11, x12, x13, x14>>
Only10 == UNCHANGED <<part, x11, x12, x13, x14>>
Only11 == UNCHANGED <<part, x12, x13, x14>>
Only12 == UNCHANGED <<part, x13, x14>>
Only13 == UNCHANGED <<part, x14>>
Only14 == UNCHANGED <<part>>

suite == <<part, x1, x2, x3, x4, x5, x6, x7, x8, x9, x10, x11, x12, x13, x14>>

SuiteInit ==
    /\ part \in Parts
    /\ \/ part = "swaps" /\ Swaps!Init /\ Free11
       \/ part = "faults" /\ Faults!Init /\ Free11
       \/ part = "serial" /\ OneByOne!Init /\ Free7
       \/ part = "upgrades" /\ BlueGreens!Init /\ Free7
       \/ part = "canaries" /\ Canaries!Init /\ Free7
       \/ part = "requests" /\ Asked!Init /\ Free7
       \/ part = "graph" /\ Graph!Init /\ Free6
       \/ part = "fan" /\ Fan!Init /\ Free12
       \/ part = "routed" /\ Routed!Init /\ Free12
       \/ part = "linear" /\ Linear!Init /\ Free12
       \/ part = "guest" /\ Guest!Init /\ Free7
       \/ part = "websocket" /\ WebSocket!Init /\ Free8
       \/ part = "again" /\ Again!Init /\ Free8
       \/ part = "nats" /\ Nats!Init
       \/ part = "rabbit" /\ Rabbit!Init
       \/ part = "redis" /\ Redis!Init
       \/ part = "postgres" /\ Postgres!Init
       \/ part = "mongo" /\ Mongo!Init
       \/ part = "each" /\ Each!Init /\ Free13
       \/ part = "transaction" /\ Transaction!Init /\ Free13
       \/ part = "ordered" /\ Ordered!Init /\ Free13
       \/ part = "unordered" /\ Unordered!Init /\ Free13
       \/ part = "buffer" /\ Buffer!Init /\ Free10

SuiteNext ==
    \/ part = "swaps" /\ Swaps!Next /\ Only11
    \/ part = "faults" /\ Faults!Next /\ Only11
    \/ part = "serial" /\ OneByOne!Next /\ Only7
    \/ part = "upgrades" /\ BlueGreens!Next /\ Only7
    \/ part = "canaries" /\ Canaries!Next /\ Only7
    \/ part = "requests" /\ Asked!Next /\ Only7
    \/ part = "graph" /\ Graph!Next /\ Only6
    \/ part = "fan" /\ Fan!Next /\ Only12
    \/ part = "routed" /\ Routed!Next /\ Only12
    \/ part = "linear" /\ Linear!Next /\ Only12
    \/ part = "guest" /\ Guest!Next /\ Only7
    \/ part = "websocket" /\ WebSocket!Next /\ Only8
    \/ part = "again" /\ Again!Next /\ Only8
    \/ part = "nats" /\ Nats!Next /\ Only14
    \/ part = "rabbit" /\ Rabbit!Next /\ Only14
    \/ part = "redis" /\ Redis!Next /\ Only14
    \/ part = "postgres" /\ Postgres!Next /\ Only14
    \/ part = "mongo" /\ Mongo!Next /\ Only14
    \/ part = "each" /\ Each!Next /\ Only13
    \/ part = "transaction" /\ Transaction!Next /\ Only13
    \/ part = "ordered" /\ Ordered!Next /\ Only13
    \/ part = "unordered" /\ Unordered!Next /\ Only13
    \/ part = "buffer" /\ Buffer!Next /\ Only10

SuiteSpec == SuiteInit /\ [][SuiteNext]_suite

-----------------------------------------------------------------------------
(* Properties                                                               *)

\* ManagedPipeline: no swap makes a batch disappear; the effect of every
\* processed event is in the state of an instance still in use; outputs are
\* credited to outputs_sent and the ledger only once they reached the outside,
\* also when a task fails or is told to stop; and a new processor becomes
\* active only when no output of the old one waits in the sink ring, whatever
\* permits earlier calls left behind.
SwapsLoseNothing ==
    /\ [](part = "swaps" => Swaps!Conserved /\ Swaps!StateSurvives)
    /\ [](part = "faults" => Faults!CreditedIsDelivered)
    /\ [][part = "swaps" /\ x6.at = "drain" /\ x6.current' # x6.current
            => x8.sink = <<>>]_suite

\* PipelineLifecycle: when no request is under way a live task is recorded
\* exactly when the definition says the pipeline runs, events go to the
\* processors the definition names, through upgrades, cutovers, promotions and
\* rollbacks, and the history is a chain of the definition's states.
Converged ==
    /\ part = "serial" => OneByOne!Converged /\ OneByOne!ServesDeclared
    /\ part = "upgrades" => BlueGreens!ServesDeclared /\ BlueGreens!HistoryChains
    /\ part = "canaries" => Canaries!ServesDeclared

\* PipelineLifecycle: no task is left that nobody can stop, although builds
\* fail and tasks end by themselves.
NoOrphan == part = "requests" => Asked!NoOrphan

\* PipelineLifecycle: in addition two tasks never consume the same source at
\* once, and the gate of the recorded task is the one that a cutover finds in
\* the registry.
TasksOwned == NoOrphan /\ (part = "requests" => Asked!OneTask /\ Asked!GateRegistered)

\* DagRunner: what a source handed out reaches every sink it is meant for, once
\* and in the source's order, up to the batch in hand; a write error leaves the
\* sinks apart by one batch at most; of the sources that have not run dry none
\* is more than one batch ahead; a run that ends well counted each output once;
\* and one that nobody stopped has read its sources to the end, a push source's
\* lulls included.  DagGraph: detect_cycles says "cycle" for exactly the graphs
\* that have one.
RunsDeliver ==
    /\ part = "graph" => Graph!CycleFound
    /\ part = "fan" =>
         /\ Fan!Delivered /\ Fan!SinksTogether /\ Fan!RoundRobin
         /\ Fan!SentOnce /\ Fan!ReadToEnd
    /\ part = "routed" => Routed!Delivered /\ Routed!SentOnce
    /\ part = "linear" => Linear!ReadToEnd

\* WasmGuest: process() resets the heap the event lies in and parses the event
\* while it allocates from the heap's start.  An event with at most one pair of
\* metadata is read as the host wrote it, wherever the calls before have put
\* it; no event with more is claimed to be (README, section 5, wasm_meta), nor
\* is there always room for an event (wasm_heap).
GuestReadsEvent == part = "guest" => Guest!OnePairIntact

\* ProcessorHost: what a caller gets are the outputs of its own batch, although
\* batch ids start over on every session and a replayed batch changes its id;
\* whoever waits is held by exactly one entry, however often the processor
\* reconnects; the semaphore bounds the batches outstanding on a session, the
\* stashed ones it still pays for included; and the connections counted against
\* max_instances are the sessions between acceptance and clean-up.
CallersServed ==
    /\ part = "websocket" => WebSocket!CallersServed
    /\ part = "again" => Again!CallersServed

\* SourceConnectors: whatever connections break, a message NATS or RabbitMQ
\* produced is delivered, in the process, or handed out again; Redis and
\* PostgreSQL lose one read's messages for each broken connection at most, and
\* for a crash what the pipeline had taken; and what MongoDB's saved token
\* skips is delivered or in the process.
LossBounded ==
    /\ part = "nats" => Nats!NothingLost
    /\ part = "rabbit" => Rabbit!NothingLost
    /\ part = "redis" => Redis!LossBounded
    /\ part = "postgres" => Postgres!LossBounded
    /\ part = "mongo" => Mongo!TokenCovered

\* SinkConnectors: what a sink reports as delivered the downstream system has;
\* the ack callbacks count no more than was taken; and, one by one and in
\* transactions, no output reaches the downstream system before an earlier one,
\* whatever is refused and replayed.  Left out are Kafka's UnorderedBatch and
\* the sinks that hand over to a client task, of which it is not so (README,
\* section 5, sink_flush and sink_queue).
ReportedIsThere ==
    /\ part = "each" => Each!ReportedIsThere /\ Each!OrderKept
    /\ part = "transaction" => Transaction!ReportedIsThere /\ Transaction!OrderKept
    /\ part = "ordered" => Ordered!ReportedIsThere /\ Ordered!AckedIsTaken
    /\ part = "unordered" => Unordered!ReportedIsThere /\ Unordered!AckedIsTaken

\* PushBuffer: the spill count never exceeds the events the buffer still has to
\* hand out, although the consumer subtracts what it loaded earlier.
SpillCovered == part = "buffer" => Buffer!SpillCovered
=============================================================================
