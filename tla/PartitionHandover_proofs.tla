---------------------- MODULE PartitionHandover_proofs ----------------------
(***************************************************************************)
(* Type correctness of the handover for every cluster, every set of        *)
(* partitions, every source loop and every bound.                          *)
(***************************************************************************)
EXTENDS PartitionHandover, TLAPS

\* A drive in progress knows its source.
DriveHasSource ==
  \A n \in Nodes, p \in Partitions :
    drv[n][p].phase # "none" => drv[n][p].source \in Nodes

TypeInv == TypeOK /\ DriveHasSource

\* The record type of a drive.
Drive == [phase : Phases, source : Nodes \cup {NoNode}, final : Nat]

\* The requests the handlers propose are requests of the log.
LEMMA RequestTypes ==
  ASSUME NEW p \in Partitions, NEW s \in Nodes, NEW t \in Nodes
  PROVE  /\ AssignReq(p, s) \in Request
         /\ BeginReq(p, s, t) \in Request
         /\ CompleteReq(p, s) \in Request
         /\ AbortReq(p, s) \in Request
  BY DEF AssignReq, BeginReq, CompleteReq, AbortReq, Request

\* apply_request maps tables to tables.
LEMMA ApplyType ==
  ASSUME NEW T \in Table, NEW r \in Request
  PROVE  ApplyRequest(T, r) \in Table
  BY DEF ApplyRequest, Table, Ownership, Request, Owned, Transferring

\* A committed entry extends the log by one request and keeps every index
\* the replicas have reached valid.
LEMMA CommitType ==
  ASSUME TypeInv, NEW r \in Request, CommitEntry(r)
  PROVE  /\ log' \in Seq(Request) /\ Len(log') <= MaxLog
         /\ Len(log') = Len(log) + 1
         /\ ctable' \in Table
         /\ applied \in [Nodes -> 0..Len(log')]
<1>1. log' \in Seq(Request) /\ Len(log') = Len(log) + 1
  BY DEF CommitEntry, TypeInv, TypeOK
<1>2. Len(log') <= MaxLog
  BY <1>1, HandoverAssumption DEF CommitEntry, TypeInv, TypeOK
<1>3. ctable' \in Table
  BY ApplyType DEF CommitEntry, TypeInv, TypeOK
<1>4. applied \in [Nodes -> 0..Len(log')]
  <2>1. 0..Len(log) \subseteq 0..Len(log')
    BY <1>1 DEF TypeInv, TypeOK
  <2> QED
    BY <2>1 DEF TypeInv, TypeOK
<1> QED
  BY <1>1, <1>2, <1>3, <1>4

\* The initial state is well typed.
LEMMA InitTypeInv == Init => TypeInv
<1> SUFFICES ASSUME Init PROVE TypeInv
  OBVIOUS
<1>0. PICK owner \in [Partitions -> Nodes] :
          /\ ctable = [p \in Partitions |-> Owned(owner[p])]
          /\ table = [n \in Nodes |-> ctable]
          /\ running = Nodes
          /\ assigned = [n \in Nodes |-> SourceFor(ctable, n)]
          /\ watch = [n \in Nodes |-> IF PartitionsFor(ctable, n) = {} THEN "unsent"
                                                                   ELSE "seen"]
          /\ log = <<>>
          /\ applied = [n \in Nodes |-> 0]
          /\ late = {}
          /\ tasks = [n \in Nodes |-> [p \in Partitions |-> [s \in Nodes |-> 0]]]
          /\ drv = [n \in Nodes |-> [p \in Partitions |-> NoDrive]]
          /\ gate = [n \in Nodes |-> FreshGates]
          /\ offset = [n \in Nodes |-> [p \in Partitions |-> 0]]
          /\ budget = [transfers |-> MaxTransfers, fails |-> MaxFails,
                       restarts |-> MaxRestarts, moves |-> MaxMoves]
  BY DEF Init
<1>1. ctable \in Table
  BY <1>0 DEF Table, Ownership, Owned
<1>2. log \in Seq(Request) /\ Len(log) = 0 /\ Len(log) <= MaxLog
  BY <1>0, HandoverAssumption
<1>3. /\ running \subseteq Nodes
      /\ assigned \in [Nodes -> SUBSET Partitions]
      /\ watch \in [Nodes -> {"unsent", "seen", "changed"}]
  <2>1. \A n \in Nodes : SourceFor(ctable, n) \in SUBSET Partitions
    BY DEF SourceFor, PartitionsFor
  <2> QED
    BY <1>0, <2>1
<1>4. budget \in [{"transfers", "fails", "restarts", "moves"} -> Nat]
  BY <1>0, HandoverAssumption
<1>5. drv \in [Nodes -> [Partitions -> Drive]]
  <2>1. NoDrive \in Drive
    BY DEF NoDrive, Drive, Phases
  <2> QED
    BY <1>0, <2>1
<1>6. DriveHasSource
  BY <1>0 DEF DriveHasSource, NoDrive
<1>7. /\ table \in [Nodes -> Table]
      /\ applied \in [Nodes -> 0..Len(log)]
      /\ gate \in [Nodes -> [Partitions -> {"none", "Open", "Closed"}]]
      /\ offset \in [Nodes -> [Partitions -> Nat]]
      /\ late \subseteq Request
  <2>1. /\ table = [n \in Nodes |-> ctable]
        /\ applied = [n \in Nodes |-> 0]
        /\ gate = [n \in Nodes |-> FreshGates]
        /\ offset = [n \in Nodes |-> [p \in Partitions |-> 0]]
        /\ late = {}
    BY <1>0
  <2>2. FreshGates \in [Partitions -> {"none", "Open", "Closed"}]
    BY DEF FreshGates
  <2> QED
    BY <2>1, <2>2, <1>1, <1>2
<1>8. tasks \in [Nodes -> [Partitions -> [Nodes -> Nat]]]
  <2>1. [s \in Nodes |-> 0] \in [Nodes -> Nat]
    OBVIOUS
  <2> QED
    BY <1>0, <2>1
<1> QED
  BY <1>1, <1>2, <1>3, <1>4, <1>5, <1>6, <1>7, <1>8 DEF TypeInv, TypeOK, Drive

\* A drive that moves to its next phase keeps its source.
LEMMA SetPhaseType ==
  ASSUME TypeInv, NEW t \in Nodes, NEW p \in Partitions,
         drv[t][p].phase # "none", NEW ph \in Phases, SetPhase(t, p, ph)
  PROVE  drv' \in [Nodes -> [Partitions -> Drive]] /\ DriveHasSource'
<1>1. drv \in [Nodes -> [Partitions -> Drive]]
  BY DEF TypeInv, TypeOK, Drive
<1>2. [drv[t][p] EXCEPT !.phase = ph] \in Drive
  <2>1. drv[t][p] \in Drive
    BY <1>1
  <2>2. \A d \in Drive : [d EXCEPT !.phase = ph] \in Drive
    BY DEF Drive
  <2> QED
    BY <2>1, <2>2
<1>3. \A n \in Nodes, q \in Partitions :
        drv'[n][q] = IF n = t /\ q = p THEN [drv[t][p] EXCEPT !.phase = ph]
                                       ELSE drv[n][q]
  BY <1>1 DEF SetPhase
<1>4. drv' \in [Nodes -> [Partitions -> Drive]]
  BY <1>1, <1>2 DEF SetPhase
<1>5. [drv[t][p] EXCEPT !.phase = ph].source = drv[t][p].source
  BY <1>1 DEF Drive
<1>6. DriveHasSource'
  <2> SUFFICES ASSUME NEW n \in Nodes, NEW q \in Partitions,
                      drv'[n][q].phase # "none"
               PROVE  drv'[n][q].source \in Nodes
    BY DEF DriveHasSource
  <2>1. drv[t][p].source \in Nodes
    BY DEF TypeInv, DriveHasSource
  <2>2. CASE n = t /\ q = p
    BY <1>3, <1>5, <2>1, <2>2
  <2>3. CASE ~(n = t /\ q = p)
    <3>1. drv'[n][q] = drv[n][q]
      BY <1>3, <2>3
    <3> QED
      BY <3>1 DEF TypeInv, DriveHasSource
  <2> QED
    BY <2>2, <2>3
<1> QED
  BY <1>4, <1>6

\* A drive that ends leaves no source to know.
LEMMA EndDriveType ==
  ASSUME TypeInv, NEW t \in Nodes, NEW p \in Partitions, EndDrive(t, p)
  PROVE  drv' \in [Nodes -> [Partitions -> Drive]] /\ DriveHasSource'
<1>1. NoDrive \in Drive
  BY DEF NoDrive, Drive, Phases
<1>2. drv' \in [Nodes -> [Partitions -> Drive]]
  BY <1>1 DEF TypeInv, TypeOK, EndDrive, Drive
<1>3. \A n \in Nodes, q \in Partitions :
        drv'[n][q].phase # "none" => drv'[n][q].source \in Nodes
  BY DEF TypeInv, TypeOK, EndDrive, DriveHasSource, Drive, NoDrive
<1> QED
  BY <1>2, <1>3 DEF DriveHasSource

\* Spending from a bound leaves a number.
LEMMA SpendType ==
  ASSUME TypeInv, NEW w \in {"transfers", "fails", "restarts", "moves"}, Spend(w)
  PROVE  budget' \in [{"transfers", "fails", "restarts", "moves"} -> Nat]
  BY DEF TypeInv, TypeOK, Spend

\* The spawned tasks are counted in a function of three arguments.
TaskCounts == [Nodes -> [Partitions -> [Nodes -> Nat]]]

\* Counting one task up or down changes that count alone.
LEMMA TaskUpdate ==
  ASSUME NEW f \in TaskCounts, NEW g, NEW t \in Nodes, NEW p \in Partitions,
         NEW s \in Nodes, NEW v \in Nat, g = [f EXCEPT ![t][p][s] = v]
  PROVE  /\ g \in TaskCounts
         /\ \A n, m \in Nodes, q \in Partitions :
              g[n][q][m] = f[n][q][m] \/ (n = t /\ q = p /\ m = s)
<1> DEFINE row == [f[t][p] EXCEPT ![s] = v]
           mat == [f[t] EXCEPT ![p] = row]
<1>1. f[t] \in [Partitions -> [Nodes -> Nat]] /\ f[t][p] \in [Nodes -> Nat]
  BY DEF TaskCounts
<1>2. row \in [Nodes -> Nat] /\ \A m \in Nodes : m # s => row[m] = f[t][p][m]
  BY <1>1
<1> HIDE DEF row
<1>3. /\ mat \in [Partitions -> [Nodes -> Nat]]
      /\ mat[p] = row /\ \A q \in Partitions : q # p => mat[q] = f[t][q]
  BY <1>1, <1>2
<1>4. g = [f EXCEPT ![t] = mat]
  BY DEF row
<1> HIDE DEF mat
<1>5. g \in TaskCounts
  BY <1>3, <1>4 DEF TaskCounts
<1>6. g[t] = mat /\ \A n \in Nodes : n # t => g[n] = f[n]
  BY <1>4 DEF TaskCounts
<1> QED
  BY <1>2, <1>3, <1>5, <1>6

\* Every action keeps every variable in its type.
LEMMA NextTypeInv == TypeInv /\ [Next]_vars => TypeInv'
<1> SUFFICES ASSUME TypeInv, [Next]_vars PROVE TypeInv'
  OBVIOUS
<1> DEFINE LogOK == /\ log \in Seq(Request) /\ Len(log) <= MaxLog
                    /\ ctable \in Table
                    /\ applied \in [Nodes -> 0..Len(log)]
                    /\ late \subseteq Request
           DrvOK == drv \in [Nodes -> [Partitions -> Drive]] /\ DriveHasSource
           EngOK == /\ running \subseteq Nodes
                    /\ watch \in [Nodes -> {"unsent", "seen", "changed"}]
                    /\ gate \in [Nodes -> [Partitions -> {"none", "Open", "Closed"}]]
                    /\ assigned \in [Nodes -> SUBSET Partitions]
                    /\ offset \in [Nodes -> [Partitions -> Nat]]
           BudOK == budget \in [{"transfers", "fails", "restarts", "moves"} -> Nat]
           TabOK == /\ table \in [Nodes -> Table]
                    /\ tasks \in [Nodes -> [Partitions -> [Nodes -> Nat]]]
<1>a. TypeInv <=> LogOK /\ TabOK /\ DrvOK /\ EngOK /\ BudOK
  BY DEF TypeInv, TypeOK, Drive
<1>b. TypeInv' <=> LogOK' /\ TabOK' /\ DrvOK' /\ EngOK' /\ BudOK'
  BY DEF TypeInv, TypeOK, Drive
<1>c. UNCHANGED <<log, ctable, applied, late>> => LogOK'
  BY <1>a
<1>d. UNCHANGED drv => DrvOK'
  BY <1>a DEF DriveHasSource
<1>e. UNCHANGED engineVars => EngOK'
  BY <1>a DEF engineVars
<1>f. ASSUME NEW r \in Request, CommitEntry(r), UNCHANGED applied
      PROVE  UNCHANGED late \/ (late' \subseteq Request) => LogOK'
  BY <1>a, <1>f, CommitType
<1>g. UNCHANGED <<table, tasks>> => TabOK'
  BY <1>a
<1>h. UNCHANGED budget => BudOK'
  BY <1>a
<1> HIDE DEF LogOK, DrvOK, EngOK, BudOK, TabOK
<1>1. ASSUME NEW p \in Partitions, NEW n \in Nodes, BeginTransfer(p, n)
      PROVE  TypeInv'
  <2>1. PICK l \in Nodes : CommitEntry(BeginReq(p, table[l][p].node, n))
    BY <1>1 DEF BeginTransfer
  <2>2. BeginReq(p, table[l][p].node, n) \in Request
    BY RequestTypes DEF TypeInv, TypeOK, Table, Ownership
  <2>3. LogOK'
    BY <1>1, <1>f, <2>1, <2>2 DEF BeginTransfer
  <2>4. BudOK'
    BY <1>1, SpendType DEF BeginTransfer, BudOK
  <2> QED
    BY <1>1, <1>b, <1>d, <1>e, <1>g, <2>3, <2>4 DEF BeginTransfer
<1>2. ASSUME NEW p \in Partitions, NEW n \in Nodes, RebalanceMove(p, n)
      PROVE  TypeInv'
  <2>1. LogOK'
    BY <1>2, <1>f, RequestTypes DEF RebalanceMove
  <2>2. BudOK'
    BY <1>2, SpendType DEF RebalanceMove, BudOK
  <2> QED
    BY <1>2, <1>b, <1>d, <1>e, <1>g, <2>1, <2>2 DEF RebalanceMove
<1>3. ASSUME NEW n \in Nodes, ApplyNext(n)
      PROVE  TypeInv'
  <2>1. applied[n] \in 0..Len(log) /\ Len(log) \in Nat /\ log \in Seq(Request)
    BY DEF TypeInv, TypeOK
  <2>2. applied[n] + 1 \in 1..Len(log)
    BY <1>3, <2>1 DEF ApplyNext
  <2>3. log[applied[n] + 1] \in Request
    BY <2>1, <2>2
  <2>4. ApplyRequest(table[n], log[applied[n] + 1]) \in Table
    BY <2>3, ApplyType DEF TypeInv, TypeOK
  <2>5. TabOK'
    BY <1>3, <1>a, <2>4 DEF ApplyNext, TabOK
  <2>6. LogOK'
    BY <1>3, <1>a, <2>2 DEF ApplyNext, raftVars, LogOK
  <2>7. EngOK'
    BY <1>3, <1>a DEF ApplyNext, EngOK
  <2> QED
    BY <1>3, <1>b, <1>d, <1>h, <2>5, <2>6, <2>7 DEF ApplyNext
<1>4. ASSUME NEW r \in late, LateCommit(r)
      PROVE  TypeInv'
  <2>1. r \in Request /\ late' \subseteq Request
    BY <1>4 DEF LateCommit, TypeInv, TypeOK
  <2>2. LogOK'
    BY <1>4, <1>f, <2>1 DEF LateCommit
  <2> QED
    BY <1>4, <1>b, <1>d, <1>e, <1>g, <1>h, <2>2 DEF LateCommit
<1>5. ASSUME NEW t \in Nodes, NEW p \in Partitions, DriveStep(t, p)
      PROVE  TypeInv'
  <2>0. /\ "bulk" \in Phases /\ "poh" \in Phases /\ "cutover" \in Phases
        /\ "abort" \in Phases /\ "connect" \in Phases /\ "complete" \in Phases
    BY DEF Phases
  <2>d. ASSUME NEW d \in Drive, drv' = [drv EXCEPT ![t][p] = d], d.source \in Nodes
        PROVE  DrvOK'
    <3>1. drv \in [Nodes -> [Partitions -> Drive]]
      BY <1>a DEF DrvOK
    <3>2. drv' \in [Nodes -> [Partitions -> Drive]]
      BY <2>d, <3>1
    <3>3. \A n \in Nodes, q \in Partitions :
            drv'[n][q] = IF n = t /\ q = p THEN d ELSE drv[n][q]
      BY <2>d, <3>1
    <3> QED
      BY <2>d, <3>2, <3>3 DEF DrvOK, DriveHasSource, TypeInv
  <2>w. CASE WatchTick(t, p)
    <3>1. table[t][p].node \in Nodes
      BY DEF TypeInv, TypeOK, Table, Ownership
    <3>2. tasks' \in [Nodes -> [Partitions -> [Nodes -> Nat]]]
      <4>1. tasks \in TaskCounts
        BY DEF TypeInv, TypeOK, TaskCounts
      <4>2. tasks[t][p][table[t][p].node] + 1 \in Nat
        BY <3>1, <4>1 DEF TaskCounts
      <4>3. tasks' = [tasks EXCEPT ![t][p][table[t][p].node]
                                     = tasks[t][p][table[t][p].node] + 1]
        BY <2>w, <4>1 DEF WatchTick
      <4> QED
        BY <3>1, <4>1, <4>2, <4>3, TaskUpdate DEF TaskCounts
    <3>3. TabOK'
      BY <2>w, <1>a, <3>2 DEF WatchTick, TabOK
    <3>4. LogOK'
      BY <2>w, <1>c DEF WatchTick, raftVars
    <3> QED
      BY <2>w, <1>b, <1>d, <1>e, <1>h, <3>3, <3>4 DEF WatchTick
  <2>1. CASE StartDrive(t, p)
    <3>1. PICK s \in Nodes :
            /\ tasks[t][p][s] > 0
            /\ tasks' = [tasks EXCEPT ![t][p][s] = @ - 1]
            /\ \/ drv' = [drv EXCEPT ![t][p] =
                             [phase |-> "connect", source |-> s, final |-> 0]]
               \/ UNCHANGED drv
      BY <2>1 DEF StartDrive
    <3> DEFINE d == [phase |-> "connect", source |-> s, final |-> 0]
    <3>2. d \in Drive /\ d.source \in Nodes
      BY <2>0 DEF Drive
    <3>3. DrvOK'
      BY <2>d, <3>1, <3>2, <1>d
    <3>4. LogOK'
      BY <2>1, <1>c DEF StartDrive, raftVars
    <3>5. tasks' \in [Nodes -> [Partitions -> [Nodes -> Nat]]]
      <4>1. tasks \in TaskCounts
        BY DEF TypeInv, TypeOK, TaskCounts
      <4>2. tasks[t][p][s] \in Nat /\ tasks[t][p][s] - 1 \in Nat
        BY <4>1, <3>1 DEF TaskCounts
      <4>3. tasks' = [tasks EXCEPT ![t][p][s] = tasks[t][p][s] - 1]
        BY <3>1
      <4> QED
        BY <4>1, <4>2, <4>3, TaskUpdate DEF TaskCounts
    <3>6. TabOK'
      BY <2>1, <1>a, <3>5 DEF StartDrive, TabOK
    <3> QED
      BY <2>1, <1>b, <1>e, <1>h, <3>3, <3>4, <3>6 DEF StartDrive
  <2>2. CASE Connect(t, p)
    <3>1. DrvOK'
      BY <2>0, <2>2, SetPhaseType, EndDriveType DEF Connect, DrvOK
    <3>2. BudOK'
      BY <2>2, <1>h, SpendType DEF Connect, BudOK
    <3>3. LogOK'
      BY <2>2, <1>c DEF Connect, raftVars
    <3> QED
      BY <2>2, <1>b, <1>e, <1>g, <3>1, <3>2, <3>3 DEF Connect
  <2>3. CASE BulkSync(t, p)
    <3>1. DrvOK'
      BY <2>0, <2>3, SetPhaseType DEF BulkSync, DrvOK
    <3>2. BudOK'
      BY <2>3, <1>h, SpendType DEF BulkSync, BudOK
    <3>3. LogOK'
      BY <2>3, <1>c DEF BulkSync, raftVars
    <3>4. drv[t][p].source \in Nodes
      BY <2>3 DEF BulkSync, TypeInv, DriveHasSource
    <3>5. EngOK'
      <4>1. offset \in [Nodes -> [Partitions -> Nat]]
        BY <1>a DEF EngOK
      <4>2. offset[drv[t][p].source][p] \in Nat
        BY <3>4, <4>1
      <4>3. offset' \in [Nodes -> [Partitions -> Nat]]
        BY <2>3, <4>1, <4>2 DEF BulkSync
      <4> QED
        BY <2>3, <1>a, <4>3 DEF BulkSync, EngOK
    <3> QED
      BY <2>3, <1>b, <1>g, <3>1, <3>2, <3>3, <3>5 DEF BulkSync
  <2>4. CASE PohTransfer(t, p)
    <3>1. DrvOK'
      BY <2>0, <2>4, SetPhaseType DEF PohTransfer, DrvOK
    <3>2. BudOK'
      BY <2>4, <1>h, SpendType DEF PohTransfer, BudOK
    <3>3. LogOK'
      BY <2>4, <1>c DEF PohTransfer, raftVars
    <3> QED
      BY <2>4, <1>b, <1>e, <1>g, <3>1, <3>2, <3>3 DEF PohTransfer
  <2>5. CASE Cutover(t, p)
    <3>1. drv[t][p].source \in Nodes /\ offset[drv[t][p].source][p] \in Nat
      BY <2>5 DEF Cutover, TypeInv, TypeOK, DriveHasSource
    <3>2. DrvOK'
      <4>1. CASE SetPhase(t, p, "abort")
        BY <2>0, <2>5, <4>1, SetPhaseType DEF Cutover, DrvOK
      <4>2. CASE drv' = [drv EXCEPT ![t][p].phase = "complete",
                                    ![t][p].final = offset[drv[t][p].source][p]]
        <5> DEFINE d == [drv[t][p] EXCEPT !.phase = "complete",
                                          !.final = offset[drv[t][p].source][p]]
        <5>1. drv[t][p] \in Drive /\ drv \in [Nodes -> [Partitions -> Drive]]
          BY DEF TypeInv, TypeOK, Drive
        <5>2. \A x \in Drive, o \in Nat :
                /\ [x EXCEPT !.phase = "complete", !.final = o] \in Drive
                /\ [x EXCEPT !.phase = "complete", !.final = o].source = x.source
          BY <2>0 DEF Drive
        <5>3. d \in Drive /\ d.source = drv[t][p].source
          BY <5>1, <5>2, <3>1
        <5>4. drv' = [drv EXCEPT ![t][p] = d]
          BY <4>2, <5>1
        <5> QED
          BY <5>3, <5>4, <3>1, <2>d
      <4> QED
        BY <2>5, <4>1, <4>2 DEF Cutover
    <3>3. BudOK'
      BY <2>5, <1>h, SpendType DEF Cutover, BudOK
    <3>4. LogOK'
      BY <2>5, <1>c DEF Cutover, raftVars
    <3>5. EngOK'
      <4>1. gate \in [Nodes -> [Partitions -> {"none", "Open", "Closed"}]]
        BY <1>a DEF EngOK
      <4>2. gate' \in [Nodes -> [Partitions -> {"none", "Open", "Closed"}]]
        <5>1. CloseGate(drv[t][p].source, p) \/ UNCHANGED gate
          BY <2>5 DEF Cutover
        <5>2. CASE CloseGate(drv[t][p].source, p)
          <6>1. gate' = [gate EXCEPT ![drv[t][p].source][p] =
                           IF @ = "none" THEN "none" ELSE "Closed"]
            BY <5>2 DEF CloseGate
          <6> QED
            BY <4>1, <6>1
        <5>3. CASE UNCHANGED gate
          BY <4>1, <5>3
        <5> QED
          BY <5>1, <5>2, <5>3
      <4> QED
        BY <2>5, <1>a, <4>2 DEF Cutover, EngOK
    <3> QED
      BY <2>5, <1>b, <1>g, <3>2, <3>3, <3>4, <3>5 DEF Cutover
  <2>6. CASE ProposeComplete(t, p)
    <3> DEFINE r == CompleteReq(p, t)
    <3>1. r \in Request
      BY RequestTypes
    <3> HIDE DEF r
    <3>2. DrvOK'
      BY <2>0, <2>6, SetPhaseType, EndDriveType DEF ProposeComplete, DrvOK, r
    <3>3. BudOK'
      BY <2>6, <1>h, SpendType DEF ProposeComplete, BudOK
    <3>4. LogOK'
      <4>1. \/ UNCHANGED raftVars
            \/ CommitEntry(r) /\ UNCHANGED late
            \/ late' = late \cup {r} /\ UNCHANGED <<log, ctable>>
        BY <2>6 DEF ProposeComplete, r
      <4>2. UNCHANGED applied
        BY <2>6 DEF ProposeComplete
      <4> QED
        BY <4>1, <4>2, <1>a, <1>c, <1>f, <3>1 DEF raftVars, LogOK
    <3> QED
      BY <2>6, <1>b, <1>e, <1>g, <3>2, <3>3, <3>4 DEF ProposeComplete
  <2>7. CASE ProposeAbort(t, p)
    <3> DEFINE r == AbortReq(p, drv[t][p].source)
    <3>1. r \in Request
      BY <2>7, RequestTypes DEF ProposeAbort, TypeInv, DriveHasSource
    <3> HIDE DEF r
    <3>2. DrvOK'
      BY <2>7, EndDriveType DEF ProposeAbort, DrvOK
    <3>3. BudOK'
      BY <2>7, <1>h, SpendType DEF ProposeAbort, BudOK
    <3>4. LogOK'
      <4>1. \/ UNCHANGED raftVars
            \/ CommitEntry(r) /\ UNCHANGED late
            \/ late' = late \cup {r} /\ UNCHANGED <<log, ctable>>
        BY <2>7 DEF ProposeAbort, r
      <4>2. UNCHANGED applied
        BY <2>7 DEF ProposeAbort
      <4> QED
        BY <4>1, <4>2, <1>a, <1>c, <1>f, <3>1 DEF raftVars, LogOK
    <3> QED
      BY <2>7, <1>b, <1>e, <1>g, <3>2, <3>3, <3>4 DEF ProposeAbort
  <2> QED
    BY <1>5, <2>w, <2>1, <2>2, <2>3, <2>4, <2>5, <2>6, <2>7 DEF DriveStep
<1>6. ASSUME NEW n \in Nodes, Reassign(n)
      PROVE  TypeInv'
  <2>1. EngOK'
    BY <1>6, <1>a DEF Reassign, EngOK, PartitionsFor
  <2> QED
    BY <1>6, <1>b, <1>c, <1>d, <1>g, <1>h, <2>1 DEF Reassign, raftVars
<1>7. ASSUME NEW n \in Nodes, NEW p \in Partitions, Fetch(n, p)
      PROVE  TypeInv'
  <2>1. EngOK'
    BY <1>7, <1>a DEF Fetch, EngOK
  <2> QED
    BY <1>7, <1>b, <1>c, <1>d, <1>g, <1>h, <2>1 DEF Fetch, raftVars
<1>8. ASSUME NEW n \in Nodes, StopPipeline(n)
      PROVE  TypeInv'
  <2>1. EngOK'
    BY <1>8, <1>a DEF StopPipeline, EngOK
  <2>2. BudOK'
    BY <1>8, SpendType DEF StopPipeline, BudOK
  <2> QED
    BY <1>8, <1>b, <1>c, <1>d, <1>g, <2>1, <2>2 DEF StopPipeline, raftVars
<1>9. ASSUME NEW n \in Nodes, StartPipeline(n)
      PROVE  TypeInv'
  <2>1. EngOK'
    BY <1>9, <1>a
       DEF StartPipeline, EngOK, PartitionsFor, SourceFor, FreshGates
  <2> QED
    BY <1>9, <1>b, <1>c, <1>d, <1>g, <1>h, <2>1 DEF StartPipeline, raftVars
<1>10. CASE UNCHANGED vars
  BY <1>10, <1>b, <1>c, <1>d, <1>e, <1>g, <1>h DEF vars, engineVars
<1> QED
  BY <1>1, <1>2, <1>3, <1>4, <1>5, <1>6, <1>7, <1>8, <1>9, <1>10 DEF Next

\* Type correctness for every cluster, every set of partitions and every
\* bound: in particular no replica's index ever passes the end of the log,
\* and every proposal names a member of the cluster.
THEOREM TypeCorrect == Spec => []TypeOK
<1>1. Init => TypeInv
  BY InitTypeInv
<1>2. TypeInv /\ [Next]_vars => TypeInv'
  BY NextTypeInv
<1>3. TypeInv => TypeOK
  BY DEF TypeInv
<1> QED
  BY <1>1, <1>2, <1>3, PTL DEF Spec
=============================================================================
