---------------------- MODULE DeliveryPipeline_proofs ----------------------
(***************************************************************************)
(* Proofs about DeliveryPipeline, for every set of partitions, every       *)
(* number of events, every strategy, policy and number of faults: type     *)
(* correctness, and for a pull source whose sink settles what it says it   *)
(* settles, that no durable checkpoint skips an event and that the         *)
(* pipeline implements SourceAnchor; for a push source, that the L2 store  *)
(* keeps what was not delivered. For the runners without rings, that any   *)
(* number of sources and sinks keep in step.                               *)
(***************************************************************************)
EXTENDS DeliveryPipeline, Sequences, FiniteSetTheorems, TLAPS

CONSTANTS Shape, Sources, Sinks, Inputs, Kind, Route(_), Fails, Partial, Stops
VARIABLES input, at, pos, exhausted, anyActive, shares, written, flushed, sent, shutdown

\* The runners that move batches in one task.
Dag == INSTANCE DagRunner

-----------------------------------------------------------------------------
(* Type correctness.                                                       *)

\* There are finitely many events.
LEMMA EventsFinite == IsFiniteSet(Events)
  <1>1. IsFiniteSet(0 .. MaxSeq - 1)
    BY PipelineAssumption, FS_Interval
  <1> QED
    BY <1>1, PipelineAssumption, FS_Product DEF Events

\* A sweep keeps the types of the L2 store and of the accountant.
LEMMA GcType ==
  ASSUME TypeOK, GcSweep
  PROVE  l2' \subseteq Events /\ used' \in [Parts -> Nat]
  <1>1. l2' \subseteq l2
    BY DEF GcSweep, Reclaimed
  <1>2. \A p \in Parts : Cardinality({e \in l2 \ l2' : e[1] = p}) \in Nat
    <2> SUFFICES ASSUME NEW p \in Parts
                 PROVE  IsFiniteSet({e \in l2 \ l2' : e[1] = p})
      BY FS_CardinalityType
    <2> {e \in l2 \ l2' : e[1] = p} \subseteq Events
      BY DEF TypeOK
    <2> QED  BY EventsFinite, FS_Subset
  <1>3. used \in [Parts -> Nat]
    BY DEF TypeOK
  <1>4. used' \in [Parts -> Nat]
    BY <1>2, <1>3 DEF GcSweep
  <1> QED  BY <1>1, <1>4 DEF TypeOK

\* A checkpoint written from ledger entries has the type of a record.
LEMMA CheckpointType ==
  ASSUME TypeOK, NEW L, WriteCheckpoint(L)
  PROVE  /\ ckpt' \in [off : [Parts -> NoOffset .. MaxSeq - 1], ack : 0 .. MaxSeq]
         /\ dsc' \in BOOLEAN /\ fsc' \in BOOLEAN
  <1>1. dsc' \in BOOLEAN /\ fsc' \in BOOLEAN
    BY DEF WriteCheckpoint
  <1>2. /\ ack \in 0 .. MaxSeq
        /\ ckpt \in [off : [Parts -> NoOffset .. MaxSeq - 1], ack : 0 .. MaxSeq]
    BY DEF TypeOK
  <1>3. CASE UNCHANGED ckpt
    BY <1>1, <1>2, <1>3
  <1>4. ASSUME NEW off \in [Parts -> NoOffset .. MaxSeq - 1],
               ckpt' = [off |-> off, ack |-> ack]
        PROVE  ckpt' \in [off : [Parts -> NoOffset .. MaxSeq - 1], ack : 0 .. MaxSeq]
    BY <1>2, <1>4
  <1> QED  BY <1>1, <1>3, <1>4 DEF WriteCheckpoint

\* Every step keeps the types.
LEMMA TypeStep == TypeOK /\ [Next]_vars => TypeOK'
  <1> SUFFICES ASSUME TypeOK, [Next]_vars
               PROVE  TypeOK'
    OBVIOUS
  <1> USE PipelineAssumption
  <1>1. ASSUME NEW p \in Parts, Fetch(p)
        PROVE  TypeOK'
    <2>1. fetched' \in [Parts -> 0 .. MaxSeq]
      BY <1>1 DEF Fetch, AppendL2, TypeOK
    <2>2. l2' \subseteq Events
      <3>1. <<p, fetched[p]>> \in Events
        BY <1>1 DEF Fetch, AppendL2, TypeOK, Events
      <3> QED  BY <3>1, <1>1 DEF Fetch, AppendL2, TypeOK
    <2>3. used' \in [Parts -> Nat]
      BY <1>1 DEF Fetch, AppendL2, TypeOK
    <2> QED  BY <1>1, <2>1, <2>2, <2>3 DEF Fetch, AppendL2, TypeOK, ledgerVars
  <1>2. ASSUME NEW p \in Parts, Process(p)
        PROVE  TypeOK'
    <2>1. ready' \in [Parts -> 0 .. MaxSeq]
      BY <1>2 DEF Process, TypeOK
    <2> QED  BY <1>2, <2>1 DEF Process, TypeOK, ledgerVars, l2Vars
  <1>3. CASE EndSource
    BY <1>3 DEF EndSource, Fault, TypeOK, ledgerVars, l2Vars
  <1>4. CASE Pop
    <2>1. taken' \in [Parts -> 0 .. MaxSeq]
      BY <1>4 DEF Pop
    <2>2. batch' \subseteq Outputs
      BY <1>4 DEF Pop, Outputs
    <2>3. ledger' \subseteq Events /\ failed' \subseteq ledger'
      BY <1>4 DEF Pop, TypeOK
    <2> QED  BY <1>4, <2>1, <2>2, <2>3
             DEF Pop, TypeOK, sourceVars, l2Vars, PcState
  <1>5. CASE WriteDone
    <2>1. PICK lost \in SUBSET batch :
            /\ IF lost = {} THEN UNCHANGED faults ELSE Fault
            /\ Accept(batch \ lost)
            /\ MarkBatch(AckedIds(batch \ lost), Ids(lost))
            /\ RecordAck(AckedIds(batch \ lost))
            /\ dsc' = (dsc \/ AckedIds(batch \ lost) # {})
            /\ pendingIds' = IF Blocking THEN pendingIds
                             ELSE pendingIds \cup Ids(batch \ lost)
            /\ ApplyPolicy(lost)
      BY <1>5 DEF WriteDone
    <2>2. Ids(batch \ lost) \subseteq Events /\ AckedIds(batch \ lost) \subseteq Events
      BY DEF TypeOK, Ids, Outputs, AckedIds
    <2>3. faults' \in 0 .. MaxFaults
      BY <2>1 DEF Fault, TypeOK
    <2>4. delivered' \subseteq Outputs /\ sinkBuf' \subseteq Outputs
      BY <2>1 DEF Accept, TypeOK
    <2>5. ledger' \subseteq Events /\ failed' \subseteq ledger'
      BY <2>1 DEF MarkBatch, TypeOK
    <2>6. ack' \in 0 .. MaxSeq
      <3>1. ack \in 0 .. MaxSeq /\ \A e \in AckedIds(batch \ lost) : e[2] \in 0 .. MaxSeq
        <4>1. \A e \in Events : e[2] \in 0 .. MaxSeq
          BY DEF Events
        <4> QED  BY <2>2, <4>1 DEF TypeOK
      <3> QED  BY <2>1, <3>1 DEF RecordAck
    <2>7. dsc' \in BOOLEAN
      BY <2>1
    <2>8. pendingIds' \subseteq Events
      BY <2>1, <2>2 DEF TypeOK
    <2>9. pc' \in PcState /\ batch' \subseteq Outputs
      <3>1. pc' \in {"tail", "failed", "retry"}
        BY <2>1 DEF ApplyPolicy
      <3>2. batch' \subseteq batch
        BY <2>1 DEF ApplyPolicy
      <3> QED  BY <3>1, <3>2 DEF TypeOK, PcState
    <2>10. attempt' \in 0 .. MaxRetries
      BY <2>1 DEF ApplyPolicy
    <2>11. fsc' \in BOOLEAN
      BY <2>1 DEF ApplyPolicy
    <2> QED
      BY <1>5, <2>3, <2>4, <2>5, <2>6, <2>7, <2>8, <2>9, <2>10, <2>11
      DEF WriteDone, TypeOK, sourceVars, l2Vars
  <1>6. CASE RetryDone
    <2>1. PICK lost \in SUBSET batch :
            /\ IF lost = {} THEN UNCHANGED faults ELSE Fault
            /\ Accept(batch \ lost)
            /\ MarkBatch(AckedIds(batch \ lost),
                         IF attempt = MaxRetries THEN Ids(lost) ELSE {})
            /\ pc' = IF lost = {} \/ attempt = MaxRetries THEN "tail" ELSE "retry"
            /\ batch' = IF lost = {} \/ attempt = MaxRetries THEN {}
                        ELSE {o \in batch : o[1] \in Ids(lost)}
            /\ attempt' = IF lost = {} \/ attempt = MaxRetries THEN 0 ELSE attempt + 1
      BY <1>6 DEF RetryDone
    <2>2. faults' \in 0 .. MaxFaults
      BY <2>1 DEF Fault, TypeOK
    <2>3. delivered' \subseteq Outputs /\ sinkBuf' \subseteq Outputs
      BY <2>1 DEF Accept, TypeOK
    <2>4. ledger' \subseteq Events /\ failed' \subseteq ledger'
      BY <2>1 DEF MarkBatch, TypeOK
    <2>5. pc' \in PcState /\ batch' \subseteq Outputs
      BY <2>1 DEF TypeOK, PcState
    <2>6. attempt' \in 0 .. MaxRetries
      BY <2>1 DEF TypeOK
    <2> QED
      BY <1>6, <2>2, <2>3, <2>4, <2>5, <2>6
      DEF RetryDone, TypeOK, sourceVars, l2Vars
  <1>7. CASE WriteError
    BY <1>7 DEF WriteError, Fault, Accept, TypeOK, sourceVars, l2Vars, PcState
  <1>8. CASE TailBlocking
    <2>1. l2' \subseteq Events /\ used' \in [Parts -> Nat]
      BY <1>8, GcType DEF TailBlocking, TypeOK, l2Vars
    <2>2. /\ ckpt' \in [off : [Parts -> NoOffset .. MaxSeq - 1], ack : 0 .. MaxSeq]
          /\ dsc' \in BOOLEAN /\ fsc' \in BOOLEAN
      BY <1>8, CheckpointType DEF TailBlocking, TypeOK
    <2> QED  BY <1>8, <2>1, <2>2
             DEF TailBlocking, TypeOK, sourceVars, ledgerVars, PcState
  <1>9. CASE TailBatched
    BY <1>9 DEF TailBatched, TypeOK, sourceVars, ledgerVars, l2Vars, PcState
  <1>10. CASE IdleCheckpoint
    <2>1. /\ ckpt' \in [off : [Parts -> NoOffset .. MaxSeq - 1], ack : 0 .. MaxSeq]
          /\ dsc' \in BOOLEAN /\ fsc' \in BOOLEAN
      BY <1>10, CheckpointType DEF IdleCheckpoint
    <2> QED  BY <1>10, <2>1
             DEF IdleCheckpoint, TypeOK, sourceVars, ledgerVars, l2Vars
  <1>11. CASE IdleFlush
    BY <1>11 DEF IdleFlush, TypeOK, sourceVars, ledgerVars, l2Vars, PcState
  <1>12. CASE FinalFlush
    BY <1>12 DEF FinalFlush, TypeOK, sourceVars, ledgerVars, l2Vars, PcState
  <1>13. CASE FlushDone
    <2>1. l2' \subseteq Events /\ used' \in [Parts -> Nat]
      BY <1>13, GcType DEF FlushDone, SinkFlush, CreditPending, TypeOK, l2Vars
    <2>2. /\ ckpt' \in [off : [Parts -> NoOffset .. MaxSeq - 1], ack : 0 .. MaxSeq]
          /\ dsc' \in BOOLEAN /\ fsc' \in BOOLEAN
      BY <1>13, CheckpointType DEF FlushDone, SinkFlush, CreditPending, TypeOK
    <2>3. delivered' \subseteq Outputs /\ sinkBuf' \subseteq Outputs
      BY <1>13 DEF FlushDone, SinkFlush, CreditPending, TypeOK
    <2>4. ledger' \subseteq Events /\ failed' \subseteq ledger'
      BY <1>13 DEF FlushDone, SinkFlush, CreditPending, MarkBatch, TypeOK
    <2>5. unflushed' \in BOOLEAN /\ pc' \in PcState /\ pendingIds' \subseteq Events
      BY <1>13 DEF FlushDone, SinkFlush, CreditPending, TypeOK, PcState
    <2> QED  BY <1>13, <2>1, <2>2, <2>3, <2>4, <2>5
             DEF FlushDone, SinkFlush, CreditPending, TypeOK, sourceVars
  <1>14. CASE FlushError
    BY <1>14 DEF FlushError, Fault, TypeOK, sourceVars, ledgerVars, l2Vars, PcState
  <1>15. CASE Crash
    BY <1>15 DEF Crash, Fault, TypeOK, sourceVars, ledgerVars, l2Vars, PcState
  <1>16. CASE Restart
    <2>1. start' \in [Parts -> 0 .. MaxSeq]
      <3>1. [p \in Parts |-> PlanOffset(p)] \in [Parts -> 0 .. MaxSeq]
        <4>1. ckpt.off \in [Parts -> -1 .. MaxSeq - 1]
          BY DEF TypeOK, NoOffset
        <4>2. \A p \in Parts : PlanOffset(p) \in 0 .. MaxSeq
          BY <4>1 DEF PlanOffset, NoOffset
        <4> QED  BY <4>2
      <3>2. Zero \in [Parts -> 0 .. MaxSeq] /\ fetched \in [Parts -> 0 .. MaxSeq]
        BY DEF Zero, TypeOK
      <3> QED  BY <3>1, <3>2, <1>16 DEF Restart, RestartPoints
    <2>2. fetched' = start' /\ ready' = start' /\ taken' = start'
      BY <1>16 DEF Restart
    <2>3. used' \in [Parts -> Nat]
      BY <1>16 DEF Restart, Zero
    <2>4. pc' \in PcState /\ src' = "open" /\ attempt' = 0 /\ ack' = 0
      BY <1>16 DEF Restart, PcState
    <2>5. /\ ledger' = {} /\ failed' = {} /\ batch' = {} /\ pendingIds' = {}
          /\ sinkBuf' = {}
      BY <1>16 DEF Restart
    <2>6. /\ unflushed' \in BOOLEAN /\ dsc' \in BOOLEAN /\ fsc' \in BOOLEAN
      BY <1>16 DEF Restart
    <2>7. UNCHANGED <<delivered, l2, ckpt, faults>> /\ conf' \in Configs
      BY <1>16 DEF Restart
    <2> QED  BY <2>1, <2>2, <2>3, <2>4, <2>5, <2>6, <2>7 DEF TypeOK
  <1>17. CASE UNCHANGED vars
    BY <1>17 DEF vars, TypeOK
  <1> QED
    BY <1>1, <1>2, <1>3, <1>4, <1>5, <1>6, <1>7, <1>8, <1>9, <1>10, <1>11,
       <1>12, <1>13, <1>14, <1>15, <1>16, <1>17 DEF Next

\* The initial state is well typed.
LEMMA InitType == Init => TypeOK
  <1> SUFFICES ASSUME Init PROVE TypeOK
    OBVIOUS
  <1>1. Zero \in [Parts -> 0 .. MaxSeq] /\ Zero \in [Parts -> Nat]
    BY PipelineAssumption DEF Zero
  <1>2. ckpt \in [off : [Parts -> NoOffset .. MaxSeq - 1], ack : 0 .. MaxSeq]
    <2>1. [p \in Parts |-> NoOffset] \in [Parts -> NoOffset .. MaxSeq - 1]
      BY PipelineAssumption DEF NoOffset
    <2> QED  BY <2>1, PipelineAssumption DEF Init
  <1>3. unflushed \in BOOLEAN /\ dsc \in BOOLEAN /\ fsc \in BOOLEAN
    BY DEF Init
  <1>4. /\ start = Zero /\ fetched = Zero /\ ready = Zero /\ taken = Zero
        /\ used = Zero
    BY DEF Init
  <1>5. /\ ledger = {} /\ failed = {} /\ batch = {} /\ pendingIds = {}
        /\ sinkBuf = {} /\ delivered = {} /\ l2 = {}
    BY DEF Init
  <1>6. /\ src = "open" /\ pc \in PcState /\ attempt = 0 /\ ack = 0
        /\ faults = 0 /\ conf \in Configs
    BY DEF Init, PcState
  <1> QED
    BY <1>1, <1>2, <1>3, <1>4, <1>5, <1>6, PipelineAssumption DEF TypeOK

\* Every reachable state is well typed, with every strategy, policy and kind
\* of source.
THEOREM TypeCorrect == Spec => []TypeOK
  <1> QED
    BY InitType, TypeStep, PTL DEF Spec

-----------------------------------------------------------------------------
(* No durable checkpoint skips an event.  The record says what the ledger  *)
(* knows, so the induction ties the ledger to the downstream: everything   *)
(* the sink task has taken is delivered or still has an entry (Tracked),   *)
(* entries lie between the start of this incarnation and the sink's        *)
(* position (LedgerRange), and what lies before the start is delivered     *)
(* (Settled), which is what the checkpoint of the previous incarnation     *)
(* was for.                                                                *)

\* A pull source, one output per event, and a sink whose flush settles what
\* it returned as pending.
CleanSink ==
  /\ ~Push /\ FlushConfirms
  /\ \E o : Outs = {o}

Between(e, low, high) == low[e[1]] <= e[2] /\ e[2] < high[e[1]]

Order == \A p \in Parts : /\ start[p] <= taken[p]
                          /\ taken[p] <= ready[p]
                          /\ ready[p] <= fetched[p]

Settled == \A e \in Events : e[2] < start[e[1]] => Delivered(e)

Tracked == \A e \in Events : Between(e, start, taken) => Delivered(e) \/ e \in ledger

LedgerRange == \A e \in ledger : Between(e, start, taken)

BatchRange == \A o \in batch \cup sinkBuf : Between(o[1], start, taken)

PendingBuffered ==
  \A e \in pendingIds : \A o \in Outs : <<e, o>> \in sinkBuf \cup delivered

DeliveryInv == /\ TypeOK /\ Order /\ Settled /\ Tracked /\ LedgerRange
               /\ BatchRange /\ PendingBuffered /\ CheckpointCovers

\* With one output per event, an id in a result stands for its output.
LEMMA IdsOutput ==
  ASSUME CleanSink, NEW S \in SUBSET Outputs, NEW e \in Ids(S), NEW o \in Outs
  PROVE  <<e, o>> \in S
  BY DEF CleanSink, Ids, Outputs

\* The downstream does not forget.
LEMMA DeliveredStays ==
  ASSUME delivered \subseteq delivered', NEW e, Delivered(e)
  PROVE  Delivered(e)'
  BY DEF Delivered

\* A step of the sink task that delivers outputs and only drops ledger
\* entries of delivered events keeps the relation of ledger and downstream.
LEMMA SinkMove ==
  ASSUME DeliveryInv, UNCHANGED <<start, taken>>,
         delivered \subseteq delivered', ledger' \subseteq ledger,
         \A e \in ledger \ ledger' : Delivered(e)',
         batch' \cup sinkBuf' \subseteq batch \cup sinkBuf
  PROVE  Settled' /\ Tracked' /\ LedgerRange' /\ BatchRange'
  <1>1. Settled'
    BY DeliveredStays DEF DeliveryInv, Settled, Delivered
  <1>2. Tracked'
    BY DEF DeliveryInv, Tracked, Between, Delivered
  <1>3. LedgerRange'
    BY DEF DeliveryInv, LedgerRange, Between
  <1>4. BatchRange'
    BY DEF DeliveryInv, BatchRange, Between
  <1> QED  BY <1>1, <1>2, <1>3, <1>4

\* A checkpoint that stays behind covers: deliveries only help.
LEMMA CheckpointKept ==
  ASSUME CheckpointCovers, UNCHANGED ckpt, delivered \subseteq delivered'
  PROVE  CheckpointCovers'
  BY DEF CheckpointCovers, PlanOffset, Delivered

\* A checkpoint written from the ledger covers.
LEMMA CheckpointWritten ==
  ASSUME TypeOK, TypeOK', CheckpointCovers, delivered \subseteq delivered',
         WriteCheckpoint(ledger'), Settled', Tracked', LedgerRange'
  PROVE  CheckpointCovers'
  <1>1. CASE UNCHANGED ckpt
    BY <1>1, CheckpointKept
  <1>2. ASSUME NEW off \in [Parts -> NoOffset .. MaxSeq - 1],
               CheckpointOffsets(off, ledger'), ckpt' = [off |-> off, ack |-> ack]
        PROVE  CheckpointCovers'
    <2> SUFFICES ASSUME NEW e \in Events, ~Delivered(e)'
                 PROVE  PlanOffset(e[1])' <= e[2]
      BY DEF CheckpointCovers
    <2>1. e[1] \in Parts /\ e[2] \in Nat /\ e = <<e[1], e[2]>>
      BY PipelineAssumption DEF Events
    <2>2. PlanOffset(e[1])' = IF off[e[1]] = NoOffset THEN 0 ELSE off[e[1]]
      BY <1>2 DEF PlanOffset
    <2>3. CASE off[e[1]] = NoOffset
      BY <2>1, <2>2, <2>3
    <2>4. CASE off[e[1]] # NoOffset
      <3>1. /\ <<e[1], off[e[1]]>> \in ledger'
            /\ \A f \in ledger' : f[1] = e[1] => off[e[1]] <= f[2]
        BY <1>2, <2>1, <2>4 DEF CheckpointOffsets, IsLedgerMin
      <3>2. off[e[1]] < taken'[e[1]]
        BY <3>1 DEF LedgerRange, Between
      <3>3. /\ start'[e[1]] \in Nat /\ taken'[e[1]] \in Nat /\ off[e[1]] \in Int
        BY <2>1, <1>2, PipelineAssumption DEF TypeOK, NoOffset
      <3>4. start'[e[1]] <= e[2]
        BY <2>1, <3>3 DEF Settled
      <3>5. CASE e[2] < taken'[e[1]]
        <4>1. e \in ledger'
          BY <3>4, <3>5 DEF Tracked, Between
        <4> QED  BY <4>1, <3>1, <2>2, <2>4
      <3>6. CASE taken'[e[1]] <= e[2]
        BY <3>2, <3>3, <3>6, <2>1, <2>2, <2>4
      <3> QED  BY <3>3, <3>5, <3>6, <2>1
    <2> QED  BY <2>3, <2>4
  <1> QED  BY <1>1, <1>2 DEF WriteCheckpoint

\* The initial state.
LEMMA DeliveryInit == Init => DeliveryInv
  <1> SUFFICES ASSUME Init PROVE DeliveryInv
    OBVIOUS
  <1>1. TypeOK
    BY InitType
  <1>2. Order /\ Tracked /\ LedgerRange /\ BatchRange /\ PendingBuffered
    BY PipelineAssumption
    DEF Init, Order, Tracked, LedgerRange, BatchRange, PendingBuffered, Between,
        Zero, Events
  <1>3. Settled
    BY PipelineAssumption DEF Init, Settled, Zero, Events
  <1>4. CheckpointCovers
    BY PipelineAssumption DEF Init, CheckpointCovers, PlanOffset, Events
  <1> QED  BY <1>1, <1>2, <1>3, <1>4 DEF DeliveryInv

\* Every step keeps the invariant.
LEMMA DeliveryStep == CleanSink /\ DeliveryInv /\ [Next]_vars => DeliveryInv'
  <1> SUFFICES ASSUME CleanSink, DeliveryInv, [Next]_vars
               PROVE  DeliveryInv'
    OBVIOUS
  <1>t. TypeOK /\ TypeOK'
    BY TypeStep DEF DeliveryInv
  <1>n. \A p \in Parts : /\ start[p] \in Nat /\ taken[p] \in Nat
                         /\ ready[p] \in Nat /\ fetched[p] \in Nat
    BY <1>t, PipelineAssumption DEF TypeOK
  <1>1. ASSUME NEW p \in Parts, Fetch(p)
        PROVE  DeliveryInv'
    <2>1. Order'
      BY <1>1, <1>t, <1>n DEF Fetch, AppendL2, TypeOK, Order, DeliveryInv
    <2> QED
      BY <1>1, <1>t, <2>1, CheckpointKept
      DEF Fetch, AppendL2, ledgerVars, DeliveryInv, Settled, Tracked, LedgerRange,
          BatchRange, PendingBuffered, Between, Delivered
  <1>2. ASSUME NEW p \in Parts, Process(p)
        PROVE  DeliveryInv'
    <2>1. Order'
      BY <1>2, <1>t, <1>n DEF Process, TypeOK, Order, DeliveryInv
    <2> QED
      BY <1>2, <1>t, <2>1, CheckpointKept
      DEF Process, ledgerVars, DeliveryInv, Settled, Tracked, LedgerRange,
          BatchRange, PendingBuffered, Between, Delivered
  <1>3. CASE \/ EndSource \/ TailBatched \/ IdleFlush \/ FinalFlush \/ FlushError
             \/ Crash \/ UNCHANGED vars
    <2>1. UNCHANGED <<start, fetched, ready, taken, ledger, batch, pendingIds,
                      sinkBuf, delivered, ckpt>>
      BY <1>3 DEF EndSource, TailBatched, IdleFlush, FinalFlush, FlushError, Crash,
                  vars, sourceVars, ledgerVars
    <2> QED
      BY <1>t, <2>1, CheckpointKept
      DEF DeliveryInv, Order, Settled, Tracked, LedgerRange, BatchRange,
          PendingBuffered, Between, Delivered
  <1>4. CASE Pop
    <2>1. PICK cut \in [Parts -> 0 .. MaxSeq] :
            /\ \A p \in Parts : taken[p] <= cut[p] /\ cut[p] <= ready[p]
            /\ batch' = {e \in Events : Between(e, taken, cut)} \X Outs
            /\ ledger' = ledger \cup {e \in Events : Between(e, taken, cut)}
            /\ taken' = cut
      BY <1>4 DEF Pop, Between
    <2>2. UNCHANGED <<start, fetched, ready, pendingIds, sinkBuf, delivered, ckpt>>
      BY <1>4 DEF Pop, sourceVars
    <2>n. \A e \in Events : /\ e[1] \in Parts /\ e[2] \in Nat
                            /\ cut[e[1]] \in Nat
      BY <2>1, PipelineAssumption DEF Events
    <2>3. Order'
      BY <2>1, <2>2, <1>n DEF Order, DeliveryInv
    <2>4. Settled' /\ PendingBuffered'
      BY <2>2 DEF Settled, PendingBuffered, Delivered, DeliveryInv
    <2>5. Tracked'
      BY <2>1, <2>2, <2>n, <1>n DEF Tracked, Between, Delivered, DeliveryInv
    <2>6. \A e \in Events : Between(e, start, taken) => Between(e, start, cut)
      BY <2>1, <2>n, <1>n DEF Between
    <2>7. \A e \in Events : Between(e, taken, cut) => Between(e, start, cut)
      BY <2>n, <1>n DEF Between, Order, DeliveryInv
    <2>8. LedgerRange'
      <3>1. \A e \in ledger' : Between(e, start, cut)
        BY <2>1, <2>6, <2>7, <1>t DEF LedgerRange, DeliveryInv, TypeOK
      <3> QED  BY <3>1, <2>1, <2>2 DEF LedgerRange, Between
    <2>9. BatchRange'
      <3>1. \A o \in batch' : Between(o[1], start, cut)
        BY <2>1, <2>7
      <3>2. \A o \in sinkBuf : o[1] \in Events
        BY <1>t DEF TypeOK, Outputs
      <3>3. \A o \in sinkBuf : Between(o[1], start, cut)
        BY <2>6, <3>2 DEF BatchRange, DeliveryInv
      <3> QED  BY <3>1, <3>3, <2>1, <2>2 DEF BatchRange, Between
    <2>10. CheckpointCovers'
      BY <2>2, CheckpointKept DEF DeliveryInv
    <2> QED  BY <1>t, <2>3, <2>4, <2>5, <2>8, <2>9, <2>10 DEF DeliveryInv
  <1>5. ASSUME NEW lost \in SUBSET batch, NEW bad,
               Accept(batch \ lost), MarkBatch(AckedIds(batch \ lost), bad),
               batch' \subseteq batch,
               \/ pendingIds' = pendingIds
               \/ ~Blocking /\ pendingIds' = pendingIds \cup Ids(batch \ lost),
               UNCHANGED <<start, fetched, ready, taken, ckpt>>
        PROVE  DeliveryInv'
    <2>1. delivered \subseteq delivered' /\ sinkBuf \subseteq sinkBuf'
      BY <1>5 DEF Accept
    <2>2. sinkBuf' \subseteq batch \cup sinkBuf
      BY <1>5 DEF Accept
    <2>3. batch \ lost \in SUBSET Outputs
      BY <1>t DEF TypeOK
    <2>4. \A e \in ledger \ ledger' : Delivered(e)'
      BY <1>5, <2>3, IdsOutput DEF MarkBatch, AckedIds, Accept, Delivered
    <2>5. ledger' \subseteq ledger
      BY <1>5 DEF MarkBatch
    <2>6. Settled' /\ Tracked' /\ LedgerRange' /\ BatchRange'
      BY <1>5, <2>1, <2>2, <2>4, <2>5, SinkMove
    <2>7. PendingBuffered'
      <3>1. CASE pendingIds' = pendingIds
        BY <3>1, <2>1 DEF PendingBuffered, DeliveryInv
      <3>2. CASE ~Blocking /\ pendingIds' = pendingIds \cup Ids(batch \ lost)
        <4>1. batch \ lost \subseteq sinkBuf'
          BY <1>5, <3>2 DEF Accept
        <4> QED  BY <3>2, <4>1, <2>1, <2>3, IdsOutput DEF PendingBuffered, DeliveryInv
      <3> QED  BY <1>5, <3>1, <3>2
    <2>8. Order'
      BY <1>5 DEF Order, DeliveryInv
    <2>9. CheckpointCovers'
      BY <1>5, <2>1, CheckpointKept DEF DeliveryInv
    <2> QED  BY <1>t, <2>6, <2>7, <2>8, <2>9 DEF DeliveryInv
  <1>6. CASE WriteDone
    <2>1. PICK lost \in SUBSET batch :
            /\ Accept(batch \ lost)
            /\ MarkBatch(AckedIds(batch \ lost), Ids(lost))
            /\ pendingIds' = IF Blocking THEN pendingIds
                             ELSE pendingIds \cup Ids(batch \ lost)
            /\ ApplyPolicy(lost)
      BY <1>6 DEF WriteDone
    <2>2. batch' \subseteq batch
      BY <2>1 DEF ApplyPolicy
    <2>3. UNCHANGED <<start, fetched, ready, taken, ckpt>>
      BY <1>6 DEF WriteDone, sourceVars
    <2>4. \/ pendingIds' = pendingIds
          \/ ~Blocking /\ pendingIds' = pendingIds \cup Ids(batch \ lost)
      BY <2>1
    <2> QED  BY <2>1, <2>2, <2>3, <2>4, <1>5
  <1>7. CASE RetryDone
    <2>1. PICK lost \in SUBSET batch :
            /\ Accept(batch \ lost)
            /\ MarkBatch(AckedIds(batch \ lost),
                         IF attempt = MaxRetries THEN Ids(lost) ELSE {})
            /\ batch' \subseteq batch
      BY <1>7 DEF RetryDone
    <2>2. UNCHANGED <<start, fetched, ready, taken, ckpt, pendingIds>>
      BY <1>7 DEF RetryDone, sourceVars
    <2> QED  BY <2>1, <2>2, <1>5
  <1>8. CASE WriteError
    <2>1. PICK outs \in SUBSET batch : Accept(outs)
      BY <1>8 DEF WriteError
    <2>2. /\ delivered \subseteq delivered' /\ sinkBuf \subseteq sinkBuf'
          /\ sinkBuf' \subseteq batch \cup sinkBuf
      BY <2>1 DEF Accept
    <2>3. /\ UNCHANGED <<start, fetched, ready, taken, ledger, pendingIds, ckpt>>
          /\ batch' = {}
      BY <1>8 DEF WriteError, sourceVars
    <2>4. Settled' /\ Tracked' /\ LedgerRange' /\ BatchRange'
      BY <2>2, <2>3, SinkMove
    <2>5. Order' /\ PendingBuffered'
      BY <2>2, <2>3 DEF Order, PendingBuffered, DeliveryInv
    <2>6. CheckpointCovers'
      BY <2>2, <2>3, CheckpointKept DEF DeliveryInv
    <2> QED  BY <1>t, <2>4, <2>5, <2>6 DEF DeliveryInv
  <1>9. CASE TailBlocking \/ IdleCheckpoint
    <2>1. UNCHANGED <<start, fetched, ready, taken, ledger, batch, pendingIds,
                      sinkBuf, delivered>>
      BY <1>9 DEF TailBlocking, IdleCheckpoint, sourceVars, ledgerVars
    <2>2. Settled' /\ Tracked' /\ LedgerRange' /\ BatchRange'
      BY <2>1, SinkMove
    <2>3. Order' /\ PendingBuffered'
      BY <2>1 DEF Order, PendingBuffered, DeliveryInv
    <2>4. UNCHANGED ckpt \/ WriteCheckpoint(ledger')
      BY <1>9, <2>1 DEF TailBlocking, IdleCheckpoint
    <2>5. CheckpointCovers'
      BY <1>t, <2>1, <2>2, <2>4, CheckpointKept, CheckpointWritten DEF DeliveryInv
    <2> QED  BY <1>t, <2>2, <2>3, <2>5 DEF DeliveryInv
  <1>10. CASE FlushDone
    <2>1. delivered' = delivered \cup sinkBuf /\ sinkBuf' = {} /\ pendingIds' = {}
      BY <1>10 DEF FlushDone, SinkFlush, CreditPending, CleanSink
    <2>2. ledger' = ledger \ pendingIds
      BY <1>10 DEF FlushDone, SinkFlush, CreditPending, MarkBatch
    <2>3. UNCHANGED <<start, fetched, ready, taken, batch>>
      BY <1>10 DEF FlushDone, SinkFlush, CreditPending, sourceVars
    <2>4. \A e \in ledger \ ledger' : Delivered(e)'
      BY <2>1, <2>2 DEF PendingBuffered, DeliveryInv, Delivered
    <2>5. Settled' /\ Tracked' /\ LedgerRange' /\ BatchRange'
      BY <2>1, <2>2, <2>3, <2>4, SinkMove
    <2>6. Order' /\ PendingBuffered'
      BY <2>1, <2>3 DEF Order, PendingBuffered, DeliveryInv
    <2>7. UNCHANGED ckpt \/ WriteCheckpoint(ledger')
      BY <1>10, <2>2 DEF FlushDone, SinkFlush, CreditPending
    <2>8. CheckpointCovers'
      BY <1>t, <2>1, <2>5, <2>7, CheckpointKept, CheckpointWritten DEF DeliveryInv
    <2> QED  BY <1>t, <2>5, <2>6, <2>8 DEF DeliveryInv
  <1>11. CASE Restart
    <2>1. \A p \in Parts : start'[p] <= PlanOffset(p) /\ PlanOffset(p) \in Nat
      <3>1. \A p \in Parts : PlanOffset(p) \in Nat
        <4>1. ckpt.off \in [Parts -> -1 .. MaxSeq - 1]
          BY <1>t DEF TypeOK, NoOffset
        <4> QED  BY <4>1, PipelineAssumption DEF PlanOffset, NoOffset
      <3>2. start' \in {Zero, [p \in Parts |-> PlanOffset(p)]}
        BY <1>11 DEF Restart, RestartPoints, CleanSink
      <3> QED  BY <3>1, <3>2 DEF Zero
    <2>2. /\ fetched' = start' /\ ready' = start' /\ taken' = start'
          /\ ledger' = {} /\ batch' = {} /\ pendingIds' = {} /\ sinkBuf' = {}
          /\ UNCHANGED <<delivered, ckpt>>
      BY <1>11 DEF Restart
    <2>n. \A p \in Parts : start'[p] \in Nat
      BY <1>t, PipelineAssumption DEF TypeOK
    <2>3. Settled'
      <3> SUFFICES ASSUME NEW e \in Events, e[2] < start'[e[1]]
                   PROVE  Delivered(e)'
        BY DEF Settled
      <3>1. e[1] \in Parts /\ e[2] \in Nat
        BY PipelineAssumption DEF Events
      <3>2. ~(PlanOffset(e[1]) <= e[2])
        BY <2>1, <2>n, <3>1
      <3> QED  BY <3>2, <2>2, DeliveredStays
               DEF CheckpointCovers, DeliveryInv, CleanSink
    <2>4. Order' /\ LedgerRange' /\ BatchRange' /\ PendingBuffered'
      BY <2>2, <2>n DEF Order, LedgerRange, BatchRange, PendingBuffered
    <2>5. Tracked'
      <3>1. \A e \in Events : e[1] \in Parts /\ e[2] \in Nat
        BY PipelineAssumption DEF Events
      <3> QED  BY <2>2, <2>n, <3>1 DEF Tracked, Between
    <2>6. CheckpointCovers'
      BY <2>2, CheckpointKept DEF DeliveryInv
    <2> QED  BY <1>t, <2>3, <2>4, <2>5, <2>6 DEF DeliveryInv
  <1> QED
    BY <1>1, <1>2, <1>3, <1>4, <1>6, <1>7, <1>8, <1>9, <1>10, <1>11 DEF Next

\* No durable checkpoint of a pull pipeline skips an event that was not
\* delivered, whatever fails, crashes or is retried, for every number of
\* partitions and events, every failure policy and both kinds of strategy.
THEOREM CheckpointSafe == CleanSink => (Spec => []CheckpointCovers)
  <1> SUFFICES ASSUME CleanSink PROVE Spec => []CheckpointCovers
    OBVIOUS
  <1>1. DeliveryInv /\ [Next]_vars => DeliveryInv'
    BY DeliveryStep
  <1>2. DeliveryInv => CheckpointCovers
    BY DEF DeliveryInv
  <1> QED
    BY <1>1, <1>2, DeliveryInit, PTL DEF Spec

-----------------------------------------------------------------------------
(* The pipeline implements SourceAnchor.                                   *)

\* The abstract state of the pipeline.
Done == {e \in Events : Delivered(e)}
Plan == [p \in Parts |-> PlanOffset(p)]

\* The offsets a restart resumes at are offsets of the source.
LEMMA PlanType ==
  ASSUME TypeOK
  PROVE  Plan \in [Parts -> 0 .. MaxSeq]
  <1>1. ckpt.off \in [Parts -> -1 .. MaxSeq - 1]
    BY DEF TypeOK, NoOffset
  <1> QED  BY <1>1, PipelineAssumption DEF Plan, PlanOffset, NoOffset

\* A step that delivers only what the sink holds is an abstract Acknowledge.
LEMMA AcknowledgeStep ==
  ASSUME CleanSink, DeliveryInv, DeliveryInv', UNCHANGED <<start, fetched>>,
         delivered \subseteq delivered',
         delivered' \subseteq delivered \cup batch \cup sinkBuf
  PROVE  Anchor!Acknowledge
  <1>1. Done' \in SUBSET Anchor!Events /\ Done \subseteq Done'
    BY DEF Done, Delivered, Anchor!Events, Events
  <1>2. \A e \in Done' \ Done : start[e[1]] <= e[2] /\ e[2] < fetched[e[1]]
    <2> SUFFICES ASSUME NEW e \in Done' \ Done
                 PROVE  start[e[1]] <= e[2] /\ e[2] < fetched[e[1]]
      OBVIOUS
    <2>1. PICK o \in Outs : <<e, o>> \in batch \cup sinkBuf
      BY DEF Done, Delivered
    <2>2. Between(e, start, taken)
      BY <2>1 DEF BatchRange, DeliveryInv
    <2>3. e[1] \in Parts /\ e[2] \in Nat
      BY PipelineAssumption DEF Done, Events
    <2>4. /\ taken[e[1]] \in Nat /\ fetched[e[1]] \in Nat
          /\ taken[e[1]] <= fetched[e[1]]
      BY <2>3, PipelineAssumption DEF DeliveryInv, TypeOK, Order
    <2> QED  BY <2>2, <2>3, <2>4 DEF Between
  <1>3. Plan' \in [Parts -> 0 .. MaxSeq]
    <2>1. ckpt'.off \in [Parts -> -1 .. MaxSeq - 1]
      BY DEF DeliveryInv, TypeOK, NoOffset
    <2> QED  BY <2>1, PipelineAssumption DEF Plan, PlanOffset, NoOffset
  <1>4. Anchor!Covers(Plan', Done')
    <2>1. \A e \in Events : e[1] \in Parts /\ e[2] \in Nat
      BY PipelineAssumption DEF Events
    <2>2. \A e \in Events : Delivered(e)' \/ PlanOffset(e[1])' <= e[2]
      BY DEF DeliveryInv, CheckpointCovers, CleanSink
    <2> QED  BY <1>3, <2>1, <2>2 DEF Anchor!Covers, Anchor!Events, Events, Done, Plan
  <1> QED
    BY <1>1, <1>2, <1>3, <1>4 DEF Anchor!Acknowledge, Done, Plan

\* The pipeline of a pull source with a clean sink implements SourceAnchor:
\* its durable replay point covers only delivered events and a restart
\* resumes at or before it.
THEOREM RefinesAnchor == CleanSink => (Spec => ImplementsAnchor)
  <1> SUFFICES ASSUME CleanSink PROVE Spec => ImplementsAnchor
    OBVIOUS
  <1>1. Init => Anchor!AInit
    <2> SUFFICES ASSUME Init PROVE Anchor!AInit
      OBVIOUS
    <2>1. Done = {}
      BY PipelineAssumption DEF Init, Done, Delivered
    <2>2. Plan = [p \in Parts |-> 0]
      BY DEF Init, Plan, PlanOffset
    <2> QED  BY <2>1, <2>2 DEF Anchor!AInit, Init, Zero, Done, Plan
  <1>2. DeliveryInv /\ DeliveryInv' /\ [Next]_vars => [Anchor!ANext]_(Anchor!avars)
    <2> SUFFICES ASSUME DeliveryInv, DeliveryInv', [Next]_vars
                 PROVE  Anchor!ANext \/ UNCHANGED Anchor!avars
      OBVIOUS
    <2>1. ASSUME NEW p \in Parts, Fetch(p)
          PROVE  Anchor!Read(p)
      <3>1. Done' = Done /\ Plan' = Plan
        BY <2>1 DEF Fetch, AppendL2, Done, Plan, Delivered, PlanOffset
      <3> QED  BY <2>1, <3>1 DEF Fetch, AppendL2, Anchor!Read, Done, Plan
    <2>2. CASE Restart
      <3>1. Done' = Done /\ Plan' = Plan
        BY <2>2 DEF Restart, Done, Plan, Delivered, PlanOffset
      <3>2. Plan \in [Parts -> 0 .. MaxSeq]
        BY PlanType DEF DeliveryInv
      <3>3. start' \in {Zero, Plan}
        BY <2>2 DEF Restart, RestartPoints, CleanSink, Plan
      <3>4. start' \in [Parts -> 0 .. MaxSeq] /\ \A p \in Parts : start'[p] <= Plan[p]
        BY <3>2, <3>3, PipelineAssumption DEF Zero
      <3>5. fetched' = start'
        BY <2>2 DEF Restart
      <3> QED  BY <3>1, <3>4, <3>5 DEF Anchor!ANext, Anchor!Replay, Done, Plan
    <2>3. CASE \/ EndSource \/ TailBatched \/ IdleFlush \/ FinalFlush \/ FlushError
               \/ Crash \/ Pop \/ WriteDone \/ RetryDone \/ WriteError
               \/ TailBlocking \/ IdleCheckpoint \/ FlushDone \/ UNCHANGED vars
               \/ \E p \in Parts : Process(p)
      <3>1. UNCHANGED <<start, fetched>>
        BY <2>3 DEF EndSource, TailBatched, IdleFlush, FinalFlush, FlushError, Crash,
             Pop, WriteDone, RetryDone, WriteError, TailBlocking, IdleCheckpoint,
             FlushDone, SinkFlush, CreditPending, Process, vars, sourceVars
      <3>2. /\ delivered \subseteq delivered'
            /\ delivered' \subseteq delivered \cup batch \cup sinkBuf
        BY <2>3 DEF EndSource, TailBatched, IdleFlush, FinalFlush, FlushError, Crash,
             Pop, WriteDone, RetryDone, WriteError, TailBlocking, IdleCheckpoint,
             FlushDone, SinkFlush, CreditPending, Process, vars, Accept
      <3> QED  BY <3>1, <3>2, AcknowledgeStep DEF Anchor!ANext
    <2> QED  BY <2>1, <2>2, <2>3 DEF Next, Anchor!ANext
  <1>3. DeliveryInv /\ [Next]_vars => DeliveryInv'
    BY DeliveryStep
  <1> QED
    BY <1>1, <1>2, <1>3, DeliveryInit, PTL DEF Spec, ImplementsAnchor, Anchor!ASpec

-----------------------------------------------------------------------------
(* The L2 store of a push source.  Garbage collection and the replay       *)
(* cursor trust the ack watermark, which is the highest sequence number    *)
(* any write delivered; it is safe to trust while every write that comes   *)
(* back in part ends the task (AckBehind), and what such a task leaves is  *)
(* not swept again before the restart.                                     *)

\* A push source of one partition, and no strategy that reports deliveries
\* in write_batch goes on after a failed output.
OrderedPush ==
  /\ Push /\ \E p : Parts = {p}
  /\ \A c \in Configs : c.blocking => c.policy = "FailBatch"

Running == pc \notin {"failed", "down"}

\* A blocking sink task has delivered what it took, or is about to.
BatchOnly ==
  /\ \A o \in batch : Between(o[1], start, taken)
  /\ Blocking /\ Running =>
       /\ pc # "retry"
       /\ \A e \in Events : Between(e, start, taken) =>
            Delivered(e) \/ (pc = "write" /\ \A o \in Outs : <<e, o>> \in batch)

\* The ack watermark of a running task has passed no undelivered event.
AckBehind ==
  Running => \A e \in Events :
               Between(e, start, fetched) => Delivered(e) \/ ack <= e[2]

\* The watermarks stay within what the source has read; a strategy that
\* flushes leaves the tracker alone.
AckReached ==
  /\ \A p \in Parts : ack <= fetched[p] /\ ckpt.ack <= fetched[p]
  /\ ~Blocking => ack = 0

RetainInv == /\ TypeOK /\ Order /\ BatchOnly /\ AckBehind /\ AckReached
             /\ L2Retains

\* The numbers an event is compared with.
LEMMA EventNumbers ==
  ASSUME TypeOK, NEW e \in Events
  PROVE  /\ e[1] \in Parts /\ e[2] \in Nat /\ e = <<e[1], e[2]>>
         /\ start[e[1]] \in Nat /\ taken[e[1]] \in Nat
         /\ ready[e[1]] \in Nat /\ fetched[e[1]] \in Nat
         /\ ack \in Nat /\ ckpt.ack \in Nat
  BY PipelineAssumption DEF Events, TypeOK

\* A sweep removes nothing at or above the watermark (gc_up_to removes only
\* segments whose highest number is below it).
LEMMA SweepKeeps ==
  ASSUME TypeOK, GcSweep, NEW e \in l2, e \notin l2'
  PROVE  e[2] < ack
<1>1. e \in Events
  BY DEF TypeOK
<1>2. e[2] \in Nat /\ ack \in Nat
  BY <1>1, EventNumbers
<1>3. SegmentMax(e[2]) < ack
  BY DEF GcSweep, Reclaimed
<1>4. SegmentMax(e[2]) >= e[2] /\ SegmentMax(e[2]) \in Int
  <2>1. SegSize \in Nat \ {0}
    BY PipelineAssumption
  <2>2. (e[2] \div SegSize + 1) * SegSize - 1 >= e[2]
    BY <1>2, <2>1
  <2>3. e[2] \div SegSize \in Int
    BY <1>2, <2>1
  <2>4. (e[2] \div SegSize + 1) * SegSize - 1 \in Int
    BY <2>1, <2>3
  <2> QED  BY <2>2, <2>4 DEF SegmentMax
<1> QED  BY <1>2, <1>3, <1>4

\* What L2Retains says of one event.
Retained(e) ==
  Between(e, start, fetched) => Delivered(e) \/ (e \in l2 /\ ckpt.ack <= e[2])

\* L2Retains event by event.
LEMMA RetainedAll ==
  ASSUME Push, TypeOK
  PROVE  L2Retains <=> \A e \in Events : Retained(e)
  BY EventNumbers DEF L2Retains, Retained, Between

\* A sweep, with a checkpoint or without one, of a running task.
LEMMA SweepStep ==
  ASSUME OrderedPush, RetainInv, TypeOK', Running,
         UNCHANGED <<conf, start, fetched, ready, taken, batch, ack>>,
         delivered \subseteq delivered',
         GcSweep \/ UNCHANGED l2,
         UNCHANGED ckpt \/ \E L : WriteCheckpoint(L)
  PROVE  L2Retains' /\ AckReached'
<1>1. ckpt'.ack = ckpt.ack \/ ckpt'.ack = ack
  BY DEF WriteCheckpoint
<1>2. L2Retains'
  <2> SUFFICES ASSUME NEW e \in Events, Between(e, start, fetched), ~Delivered(e)'
               PROVE  e \in l2' /\ ckpt'.ack <= e[2]
    BY EventNumbers DEF L2Retains, Between, RetainInv
  <2>1. ~Delivered(e)
    BY DeliveredStays
  <2>2. e \in l2 /\ ckpt.ack <= e[2]
    BY <2>1, RetainedAll DEF RetainInv, OrderedPush, Retained
  <2>3. ack <= e[2]
    BY <2>1 DEF RetainInv, AckBehind
  <2>4. e \in l2'
    BY <2>2, <2>3, SweepKeeps, EventNumbers DEF RetainInv
  <2> QED  BY <1>1, <2>2, <2>3, <2>4
<1>3. AckReached'
  BY <1>1 DEF RetainInv, AckReached, Blocking
<1> QED  BY <1>2, <1>3

\* A step that changes neither what is read and stored nor the watermarks.
LEMMA StillRetained ==
  ASSUME OrderedPush, RetainInv, TypeOK', delivered \subseteq delivered',
         UNCHANGED <<conf, start, fetched, l2, ack, ckpt>>,
         Running' => Running
  PROVE  L2Retains' /\ AckBehind' /\ AckReached'
<1>1. L2Retains'
  BY DeliveredStays DEF L2Retains, RetainInv, OrderedPush, Delivered
<1>2. AckBehind'
  BY DeliveredStays DEF AckBehind, RetainInv, Between
<1>3. AckReached'
  BY DEF AckReached, RetainInv, Blocking
<1> QED  BY <1>1, <1>2, <1>3

\* A fresh pipeline has read nothing.
LEMMA RetainInit ==
  ASSUME OrderedPush, Init
  PROVE  RetainInv
<1>1. TypeOK
  BY InitType
<1>2. \A p \in Parts : start[p] = 0 /\ taken[p] = 0 /\ ready[p] = 0 /\ fetched[p] = 0
  BY DEF Init, Zero
<1>3. Order
  BY <1>2 DEF Order
<1>4. \A e \in Events : ~Between(e, start, taken) /\ ~Between(e, start, fetched)
  BY <1>1, <1>2, EventNumbers DEF Between
<1>5. BatchOnly /\ AckBehind
  BY <1>4 DEF Init, BatchOnly, AckBehind
<1>6. AckReached
  BY <1>2 DEF Init, AckReached
<1>7. L2Retains
  BY <1>1, <1>4, RetainedAll DEF Retained, OrderedPush
<1> QED  BY <1>1, <1>3, <1>5, <1>6, <1>7 DEF RetainInv

\* The write of a batch comes back to a blocking sink task: all of it is
\* delivered, or the task ends.
LEMMA WriteRetains ==
  ASSUME OrderedPush, RetainInv, TypeOK', WriteDone
  PROVE  RetainInv'
<1>1. PICK lost \in SUBSET batch :
        /\ Accept(batch \ lost)
        /\ RecordAck(AckedIds(batch \ lost))
        /\ ApplyPolicy(lost)
  BY DEF WriteDone
<1>2. UNCHANGED <<conf, start, fetched, ready, taken, l2, ckpt>> /\ pc = "write"
  BY DEF WriteDone, sourceVars, l2Vars
<1>3. delivered \subseteq delivered' /\ batch' \subseteq batch /\ Running
  BY <1>1, <1>2 DEF Accept, ApplyPolicy, Running
<1>4. L2Retains' /\ Order'
  BY <1>2, <1>3, DeliveredStays DEF L2Retains, RetainInv, OrderedPush, Delivered, Order
<1>5. \A o \in batch' : Between(o[1], start', taken')
  BY <1>2, <1>3 DEF RetainInv, BatchOnly, Between
<1>6. CASE ~Blocking
  <2>1. ack' = ack /\ ack = 0 /\ ~Blocking'
    BY <1>1, <1>2, <1>6 DEF RecordAck, AckedIds, RetainInv, AckReached, Blocking
  <2>2. AckBehind' /\ AckReached'
    BY <1>2, <2>1, EventNumbers DEF AckBehind, AckReached, RetainInv, Blocking
  <2> QED  BY <1>4, <1>5, <2>1, <2>2 DEF RetainInv, BatchOnly
<1>7. CASE Blocking
  <2> DEFINE acked == AckedIds(batch \ lost)
  <2>1. /\ delivered' = delivered \cup (batch \ lost) /\ acked = Ids(batch \ lost)
        /\ Blocking'
    BY <1>1, <1>2, <1>7 DEF Accept, AckedIds, Blocking
  <2>2. Policy = "FailBatch"
    BY <1>7 DEF OrderedPush, RetainInv, TypeOK, Blocking, Policy
  <2>3. \A e \in acked : e \in Events /\ Between(e, start, taken)
    BY <2>1 DEF Ids, RetainInv, BatchOnly, TypeOK, Outputs
  <2>4. ack' = ack \/ \E e \in acked : ack' = e[2]
    BY <1>1 DEF RecordAck, OrderedPush
  <2> HIDE DEF acked
  <2>5. \A p \in Parts : ack' = ack \/ ack' < taken[p]
    BY <2>3, <2>4, EventNumbers DEF OrderedPush, Between, RetainInv
  <2>6. \A p \in Parts : /\ taken[p] \in Nat /\ fetched[p] \in Nat
                         /\ taken[p] <= fetched[p] /\ ack' \in Nat
    BY PipelineAssumption DEF RetainInv, TypeOK, Order
  <2>7. AckReached'
    BY <1>2, <2>1, <2>5, <2>6 DEF AckReached, RetainInv
  <2>8. CASE lost # {}
    <3>1. pc' = "failed"
      BY <1>1, <2>2, <2>8 DEF ApplyPolicy
    <3> QED  BY <1>4, <1>5, <2>7, <3>1 DEF RetainInv, BatchOnly, AckBehind, Running
  <2>9. CASE lost = {}
    <3>1. pc' = "tail"
      BY <1>1, <2>9 DEF ApplyPolicy
    <3>2. \A e \in Events : Between(e, start, taken) => Delivered(e)'
      BY <1>2, <1>3, <1>7, <2>1, <2>9 DEF RetainInv, BatchOnly, Delivered
    <3>3. BatchOnly'
      BY <1>2, <1>5, <3>1, <3>2 DEF BatchOnly, Between
    <3>4. AckBehind'
      <4> SUFFICES ASSUME NEW e \in Events, Between(e, start, fetched), ~Delivered(e)'
                   PROVE  ack' <= e[2]
        BY <1>2 DEF AckBehind, Between
      <4>1. e[1] \in Parts /\ e[2] \in Nat /\ start[e[1]] <= e[2]
        BY EventNumbers DEF Between, RetainInv
      <4>2. ~(e[2] < taken[e[1]])
        BY <3>2, <4>1 DEF Between
      <4>3. ack <= e[2]
        BY <1>3, DeliveredStays DEF RetainInv, AckBehind
      <4> QED  BY <2>5, <2>6, <4>1, <4>2, <4>3
    <3> QED  BY <1>4, <2>7, <3>3, <3>4 DEF RetainInv
  <2> QED  BY <2>8, <2>9
<1> QED  BY <1>6, <1>7

\* Every step keeps what is not delivered in the store.
LEMMA RetainStep ==
  ASSUME OrderedPush, RetainInv, [Next]_vars
  PROVE  RetainInv'
<1>t. TypeOK /\ TypeOK'
  BY TypeStep DEF RetainInv
<1>n. \A p \in Parts : /\ start[p] \in Nat /\ taken[p] \in Nat
                       /\ ready[p] \in Nat /\ fetched[p] \in Nat
                       /\ ack \in Nat /\ ckpt.ack \in Nat
  BY <1>t, PipelineAssumption DEF TypeOK
<1>1. ASSUME NEW p \in Parts, Fetch(p)
      PROVE  RetainInv'
  <2>1. /\ UNCHANGED <<conf, start, ready, taken, pc, batch, delivered, ack, ckpt>>
        /\ fetched' = [fetched EXCEPT ![p] = fetched[p] + 1]
        /\ l2' = l2 \cup {<<p, fetched[p]>>}
    BY <1>1 DEF Fetch, AppendL2, OrderedPush
  <2>2. \A q \in Parts : fetched'[q] = IF q = p THEN fetched[p] + 1 ELSE fetched[q]
    BY <1>t, <2>1 DEF TypeOK
  <2>3. Order' /\ AckReached'
    BY <1>n, <2>1, <2>2 DEF RetainInv, Order, AckReached, Blocking
  <2>4. BatchOnly'
    BY <2>1 DEF RetainInv, BatchOnly, Between, Delivered, Running, Blocking
  <2>5. \A e \in Events : Between(e, start, fetched') =>
          Between(e, start, fetched) \/ (e = <<p, fetched[p]>> /\ e[2] = fetched[p])
    <3> SUFFICES ASSUME NEW e \in Events, Between(e, start, fetched'),
                        ~Between(e, start, fetched)
                 PROVE  e = <<p, fetched[p]>> /\ e[2] = fetched[p]
      OBVIOUS
    <3>1. e[1] = p /\ e[2] = fetched[p]
      BY <1>t, <2>2, EventNumbers DEF Between
    <3> QED  BY <1>t, <3>1, EventNumbers
  <2>6. AckBehind'
    BY <1>n, <2>1, <2>5 DEF AckBehind, AckReached, RetainInv, Running, Delivered
  <2>7. \A e \in Events : Between(e, start, fetched') =>
          Delivered(e) \/ (e \in l2' /\ ckpt.ack <= e[2])
    BY <1>t, <2>1, <2>5, RetainedAll
    DEF Retained, RetainInv, AckReached, OrderedPush
  <2>8. L2Retains'
    <3> SUFFICES ASSUME NEW e \in Events, ~Delivered(e)',
                        ~(e[2] < start'[e[1]]), ~(e[2] >= fetched'[e[1]])
                 PROVE  e \in l2' /\ ckpt'.ack <= e[2]
      BY DEF L2Retains
    <3>1. fetched'[e[1]] \in Nat
      BY <1>n, <1>t, <2>2, EventNumbers
    <3>2. Between(e, start, fetched')
      BY <1>t, <2>1, <3>1, EventNumbers DEF Between
    <3> QED  BY <2>1, <2>7, <3>2 DEF Delivered
  <2> QED  BY <1>t, <2>3, <2>4, <2>6, <2>8 DEF RetainInv
<1>2. ASSUME NEW p \in Parts, Process(p)
      PROVE  RetainInv'
  <2>1. /\ UNCHANGED <<conf, start, fetched, taken, pc, batch, delivered, l2, ack, ckpt>>
        /\ ready' = [ready EXCEPT ![p] = ready[p] + 1] /\ ready[p] < fetched[p]
    BY <1>2 DEF Process, l2Vars
  <2>2. Order'
    BY <1>t, <1>n, <2>1 DEF Order, RetainInv, TypeOK
  <2>3. BatchOnly'
    BY <2>1 DEF RetainInv, BatchOnly, Between, Delivered, Running, Blocking
  <2>4. L2Retains' /\ AckBehind' /\ AckReached'
    BY <1>t, <2>1, StillRetained DEF Running
  <2> QED  BY <1>t, <2>2, <2>3, <2>4 DEF RetainInv
<1>3. CASE \/ EndSource \/ TailBatched \/ IdleFlush \/ FinalFlush \/ FlushError
           \/ Crash \/ UNCHANGED vars
  <2>1. UNCHANGED <<conf, start, fetched, ready, taken, batch, delivered, l2, ack, ckpt>>
    BY <1>3 DEF EndSource, TailBatched, IdleFlush, FinalFlush, FlushError, Crash,
                vars, sourceVars, l2Vars
  <2>2. \/ pc' = pc
        \/ pc \in {"tail", "idle"} /\ pc' \in {"idle", "flush", "final"}
        \/ pc' \in {"failed", "down"}
    BY <1>3 DEF EndSource, TailBatched, IdleFlush, Idle, FinalFlush, FlushError, Crash,
                vars
  <2>3. BatchOnly'
    BY <2>1, <2>2 DEF RetainInv, BatchOnly, Between, Delivered, Running, Blocking
  <2>4. L2Retains' /\ AckBehind' /\ AckReached'
    BY <1>t, <2>1, <2>2, StillRetained DEF Running
  <2> QED  BY <1>t, <2>1, <2>3, <2>4 DEF RetainInv, Order
<1>4. CASE Pop
  <2>1. PICK cut \in [Parts -> 0 .. MaxSeq] :
          /\ \A p \in Parts : taken[p] <= cut[p] /\ cut[p] <= ready[p]
          /\ batch' = {e \in Events : Between(e, taken, cut)} \X Outs
          /\ taken' = cut
    BY <1>4 DEF Pop, Between
  <2>2. /\ UNCHANGED <<conf, start, fetched, ready, delivered, l2, ack, ckpt>>
        /\ pc = "idle" /\ pc' = "write"
    BY <1>4 DEF Pop, sourceVars, l2Vars
  <2>n. \A p \in Parts : cut[p] \in Nat
    BY <2>1, PipelineAssumption
  <2>3. Order'
    BY <1>n, <2>1, <2>2, <2>n DEF Order, RetainInv
  <2>4. \A e \in Events : Between(e, start, cut) <=>
          Between(e, start, taken) \/ Between(e, taken, cut)
    BY <1>t, <1>n, <2>1, <2>n, EventNumbers DEF Between, Order, RetainInv
  <2>5. \A o \in batch' : Between(o[1], start, cut)
    BY <2>1, <2>4
  <2>6. Blocking => \A e \in Events : Between(e, start, cut) =>
                      Delivered(e) \/ \A o \in Outs : <<e, o>> \in batch'
    BY <2>1, <2>2, <2>4 DEF RetainInv, BatchOnly, Running
  <2>7. BatchOnly'
    BY <2>1, <2>2, <2>5, <2>6 DEF BatchOnly, Between, Delivered, Running, Blocking
  <2>8. L2Retains' /\ AckBehind' /\ AckReached'
    BY <1>t, <2>2, StillRetained DEF Running
  <2> QED  BY <1>t, <2>3, <2>7, <2>8 DEF RetainInv
<1>5. CASE WriteDone
  BY <1>5, <1>t, WriteRetains
<1>6. CASE RetryDone
  <2>1. PICK lost \in SUBSET batch : Accept(batch \ lost) /\ batch' \subseteq batch
    BY <1>6 DEF RetryDone
  <2>2. /\ UNCHANGED <<conf, start, fetched, ready, taken, l2, ack, ckpt>>
        /\ pc = "retry"
    BY <1>6 DEF RetryDone, sourceVars, l2Vars
  <2>3. delivered \subseteq delivered' /\ Running
    BY <2>1, <2>2 DEF Accept, Running
  <2>4. ~Blocking /\ ~Blocking'
    BY <2>2, <2>3 DEF RetainInv, BatchOnly, Blocking
  <2>5. BatchOnly' /\ Order'
    BY <2>1, <2>2, <2>4 DEF RetainInv, BatchOnly, Between, Order
  <2>6. L2Retains' /\ AckBehind' /\ AckReached'
    BY <1>t, <2>2, <2>3, StillRetained
  <2> QED  BY <1>t, <2>5, <2>6 DEF RetainInv
<1>7. CASE WriteError
  <2>1. PICK outs \in SUBSET batch : Accept(outs)
    BY <1>7 DEF WriteError
  <2>2. /\ UNCHANGED <<conf, start, fetched, ready, taken, l2, ack, ckpt>>
        /\ pc' = "failed" /\ batch' = {}
    BY <1>7 DEF WriteError, sourceVars, l2Vars
  <2>3. delivered \subseteq delivered'
    BY <2>1 DEF Accept
  <2>4. BatchOnly' /\ Order' /\ ~Running'
    BY <2>2 DEF RetainInv, BatchOnly, Running, Order
  <2>5. L2Retains' /\ AckBehind' /\ AckReached'
    BY <1>t, <2>2, <2>3, <2>4, StillRetained
  <2> QED  BY <1>t, <2>4, <2>5 DEF RetainInv
<1>8. CASE TailBlocking \/ IdleCheckpoint \/ FlushDone
  <2>1. UNCHANGED <<conf, start, fetched, ready, taken, batch, ack>>
    BY <1>8 DEF TailBlocking, IdleCheckpoint, FlushDone, sourceVars
  <2>2. /\ pc \in {"tail", "idle", "flush", "final"} /\ pc' \in {"idle", "done"}
        /\ Running
    BY <1>8 DEF TailBlocking, IdleCheckpoint, Idle, FlushDone, Running
  <2>3. delivered \subseteq delivered'
    BY <1>8 DEF TailBlocking, IdleCheckpoint, FlushDone, SinkFlush
  <2>4. GcSweep \/ UNCHANGED l2
    BY <1>8 DEF TailBlocking, IdleCheckpoint, FlushDone, l2Vars
  <2>5. UNCHANGED ckpt \/ \E L : WriteCheckpoint(L)
    BY <1>8 DEF TailBlocking, IdleCheckpoint, FlushDone
  <2>6. L2Retains' /\ AckReached'
    BY <1>t, <2>1, <2>2, <2>3, <2>4, <2>5, SweepStep
  <2>7. AckBehind'
    BY <2>1, <2>2, <2>3, DeliveredStays DEF AckBehind, RetainInv, Between
  <2>8. BatchOnly'
    BY <2>1, <2>2, <2>3, DeliveredStays DEF BatchOnly, RetainInv, Between, Blocking
  <2> QED  BY <1>t, <2>1, <2>6, <2>7, <2>8 DEF RetainInv, Order
<1>9. CASE Restart
  <2>1. start' = fetched /\ fetched' = fetched /\ ready' = fetched /\ taken' = fetched
    BY <1>9 DEF Restart, RestartPoints, OrderedPush
  <2>2. batch' = {} /\ pc' = "idle" /\ ack' = 0 /\ UNCHANGED ckpt
    BY <1>9 DEF Restart
  <2>3. Order' /\ AckReached'
    BY <1>n, <2>1, <2>2 DEF Order, AckReached, RetainInv
  <2>4. \A e \in Events : ~Between(e, start', taken') /\ ~Between(e, start', fetched')
    BY <1>t, <2>1, EventNumbers DEF Between
  <2>5. BatchOnly' /\ AckBehind'
    BY <2>2, <2>4 DEF BatchOnly, AckBehind
  <2>6. L2Retains'
    BY <1>t, <2>1, EventNumbers DEF L2Retains
  <2> QED  BY <1>t, <2>3, <2>5, <2>6 DEF RetainInv
<1> QED
  BY <1>1, <1>2, <1>3, <1>4, <1>5, <1>6, <1>7, <1>8, <1>9 DEF Next

\* What a push source has read since it was started and the downstream has
\* not received stays in the L2 store and at or after the replay cursor of
\* the checkpoint: one partition, any number of outputs of an event, any
\* capacity, segment size, sink and number of faults, any mix of strategies.
THEOREM UndeliveredRetained == OrderedPush => (Spec => []L2Retains)
<1> SUFFICES ASSUME OrderedPush PROVE Spec => []L2Retains
  OBVIOUS
<1>1. Init => RetainInv
  BY RetainInit
<1>2. RetainInv /\ [Next]_vars => RetainInv'
  BY RetainStep
<1>3. RetainInv => L2Retains
  BY DEF RetainInv
<1> QED  BY <1>1, <1>2, <1>3, PTL DEF Spec

-----------------------------------------------------------------------------
(* The runners without rings: any number of sources and sinks.             *)

\* n sources and m sinks, every sink gets everything, with events of any kind.
Fanned(n, m, E) ==
  /\ n \in Nat \ {0} /\ m \in Nat \ {0} /\ Sources = 1 .. n /\ Sinks = 1 .. m
  /\ Shape = "fan" /\ Partial = FALSE /\ Inputs \subseteq [1 .. n -> Seq(Seq(E))]
  /\ \E I, S : E = [id : I, source : S]

FanShape(n, m, E) ==
  /\ pc \in {"top", "poll", "process", "write", "flush", "ok", "error"}
  /\ input \in [1 .. n -> Seq(Seq(E))] /\ at \in 1 .. n /\ pos \in [1 .. n -> Nat]
  /\ exhausted \subseteq 1 .. n /\ anyActive \in BOOLEAN /\ shutdown \in BOOLEAN
  /\ batch \in Seq(E) /\ written \in [1 .. m -> Seq(E)]

\* The sources up to number c have been polled in round r, the others not.
Upto(c) ==
  /\ pc = "poll" => c = at - 1
  /\ pc \in {"process", "write"} => c = at
  /\ pc \in {"top", "flush", "ok"} => c = 0

Turns(n, r, c) ==
  /\ Upto(c)
  /\ \A s \in (1 .. n) \ exhausted : pos[s] = IF s <= c THEN r + 1 ELSE r

InTurn(n) == \E r \in Nat, c \in 0 .. n : Turns(n, r, c)

\* The writes left, after d sinks, of the outputs q.
Left(s, m, q, d) ==
  /\ s \in Seq([sink : 1 .. m, outputs : {q}]) /\ d + Len(s) = m
  /\ \A i \in 1 .. Len(s) : s[i].sink = d + i

\* The sinks up to number d have the batch in hand, the others not.
Shared(m, d) ==
  /\ pc = "write" => Left(shares, m, Dag!Processed(batch), d)
  /\ pc \in {"top", "poll", "process", "flush", "ok"} => d = 0

Together(m, base, d) ==
  /\ Shared(m, d)
  /\ \A k \in 1 .. m : written[k] = IF k <= d THEN base \o Dag!Processed(batch) ELSE base

Alike(m, E) == \E base \in Seq(E), d \in 0 .. m : Together(m, base, d)

FanInv(n, m, E) == FanShape(n, m, E) /\ InTurn(n) /\ Alike(m, E)

\* No source pauses: an empty batch is its end.
Steady(n) == \A x \in Inputs : \A s \in 1 .. n : \A i \in DOMAIN x[s] : x[s][i] # << >>

\* What is exhausted was read to the end, and a round without a batch finds
\* every source exhausted.
Drained(n) ==
  /\ input \in Inputs
  /\ \A s \in 1 .. n : pos[s] <= Len(input[s])
  /\ \A s \in exhausted : pos[s] = Len(input[s])
  /\ pc = "poll" /\ ~anyActive => \A s \in 1 .. n : s < at => s \in exhausted
  /\ pc \in {"process", "write"} => anyActive
  /\ pc \in {"flush", "ok"} /\ ~shutdown => exhausted = 1 .. n

\* The outputs of a batch are as many, in order.
LEMMA ProcessedIs ==
  ASSUME NEW n, NEW m, NEW E, Fanned(n, m, E), NEW b \in Seq(E)
  PROVE  Dag!Processed(b) \in Seq(E) /\ Len(Dag!Processed(b)) = Len(b) /\ Len(b) \in Nat
<1>1. PICK I, S : E = [id : I, source : S]
  BY DEF Fanned
<1>2. \A i \in 1 .. Len(b) : b[i] \in E
  OBVIOUS
<1>3. \A e \in E : Dag!Output(e) \in E
  BY <1>1 DEF Dag!Output
<1>4. Dag!Processed(b) = [i \in 1 .. Len(b) |-> Dag!Output(b[i])]
  BY DEF Dag!Processed, Fanned
<1>5. Dag!Processed(b) \in [1 .. Len(b) -> E]
  BY <1>2, <1>3, <1>4
<1>6. Len(b) \in Nat
  OBVIOUS
<1> QED BY <1>5, <1>6

\* The next source, or the end of the round.
LEMMA OnwardIs ==
  ASSUME NEW n, NEW m, NEW E, Fanned(n, m, E), Dag!Onward
  PROVE  \/ at = n /\ at' = at /\ pc' = IF anyActive THEN "top" ELSE "flush"
         \/ at # n /\ at' = at + 1 /\ pc' = "poll"
<1>1. n \in Nat \ {0} /\ Sources = 1 .. n
  BY DEF Fanned
<1>2. Cardinality(1 .. n) = n
  BY <1>1, FS_Interval
<1>3. Dag!Cardinality(Sources) = n
  BY <1>1, <1>2 DEF Dag!Cardinality, Cardinality
<1> QED BY <1>3 DEF Dag!Onward, Dag!EndOfRound

LEMMA FanInit ==
  ASSUME NEW n, NEW m, NEW E, Fanned(n, m, E), Dag!Init
  PROVE  FanInv(n, m, E)
<1>1. /\ n \in Nat \ {0} /\ m \in Nat \ {0} /\ Sources = 1 .. n /\ Sinks = 1 .. m
      /\ Inputs \subseteq [1 .. n -> Seq(Seq(E))]
  BY DEF Fanned
<1>2. /\ input \in Inputs /\ pc = "top" /\ at = 1 /\ pos = [s \in Sources |-> 0] /\ exhausted = {}
      /\ anyActive = FALSE /\ batch = << >> /\ written = [k \in Sinks |-> << >>] /\ shutdown = FALSE
  BY DEF Dag!Init
<1>3. << >> \in Seq(E)
  OBVIOUS
<1>4. FanShape(n, m, E)
  <2>1. pos \in [1 .. n -> Nat] /\ input \in [1 .. n -> Seq(Seq(E))] /\ at \in 1 .. n
    BY <1>1, <1>2
  <2>2. written \in [1 .. m -> Seq(E)]
    BY <1>1, <1>2, <1>3
  <2> QED BY <1>2, <1>3, <2>1, <2>2 DEF FanShape
<1>5. Turns(n, 0, 0) /\ 0 \in 0 .. n /\ 0 \in 0 .. m
  BY <1>1, <1>2 DEF Turns, Upto
<1>6. Together(m, << >>, 0)
  BY <1>1, <1>2 DEF Together, Shared
<1> QED BY <1>3, <1>4, <1>5, <1>6 DEF FanInv, InTurn, Alike

-----------------------------------------------------------------------------
(* Every step keeps the turns.                                             *)

\* All that is not exhausted was polled up to the source at hand.
LEMMA TurnsOn ==
  ASSUME NEW n, NEW m, NEW E, Fanned(n, m, E), at \in 1 .. n, Dag!Onward, NEW r \in Nat,
         \A s \in (1 .. n) \ exhausted' : pos'[s] = IF s <= at THEN r + 1 ELSE r
  PROVE  InTurn(n)'
<1>1. n \in Nat \ {0} /\ at \in Nat
  BY DEF Fanned
<1>2. CASE at = n /\ at' = at /\ pc' = IF anyActive THEN "top" ELSE "flush"
  <2>1. \A s \in (1 .. n) \ exhausted' : pos'[s] = IF s <= 0 THEN r + 2 ELSE r + 1
    BY <1>1, <1>2
  <2>2. pc' \in {"top", "flush"}
    BY <1>2
  <2>3. Turns(n, r + 1, 0)'
    BY <2>1, <2>2 DEF Turns, Upto
  <2> QED BY <1>1, <2>3 DEF InTurn
<1>3. CASE at # n /\ at' = at + 1 /\ pc' = "poll"
  <2>1. at = at' - 1 /\ at \in 0 .. n
    BY <1>1, <1>3
  <2>2. PICK c : c = at
    OBVIOUS
  <2>3. Turns(n, r, c)'
    BY <1>3, <2>1, <2>2 DEF Turns, Upto
  <2> QED BY <2>1, <2>2, <2>3 DEF InTurn
<1> QED BY <1>2, <1>3, OnwardIs

LEMMA TurnStep ==
  ASSUME NEW n, NEW m, NEW E, Fanned(n, m, E), FanInv(n, m, E), Dag!Next
  PROVE  InTurn(n)'
<1>1. /\ n \in Nat \ {0} /\ at \in 1 .. n /\ at \in Nat /\ pos \in [1 .. n -> Nat] /\ exhausted \subseteq 1 .. n
      /\ Shape = "fan"
      /\ pc \in {"top", "poll", "process", "write", "flush", "ok", "error"}
  BY DEF Fanned, FanInv, FanShape
<1>2. PICK r \in Nat, c \in 0 .. n : Turns(n, r, c)
  BY DEF FanInv, InTurn
<1>3. Upto(c) /\ \A s \in (1 .. n) \ exhausted : pos[s] = IF s <= c THEN r + 1 ELSE r
  BY <1>2 DEF Turns
<1>4. ASSUME UNCHANGED <<pos, exhausted>>, Upto(c)' PROVE InTurn(n)'
  BY <1>3, <1>4 DEF InTurn, Turns
<1>5. CASE Dag!Top
  <2>1. UNCHANGED <<pos, exhausted>> /\ pc = "top" /\ at' = 1 /\ pc' \in {"flush", "poll"}
    BY <1>5 DEF Dag!Top
  <2>2. Upto(c)'
    BY <1>3, <2>1 DEF Upto
  <2> QED BY <1>4, <2>1, <2>2
<1>6. CASE Dag!Pass
  <2>1. UNCHANGED <<pos, exhausted>> /\ pc = "poll" /\ at \in exhausted /\ Dag!Onward
    BY <1>6 DEF Dag!Pass
  <2>2. c = at - 1
    BY <1>3, <2>1 DEF Upto
  <2>3. \A s \in (1 .. n) \ exhausted' : pos'[s] = IF s <= at THEN r + 1 ELSE r
    BY <1>1, <1>3, <2>1, <2>2
  <2> QED BY <1>1, <2>1, <2>3, TurnsOn
<1>7. CASE Dag!Empty
  <2>1. /\ pc = "poll" /\ at \notin exhausted /\ exhausted' = exhausted \cup {at} /\ Dag!Onward
        /\ pos' = [pos EXCEPT ![at] = IF @ < Len(input[at]) THEN @ + 1 ELSE @]
    BY <1>1, <1>7 DEF Dag!Empty
  <2>2. c = at - 1
    BY <1>3, <2>1 DEF Upto
  <2>3. \A s \in 1 .. n : s # at => pos'[s] = pos[s]
    BY <1>1, <2>1
  <2>4. \A s \in (1 .. n) \ exhausted' : pos'[s] = IF s <= at THEN r + 1 ELSE r
    BY <1>1, <1>3, <2>1, <2>2, <2>3
  <2> QED BY <1>1, <2>1, <2>4, TurnsOn
<1>8. CASE Dag!Poll
  <2>1. pc = "poll" /\ at \notin exhausted /\ UNCHANGED <<at, exhausted>>
    BY <1>8 DEF Dag!Poll
  <2>2. c = at - 1
    BY <1>3, <2>1 DEF Upto
  <2>3. CASE pos' = [pos EXCEPT ![at] = @ + 1] /\ pc' = "process"
    <3>1. \A s \in 1 .. n : pos'[s] = IF s = at THEN pos[at] + 1 ELSE pos[s]
      BY <1>1, <2>3
    <3>2. pos[at] = r
      BY <1>1, <1>3, <2>1, <2>2
    <3>3. \A s \in (1 .. n) \ exhausted' : pos'[s] = IF s <= at THEN r + 1 ELSE r
      BY <1>1, <1>3, <2>1, <2>2, <3>1, <3>2
    <3>4. PICK h : h = at
      OBVIOUS
    <3>5. Turns(n, r, h)' /\ h \in 0 .. n
      BY <1>1, <2>1, <2>3, <3>3, <3>4 DEF Turns, Upto
    <3> QED BY <3>5 DEF InTurn
  <2>4. CASE pc' = "error" /\ UNCHANGED pos
    <3>1. Upto(c)'
      BY <2>4 DEF Upto
    <3> QED BY <1>4, <2>1, <2>4, <3>1
  <2> QED BY <1>8, <2>3, <2>4 DEF Dag!Poll, Dag!Fail
<1>9. CASE Dag!Process
  <2>1. pc = "process" /\ UNCHANGED <<at, pos, exhausted>> /\ pc' \in {"write", "error"}
    BY <1>9 DEF Dag!Process, Dag!Fail
  <2>2. Upto(c)'
    BY <1>3, <2>1 DEF Upto
  <2> QED BY <1>4, <2>1, <2>2
<1>10. CASE Dag!Write
  <2>1. pc = "write" /\ UNCHANGED <<pos, exhausted>>
    BY <1>10 DEF Dag!Write
  <2>2. c = at
    BY <1>3, <2>1 DEF Upto
  <2>3. CASE Dag!Onward
    BY <1>1, <1>3, <2>1, <2>2, <2>3, TurnsOn
  <2>4. CASE UNCHANGED <<pc, at>> \/ pc' = "error"
    <3>1. Upto(c)'
      BY <1>3, <2>1, <2>4 DEF Upto
    <3> QED BY <1>4, <2>1, <3>1
  <2> QED BY <1>1, <1>10, <2>3, <2>4 DEF Dag!Write, Dag!Fail
<1>11. CASE Dag!Flush
  <2>1. pc = "flush" /\ UNCHANGED <<pos, exhausted, at>> /\ pc' \in {"flush", "ok", "error"}
    BY <1>11 DEF Dag!Flush, Dag!Fail
  <2>2. Upto(c)'
    BY <1>3, <2>1 DEF Upto
  <2> QED BY <1>4, <2>1, <2>2
<1>12. CASE Dag!Shutdown
  <2>1. UNCHANGED <<pc, pos, exhausted, at>>
    BY <1>12 DEF Dag!Shutdown
  <2>2. Upto(c)'
    BY <1>3, <2>1 DEF Upto
  <2> QED BY <1>4, <2>1, <2>2
<1> QED BY <1>5, <1>6, <1>7, <1>8, <1>9, <1>10, <1>11, <1>12 DEF Dag!Next, Dag!Step

-----------------------------------------------------------------------------
(* And the sinks together.                                                 *)

\* No write under way.
LEMMA AlikeRest ==
  ASSUME NEW n, NEW m, NEW E, Fanned(n, m, E), FanInv(n, m, E), UNCHANGED written,
         pc \in {"top", "poll", "process", "flush"}, pc' # "write"
  PROVE  Alike(m, E)'
<1>1. PICK base \in Seq(E), d \in 0 .. m : Together(m, base, d)
  BY DEF FanInv, Alike
<1>2. d = 0 /\ m \in Nat
  BY <1>1 DEF Together, Shared, Fanned
<1>3. \A k \in 1 .. m : written[k] = base
  BY <1>1, <1>2 DEF Together
<1>4. Together(m, base, 0)'
  BY <1>2, <1>3 DEF Together, Shared
<1> QED BY <1>2, <1>4 DEF Alike

\* The writes of a batch.
LEMMA SharesAre ==
  ASSUME NEW n, NEW m, NEW E, Fanned(n, m, E), NEW b
  PROVE  Left(Dag!Shares(b), m, Dag!Processed(b), 0)
<1>1. m \in Nat /\ Sinks = 1 .. m /\ Shape # "routed"
  BY DEF Fanned
<1>2. PICK q : q = Dag!Processed(b)
  OBVIOUS
<1>3. Dag!Shares(b) = [k \in 1 .. m |-> [sink |-> k, outputs |-> q]]
  BY <1>1, <1>2 DEF Dag!Shares
<1>4. Dag!Shares(b) \in [1 .. m -> [sink : 1 .. m, outputs : {q}]]
  BY <1>3
<1>5. /\ Dag!Shares(b) \in Seq([sink : 1 .. m, outputs : {q}]) /\ Len(Dag!Shares(b)) = m
      /\ \A i \in 1 .. m : Dag!Shares(b)[i].sink = i
  BY <1>1, <1>3, <1>4
<1>6. 0 + Len(Dag!Shares(b)) = m /\ \A i \in 1 .. m : 0 + i = i
  BY <1>1, <1>5
<1> QED BY <1>2, <1>5, <1>6 DEF Left

\* The first of them is done.
LEMMA FirstDone ==
  ASSUME NEW m \in Nat, NEW d \in 0 .. m, NEW q, NEW s, s # << >>, Left(s, m, q, d)
  PROVE  /\ Head(s).sink = d + 1 /\ Head(s).outputs = q /\ d + 1 \in 1 .. m
         /\ Left(Tail(s), m, q, d + 1)
<1>0. PICK R : R = [sink : 1 .. m, outputs : {q}]
  OBVIOUS
<1>s. s \in Seq(R) /\ d + Len(s) = m /\ \A i \in 1 .. Len(s) : s[i].sink = d + i
  BY <1>0 DEF Left
<1>1. Len(s) \in Nat /\ Len(s) > 0 /\ 1 \in 1 .. Len(s) /\ s \in Seq(R)
  BY <1>s
<1>2. s[1] \in R /\ Head(s) = s[1]
  BY <1>1
<1>3. Head(s).sink = d + 1 /\ Head(s).outputs = q
  BY <1>0, <1>1, <1>2, <1>s
<1>4. Tail(s) \in Seq(R) /\ Len(Tail(s)) = Len(s) - 1
  BY <1>1
<1>5. \A i \in 1 .. Len(s) - 1 : Tail(s)[i] = s[i + 1] /\ i + 1 \in 1 .. Len(s) /\ d + (i + 1) = (d + 1) + i
  BY <1>1
<1>6. \A i \in 1 .. Len(s) - 1 : Tail(s)[i].sink = (d + 1) + i
  BY <1>5, <1>s
<1>7. d + 1 \in 1 .. m /\ (d + 1) + (Len(s) - 1) = m
  <2>1. PICK l : l = Len(s)
    OBVIOUS
  <2>2. l \in Nat /\ l > 0 /\ d + l = m
    BY <1>1, <1>s, <2>1
  <2>3. d + 1 \in 1 .. m /\ (d + 1) + (l - 1) = m
    BY <2>2
  <2> QED BY <2>1, <2>3
<1> QED BY <1>0, <1>3, <1>4, <1>6, <1>7 DEF Left

LEMMA AlikeStep ==
  ASSUME NEW n, NEW m, NEW E, Fanned(n, m, E), FanInv(n, m, E), Dag!Next
  PROVE  Alike(m, E)'
<1>1. /\ m \in Nat \ {0} /\ batch \in Seq(E) /\ written \in [1 .. m -> Seq(E)] /\ Partial = FALSE
      /\ pc \in {"top", "poll", "process", "write", "flush", "ok", "error"} /\ Shape = "fan"
  BY DEF Fanned, FanInv, FanShape
<1>2. PICK base \in Seq(E), d \in 0 .. m : Together(m, base, d)
  BY DEF FanInv, Alike
<1>3. PICK q : q = Dag!Processed(batch)
  OBVIOUS
<1>4. q \in Seq(E)
  BY <1>1, <1>3, ProcessedIs
<1>5. /\ \A k \in 1 .. m : written[k] = IF k <= d THEN base \o q ELSE base
      /\ Shared(m, d)
  BY <1>2, <1>3 DEF Together
<1>6. CASE Dag!Top \/ Dag!Pass \/ Dag!Empty \/ Dag!Poll \/ Dag!Flush
  <2>1. UNCHANGED written /\ pc \in {"top", "poll", "flush"}
    BY <1>6 DEF Dag!Top, Dag!Pass, Dag!Empty, Dag!Poll, Dag!Flush
  <2>2. pc' # "write"
    BY <1>6 DEF Dag!Top, Dag!Pass, Dag!Empty, Dag!Poll, Dag!Flush, Dag!Fail, Dag!Onward, Dag!EndOfRound
  <2> QED BY <2>1, <2>2, AlikeRest
<1>7. CASE Dag!Process
  <2>1. UNCHANGED <<written, batch>> /\ pc = "process"
    BY <1>7 DEF Dag!Process
  <2>2. CASE shares' = Dag!Shares(batch) /\ pc' = "write"
    <3>1. d = 0
      BY <1>5, <2>1 DEF Shared
    <3>2. Left(shares', m, q, 0)
      BY <1>3, <2>2, SharesAre
    <3>3. Dag!Processed(batch)' = q
      BY <1>3, <2>1 DEF Dag!Processed
    <3>4. Shared(m, 0)'
      <4>1. PICK s : s = shares'
        OBVIOUS
      <4> QED BY <2>2, <3>2, <3>3, <4>1 DEF Shared, Left
    <3>5. Together(m, base, 0)'
      BY <1>5, <2>1, <3>1, <3>4 DEF Together
    <3> QED BY <1>1, <3>5 DEF Alike
  <2>3. CASE pc' = "error"
    BY <2>1, <2>3, AlikeRest
  <2> QED BY <1>7, <2>2, <2>3 DEF Dag!Process, Dag!Fail
<1>8. CASE Dag!Write
  <2>1. pc = "write" /\ Left(shares, m, q, d)
    BY <1>3, <1>5, <1>8 DEF Dag!Write, Shared
  <2>2. CASE /\ shares # << >> /\ shares' = Tail(shares) /\ UNCHANGED <<pc, batch>>
             /\ \E x \in Dag!Accepted(Head(shares).outputs) :
                  written' = [written EXCEPT ![Head(shares).sink] = @ \o x]
    <3>1. /\ Head(shares).sink = d + 1 /\ Head(shares).outputs = q /\ d + 1 \in 1 .. m
          /\ Left(shares', m, q, d + 1)
      <4>1. m \in Nat
        BY <1>1
      <4> QED BY <2>1, <2>2, <4>1, FirstDone
    <3>2. written' = [written EXCEPT ![d + 1] = @ \o q]
      BY <1>1, <2>2, <3>1 DEF Dag!Accepted
    <3>3. \A k \in 1 .. m : written'[k] = IF k = d + 1 THEN written[d + 1] \o q ELSE written[k]
      BY <1>1, <3>1, <3>2
    <3>4. written[d + 1] = base
      BY <1>1, <1>5, <3>1
    <3>5. \A k \in 1 .. m : written'[k] = IF k <= d + 1 THEN base \o q ELSE base
      <4> SUFFICES ASSUME NEW k \in 1 .. m
                   PROVE  written'[k] = IF k <= d + 1 THEN base \o q ELSE base
        OBVIOUS
      <4>1. CASE k = d + 1
        <5>1. k <= d + 1
          BY <1>1, <4>1
        <5>2. written'[k] = written[d + 1] \o q
          BY <3>3, <4>1
        <5> QED BY <3>4, <5>1, <5>2
      <4>2. CASE k # d + 1
        <5>1. (k <= d + 1) <=> (k <= d)
          BY <1>1, <4>2
        <5> QED BY <1>5, <3>3, <4>2, <5>1
      <4> QED BY <4>1, <4>2
    <3>6. Dag!Processed(batch)' = q
      BY <1>3, <2>2 DEF Dag!Processed
    <3>7. PICK h : h = d + 1
      OBVIOUS
    <3>8. Shared(m, h)'
      BY <2>1, <2>2, <3>1, <3>6, <3>7 DEF Shared, Left
    <3>9. Together(m, base, h)' /\ h \in 0 .. m
      BY <1>1, <3>1, <3>5, <3>6, <3>7, <3>8 DEF Together
    <3> QED BY <3>9 DEF Alike
  <2>3. CASE shares = << >> /\ Dag!Onward /\ UNCHANGED written
    <3>1. d = m
      <4>1. d + Len(shares) = m /\ Len(shares) = 0
        BY <2>1, <2>3 DEF Left
      <4> QED BY <1>1, <4>1
    <3>2. \A k \in 1 .. m : written'[k] = base \o q
      BY <1>1, <1>5, <2>3, <3>1
    <3>3. pc' # "write"
      BY <2>3 DEF Dag!Onward, Dag!EndOfRound
    <3>4. PICK z : z = base \o q
      OBVIOUS
    <3>5. z \in Seq(E)
      BY <1>4, <3>4
    <3>6. Together(m, z, 0)'
      <4>1. \A k \in 1 .. m : written'[k] = z /\ ~(k <= 0)
        BY <1>1, <3>2, <3>4
      <4>2. Shared(m, 0)'
        BY <3>3 DEF Shared
      <4> QED BY <4>1, <4>2 DEF Together
    <3> QED BY <1>1, <3>5, <3>6 DEF Alike
  <2>4. CASE pc' = "error" /\ UNCHANGED <<written, batch>>
    <3>1. Dag!Processed(batch)' = q
      BY <1>3, <2>4 DEF Dag!Processed
    <3>2. Together(m, base, d)'
      BY <1>5, <2>4, <3>1 DEF Together, Shared
    <3> QED BY <3>2 DEF Alike
  <2> QED BY <1>1, <1>8, <2>2, <2>3, <2>4 DEF Dag!Write, Dag!Fail
<1>9. CASE Dag!Shutdown
  <2>1. UNCHANGED <<pc, batch, shares, written>>
    BY <1>9 DEF Dag!Shutdown
  <2>2. Dag!Processed(batch)' = Dag!Processed(batch)
    BY <2>1 DEF Dag!Processed
  <2>3. Together(m, base, d)'
    BY <1>2, <2>1, <2>2 DEF Together, Shared
  <2> QED BY <2>3 DEF Alike
<1> QED BY <1>6, <1>7, <1>8, <1>9 DEF Dag!Next, Dag!Step

-----------------------------------------------------------------------------

LEMMA ShapeStep ==
  ASSUME NEW n, NEW m, NEW E, Fanned(n, m, E), FanInv(n, m, E), Dag!Next
  PROVE  FanShape(n, m, E)'
<1>1. /\ n \in Nat \ {0} /\ m \in Nat \ {0} /\ Sources = 1 .. n /\ Sinks = 1 .. m /\ Shape = "fan"
      /\ Partial = FALSE
      /\ pc \in {"top", "poll", "process", "write", "flush", "ok", "error"}
      /\ input \in [1 .. n -> Seq(Seq(E))] /\ at \in 1 .. n /\ at \in Nat /\ pos \in [1 .. n -> Nat]
      /\ exhausted \subseteq 1 .. n /\ anyActive \in BOOLEAN /\ shutdown \in BOOLEAN
      /\ batch \in Seq(E) /\ written \in [1 .. m -> Seq(E)]
  <2>1. /\ n \in Nat \ {0} /\ m \in Nat \ {0} /\ Sources = 1 .. n /\ Sinks = 1 .. m /\ Shape = "fan"
        /\ Partial = FALSE
    BY DEF Fanned
  <2>2. FanShape(n, m, E) /\ at \in 1 .. n
    BY DEF FanInv, FanShape
  <2>3. at \in Nat
    BY <2>1, <2>2
  <2> QED BY <2>1, <2>2, <2>3 DEF FanShape
<1>2. ASSUME Dag!Onward
      PROVE  at' \in 1 .. n /\ pc' \in {"top", "poll", "flush"}
  <2>1. CASE at = n /\ at' = at /\ pc' = IF anyActive THEN "top" ELSE "flush"
    BY <1>1, <2>1
  <2>2. CASE at # n /\ at' = at + 1 /\ pc' = "poll"
    BY <1>1, <2>2
  <2> QED BY <1>2, <2>1, <2>2, OnwardIs
<1>3. CASE Dag!Top
  <2>1. /\ UNCHANGED <<input, pos, exhausted, batch, written, shutdown>> /\ at' = 1
        /\ anyActive' = FALSE /\ pc' \in {"flush", "poll"}
    BY <1>3 DEF Dag!Top
  <2>2. 1 \in 1 .. n
    BY <1>1
  <2> QED BY <1>1, <2>1, <2>2 DEF FanShape
<1>4. CASE Dag!Pass
  BY <1>1, <1>2, <1>4 DEF Dag!Pass, FanShape
<1>5. CASE Dag!Empty
  <2>1. /\ exhausted' = exhausted \cup {at} /\ Dag!Onward
        /\ pos' = [pos EXCEPT ![at] = IF @ < Len(input[at]) THEN @ + 1 ELSE @]
        /\ UNCHANGED <<input, anyActive, batch, written, shutdown>>
    BY <1>1, <1>5 DEF Dag!Empty
  <2>2. pos' \in [1 .. n -> Nat]
    BY <1>1, <2>1
  <2> QED BY <1>1, <1>2, <2>1, <2>2 DEF FanShape
<1>6. CASE Dag!Poll
  <2>1. UNCHANGED <<input, at, exhausted, written, shutdown>>
    BY <1>6 DEF Dag!Poll
  <2>2. CASE /\ Dag!Offered # << >> /\ batch' = Dag!Offered /\ pos' = [pos EXCEPT ![at] = @ + 1]
             /\ anyActive' = TRUE /\ pc' = "process"
    <3>1. batch' \in Seq(E)
      <4>1. PICK y : y = input[at]
        OBVIOUS
      <4>2. y \in Seq(Seq(E)) /\ pos[at] \in Nat
        BY <1>1, <4>1
      <4>3. pos[at] < Len(y) /\ batch' = y[pos[at] + 1]
        BY <2>2, <4>1 DEF Dag!Offered
      <4>4. pos[at] + 1 \in 1 .. Len(y)
        BY <4>2, <4>3
      <4> QED BY <4>2, <4>3, <4>4
    <3>2. pos' \in [1 .. n -> Nat]
      BY <1>1, <2>2
    <3> QED BY <1>1, <2>1, <2>2, <3>1, <3>2 DEF FanShape
  <2>3. CASE pc' = "error" /\ UNCHANGED <<batch, pos, anyActive>>
    BY <1>1, <2>1, <2>3 DEF FanShape
  <2> QED BY <1>6, <2>2, <2>3 DEF Dag!Poll, Dag!Fail
<1>7. CASE Dag!Process
  BY <1>1, <1>7 DEF Dag!Process, Dag!Fail, FanShape
<1>8. CASE Dag!Write
  <2>1. UNCHANGED <<input, pos, exhausted, anyActive, shutdown>>
    BY <1>8 DEF Dag!Write
  <2>2. at' \in 1 .. n /\ pc' \in {"top", "poll", "flush", "write", "error"} /\ batch' \in Seq(E)
    <3>1. CASE UNCHANGED <<pc, at, batch>> /\ pc = "write"
      BY <1>1, <3>1
    <3>2. CASE Dag!Onward /\ batch' = << >>
      <4>1. << >> \in Seq(E)
        OBVIOUS
      <4> QED BY <1>2, <3>2, <4>1
    <3>3. CASE pc' = "error" /\ UNCHANGED <<at, batch>>
      BY <1>1, <3>3
    <3> QED BY <1>1, <1>8, <3>1, <3>2, <3>3 DEF Dag!Write, Dag!Fail
  <2>3. written' \in [1 .. m -> Seq(E)]
    <3>1. PICK base \in Seq(E), d \in 0 .. m : Together(m, base, d)'
      BY AlikeStep DEF Alike
    <3>2. PICK q : q = Dag!Processed(batch)'
      OBVIOUS
    <3>3. q \in Seq(E)
      <4>1. PICK b : b = batch'
        OBVIOUS
      <4>2. Dag!Processed(b) \in Seq(E)
        BY <2>2, <4>1, ProcessedIs
      <4>3. Dag!Processed(b) = q
        BY <3>2, <4>1 DEF Dag!Processed
      <4> QED BY <4>2, <4>3
    <3>4. \A k \in 1 .. m : written'[k] = IF k <= d THEN base \o q ELSE base
      BY <3>1, <3>2 DEF Together
    <3>5. \A k \in 1 .. m : written'[k] \in Seq(E)
      <4>1. PICK z : z = base \o q
        OBVIOUS
      <4>2. z \in Seq(E)
        BY <3>3, <4>1
      <4> QED BY <3>4, <4>1, <4>2
    <3>6. DOMAIN written' = 1 .. m /\ written' = [k \in DOMAIN written' |-> written'[k]]
      <4>1. UNCHANGED written \/ \E k, x : written' = [written EXCEPT ![k] = x]
        BY <1>8 DEF Dag!Write
      <4> QED BY <1>1, <4>1
    <3> QED BY <3>5, <3>6
  <2> QED BY <1>1, <2>1, <2>2, <2>3 DEF FanShape
<1>9. CASE Dag!Flush
  BY <1>1, <1>9 DEF Dag!Flush, Dag!Fail, FanShape
<1>10. CASE Dag!Shutdown
  BY <1>1, <1>10 DEF Dag!Shutdown, FanShape
<1> QED BY <1>3, <1>4, <1>5, <1>6, <1>7, <1>8, <1>9, <1>10 DEF Dag!Next, Dag!Step

\* The invariant is kept.
LEMMA FanStep ==
  ASSUME NEW n, NEW m, NEW E, Fanned(n, m, E), FanInv(n, m, E), [Dag!Next]_(Dag!vars)
  PROVE  FanInv(n, m, E)'
<1>1. CASE Dag!Next
  BY <1>1, ShapeStep, TurnStep, AlikeStep DEF FanInv
<1>2. CASE UNCHANGED Dag!vars
  <2>1. UNCHANGED <<input, pc, at, pos, exhausted, anyActive, batch, shares, written, shutdown>>
    BY <1>2 DEF Dag!vars
  <2>2. Dag!Processed(batch)' = Dag!Processed(batch)
    BY <2>1 DEF Dag!Processed
  <2>3. FanShape(n, m, E)' /\ InTurn(n)'
    BY <2>1 DEF FanInv, FanShape, InTurn, Turns, Upto
  <2>4. Alike(m, E)'
    BY <2>1, <2>2 DEF FanInv, Alike, Together, Shared
  <2> QED BY <2>3, <2>4 DEF FanInv
<1> QED BY <1>1, <1>2

\* A sequence is a prefix of itself and of what extends it.
LEMMA PrefixIs ==
  ASSUME NEW E, NEW s \in Seq(E), NEW q \in Seq(E)
  PROVE  /\ Dag!IsPrefix(s, s) /\ Dag!IsPrefix(s, s \o q) /\ s \o q \in Seq(E)
         /\ Len(s \o q) = Len(s) + Len(q) /\ Len(s) \in Nat /\ Len(q) \in Nat
<1>1. /\ s \o q \in Seq(E) /\ Len(s \o q) = Len(s) + Len(q) /\ Len(s) \in Nat /\ Len(q) \in Nat
      /\ \A i \in 1 .. Len(s) : (s \o q)[i] = s[i]
  OBVIOUS
<1>2. SubSeq(s \o q, 1, Len(s)) = SubSeq(s, 1, Len(s))
  BY <1>1
<1> QED BY <1>1, <1>2 DEF Dag!IsPrefix

LEMMA FanTogether ==
  ASSUME NEW n, NEW m, NEW E, Fanned(n, m, E), FanInv(n, m, E)
  PROVE  Dag!RoundRobin /\ Dag!SinksTogether
<1>1. n \in Nat \ {0} /\ m \in Nat \ {0} /\ Sources = 1 .. n /\ Sinks = 1 .. m /\ batch \in Seq(E)
  BY DEF Fanned, FanInv, FanShape
<1>2. PICK r \in Nat, c \in 0 .. n : \A s \in (1 .. n) \ exhausted : pos[s] = IF s <= c THEN r + 1 ELSE r
  BY DEF FanInv, InTurn, Turns
<1>3. Dag!RoundRobin
  BY <1>1, <1>2 DEF Dag!RoundRobin
<1>4. PICK q : q = Dag!Processed(batch)
  OBVIOUS
<1>5. PICK base \in Seq(E), d \in 0 .. m : \A k \in 1 .. m : written[k] = IF k <= d THEN base \o q ELSE base
  BY <1>4 DEF FanInv, Alike, Together
<1>6. q \in Seq(E) /\ Len(q) = Len(batch) /\ Len(batch) \in Nat
  BY <1>1, <1>4, ProcessedIs
<1>7. PICK z : z = base \o q
  OBVIOUS
<1>8. /\ z \in Seq(E) /\ Len(z) = Len(base) + Len(q) /\ Len(base) \in Nat /\ Len(z) \in Nat
      /\ Dag!IsPrefix(base, base) /\ Dag!IsPrefix(base, z) /\ Dag!IsPrefix(z, z)
  BY <1>6, <1>7, PrefixIs
<1>9. ASSUME NEW j \in 1 .. m, NEW k \in 1 .. m, j < k
      PROVE  Dag!IsPrefix(written[k], written[j]) /\ Len(written[j]) - Len(written[k]) <= Len(batch)
  <2>1. CASE k <= d
    <3>1. written[k] = z /\ written[j] = z
      <4>1. j <= d
        BY <1>1, <1>9, <2>1
      <4> QED BY <1>5, <1>7, <2>1, <4>1
    <3> QED BY <1>6, <1>8, <3>1
  <2>2. CASE ~(k <= d) /\ j <= d
    <3>1. written[k] = base /\ written[j] = z
      BY <1>5, <1>7, <2>2
    <3> QED BY <1>6, <1>8, <3>1
  <2>3. CASE ~(k <= d) /\ ~(j <= d)
    <3>1. written[k] = base /\ written[j] = base
      BY <1>5, <2>3
    <3> QED BY <1>6, <1>8, <3>1
  <2> QED BY <2>1, <2>2, <2>3
<1>10. Dag!SinksTogether
  BY <1>1, <1>9 DEF Dag!SinksTogether
<1> QED BY <1>3, <1>10

\* For any number of sources and sinks, any batches, errors of sources,
\* processor and sinks, and a stop at any moment, run_fan_in_fan_out (and
\* run_fan_in and run_fan_out, which are it with one sink or one source) keeps
\* the sources in turn and the sinks apart by no more than the batch in hand.
THEOREM FansKeepTogether ==
  ASSUME NEW n, NEW m, NEW E, Fanned(n, m, E)
  PROVE  Dag!Spec => [](Dag!RoundRobin /\ Dag!SinksTogether)
<1>1. Dag!Init => FanInv(n, m, E)
  BY FanInit
<1>2. FanInv(n, m, E) /\ [Dag!Next]_(Dag!vars) => FanInv(n, m, E)'
  BY FanStep
<1>3. FanInv(n, m, E) => Dag!RoundRobin /\ Dag!SinksTogether
  BY FanTogether
<1> QED BY <1>1, <1>2, <1>3, PTL DEF Dag!Spec

-----------------------------------------------------------------------------
(* What a run that nobody stopped has read.                                *)

LEMMA DrainedStep ==
  ASSUME NEW n, NEW m, NEW E, Fanned(n, m, E), Steady(n), FanInv(n, m, E), Drained(n),
         [Dag!Next]_(Dag!vars)
  PROVE  Drained(n)'
<1>1. /\ n \in Nat \ {0} /\ at \in 1 .. n /\ at \in Nat /\ pos \in [1 .. n -> Nat] /\ exhausted \subseteq 1 .. n
      /\ Shape = "fan" /\ input \in [1 .. n -> Seq(Seq(E))] /\ shutdown \in BOOLEAN /\ anyActive \in BOOLEAN
  <2>1. n \in Nat \ {0} /\ Shape = "fan"
    BY DEF Fanned
  <2> QED BY <2>1 DEF FanInv, FanShape
<1>2. /\ input \in Inputs
      /\ \A s \in 1 .. n : pos[s] <= Len(input[s])
      /\ \A s \in exhausted : pos[s] = Len(input[s])
      /\ pc = "poll" /\ ~anyActive => \A s \in 1 .. n : s < at => s \in exhausted
      /\ pc \in {"process", "write"} => anyActive
      /\ pc \in {"flush", "ok"} /\ ~shutdown => exhausted = 1 .. n
  BY DEF Drained
<1>o. /\ \A s \in 1 .. n : Len(input[s]) \in Nat /\ pos[s] \in Nat
      /\ Dag!Offered = << >> => pos[at] = Len(input[at])
      /\ Dag!Offered # << >> => pos[at] < Len(input[at])
  <2>1. \A s \in 1 .. n : Len(input[s]) \in Nat /\ pos[s] \in Nat
    BY <1>1
  <2>2. ASSUME pos[at] < Len(input[at]) PROVE Dag!Offered # << >>
    <3>1. pos[at] + 1 \in 1 .. Len(input[at])
      BY <1>1, <2>1, <2>2
    <3>2. input[at] \in Seq(Seq(E))
      BY <1>1
    <3>3. pos[at] + 1 \in DOMAIN input[at]
      BY <3>1, <3>2
    <3> QED BY <1>1, <1>2, <2>2, <3>3 DEF Dag!Offered, Steady
  <2>3. ~(pos[at] < Len(input[at])) => pos[at] = Len(input[at]) /\ Dag!Offered = << >>
    BY <1>1, <1>2, <2>1 DEF Dag!Offered
  <2> QED BY <2>1, <2>2, <2>3
\* The round goes on from a source that is exhausted or gave a batch.
<1>3. ASSUME Dag!Onward, UNCHANGED <<input, anyActive, shutdown>>,
             \A s \in 1 .. n : pos'[s] <= Len(input[s]), \A s \in exhausted' : pos'[s] = Len(input[s]),
             exhausted' \subseteq 1 .. n,
             ~anyActive => \A s \in 1 .. n : s <= at => s \in exhausted'
      PROVE  Drained(n)'
  <2>1. CASE at = n /\ at' = at /\ pc' = IF anyActive THEN "top" ELSE "flush"
    <3>1. ~anyActive => exhausted' = 1 .. n
      <4>1. \A s \in 1 .. n : s <= at
        BY <1>1, <2>1
      <4> QED BY <1>3, <4>1
    <3> QED BY <1>2, <1>3, <2>1, <3>1 DEF Drained
  <2>2. CASE at # n /\ at' = at + 1 /\ pc' = "poll"
    <3>1. ~anyActive' => \A s \in 1 .. n : s < at' => s \in exhausted'
      BY <1>1, <1>3, <2>2
    <3> QED BY <1>2, <1>3, <2>2, <3>1 DEF Drained
  <2> QED BY <1>3, <2>1, <2>2, OnwardIs
<1>4. CASE Dag!Top
  <2>1. /\ UNCHANGED <<input, pos, exhausted, shutdown>> /\ pc = "top" /\ at' = 1
        /\ pc' = IF shutdown THEN "flush" ELSE "poll"
    BY <1>4 DEF Dag!Top
  <2>2. \A s \in 1 .. n : ~(s < at')
    BY <1>1, <2>1
  <2> QED BY <1>2, <2>1, <2>2 DEF Drained
<1>5. CASE Dag!Pass
  <2>1. /\ UNCHANGED <<input, pos, exhausted, anyActive, shutdown>> /\ pc = "poll" /\ at \in exhausted
        /\ Dag!Onward
    BY <1>5 DEF Dag!Pass
  <2>2. ~anyActive => \A s \in 1 .. n : s <= at => s \in exhausted
    BY <1>1, <1>2, <2>1
  <2> QED BY <1>1, <1>2, <1>3, <2>1, <2>2
<1>6. CASE Dag!Empty
  <2>1. /\ UNCHANGED <<input, anyActive, shutdown>> /\ pc = "poll" /\ exhausted' = exhausted \cup {at}
        /\ Dag!Onward /\ Dag!Offered = << >>
        /\ pos' = [pos EXCEPT ![at] = IF @ < Len(input[at]) THEN @ + 1 ELSE @]
    BY <1>1, <1>6 DEF Dag!Empty
  <2>2. pos[at] = Len(input[at]) /\ Len(input[at]) \in Nat
    BY <1>1, <1>o, <2>1
  <2>3. \A s \in 1 .. n : pos'[s] = pos[s]
    BY <1>1, <2>1, <2>2
  <2>4. ~anyActive => \A s \in 1 .. n : s <= at => s \in exhausted'
    BY <1>1, <1>2, <2>1
  <2>5. exhausted' \subseteq 1 .. n /\ \A s \in exhausted' : pos'[s] = Len(input[s])
    BY <1>1, <1>2, <2>1, <2>2, <2>3
  <2> QED BY <1>2, <1>3, <2>1, <2>3, <2>4, <2>5
<1>7. CASE Dag!Poll
  <2>1. UNCHANGED <<input, at, exhausted, shutdown>> /\ at \notin exhausted
    BY <1>7 DEF Dag!Poll
  <2>2. CASE /\ Dag!Offered # << >> /\ pos' = [pos EXCEPT ![at] = @ + 1] /\ anyActive' = TRUE
             /\ pc' = "process"
    <3>1. \A s \in 1 .. n : pos'[s] = IF s = at THEN pos[at] + 1 ELSE pos[s]
      BY <1>1, <2>2
    <3>2. pos[at] < Len(input[at]) /\ pos[at] \in Nat /\ Len(input[at]) \in Nat
      BY <1>1, <1>o, <2>2
    <3>3. pos[at] + 1 <= Len(input[at])
      BY <3>2
    <3>4. \A s \in 1 .. n : pos'[s] <= Len(input[s])
      BY <1>2, <3>1, <3>3
    <3>5. \A s \in exhausted : pos'[s] = Len(input[s])
      BY <1>1, <1>2, <2>1, <3>1
    <3> QED BY <1>2, <2>1, <2>2, <3>4, <3>5 DEF Drained
  <2>3. CASE pc' = "error" /\ UNCHANGED <<pos, anyActive>>
    BY <1>2, <2>1, <2>3 DEF Drained
  <2> QED BY <1>7, <2>2, <2>3 DEF Dag!Poll, Dag!Fail
<1>8. CASE Dag!Process
  BY <1>2, <1>8 DEF Dag!Process, Dag!Fail, Drained
<1>9. CASE Dag!Write
  <2>1. UNCHANGED <<input, pos, exhausted, anyActive, shutdown>> /\ pc = "write"
    BY <1>9 DEF Dag!Write
  <2>2. CASE Dag!Onward
    BY <1>1, <1>2, <1>3, <2>1, <2>2
  <2>3. CASE UNCHANGED pc \/ pc' = "error"
    BY <1>2, <2>1, <2>3 DEF Drained
  <2> QED BY <1>1, <1>9, <2>2, <2>3 DEF Dag!Write, Dag!Fail
<1>10. CASE Dag!Flush
  BY <1>2, <1>10 DEF Dag!Flush, Dag!Fail, Drained
<1>11. CASE Dag!Shutdown
  BY <1>2, <1>11 DEF Dag!Shutdown, Drained
<1>12. CASE UNCHANGED Dag!vars
  BY <1>2, <1>12 DEF Dag!vars, Drained
<1> QED BY <1>4, <1>5, <1>6, <1>7, <1>8, <1>9, <1>10, <1>11, <1>12 DEF Dag!Next, Dag!Step

\* Where a source's empty batch is its end, a run that nobody stopped and
\* that ends well has read every source to the end.
THEOREM FansReadToEnd ==
  ASSUME NEW n, NEW m, NEW E, Fanned(n, m, E), Steady(n)
  PROVE  Dag!Spec => []Dag!ReadToEnd
<1>1. Dag!Init => FanInv(n, m, E) /\ Drained(n)
  <2> SUFFICES ASSUME Dag!Init PROVE FanInv(n, m, E) /\ Drained(n)
    OBVIOUS
  <2>1. /\ input \in Inputs /\ input \in [1 .. n -> Seq(Seq(E))] /\ pc = "top" /\ exhausted = {}
        /\ pos = [s \in 1 .. n |-> 0]
    BY DEF Dag!Init, Fanned
  <2>2. \A s \in 1 .. n : pos[s] <= Len(input[s])
    <3> SUFFICES ASSUME NEW s \in 1 .. n PROVE pos[s] <= Len(input[s])
      OBVIOUS
    <3>1. input[s] \in Seq(Seq(E)) /\ pos[s] = 0
      BY <2>1
    <3> QED BY <3>1
  <2> QED BY <2>1, <2>2, FanInit DEF Drained
<1>2. FanInv(n, m, E) /\ Drained(n) /\ [Dag!Next]_(Dag!vars) => FanInv(n, m, E)' /\ Drained(n)'
  BY FanStep, DrainedStep
<1>3. FanInv(n, m, E) /\ Drained(n) => Dag!ReadToEnd
  <2> SUFFICES ASSUME FanInv(n, m, E), Drained(n), pc = "ok", ~shutdown, NEW s \in Sources
               PROVE  pos[s] = Len(input[s])
    BY DEF Dag!ReadToEnd
  <2> QED BY DEF Drained, Fanned
<1> QED BY <1>1, <1>2, <1>3, PTL DEF Dag!Spec
=============================================================================
