-------------------------- MODULE DeliveryPipeline --------------------------
(***************************************************************************)
(* One pipeline from its source to its sink: the source and processor      *)
(* tasks, the sink task with its delivery ledger, batch failure policies,  *)
(* flushes and checkpoints, the L2 body store with its ack tracker,        *)
(* garbage collection and capacity gate, and recovery from the last        *)
(* durable checkpoint.                                                     *)
(*                                                                         *)
(* Source:  crates/aeon-engine/src/pipeline.rs (run_buffered,              *)
(*          run_sink_task, handle_batch_failures, write_checkpoint,        *)
(*          eo2_gc_sweep, recovery), delivery_ledger.rs, eo2.rs,           *)
(*          l2_body.rs, eo2_backpressure.rs, eo2_recovery.rs.              *)
(*                                                                         *)
(* An event is its partition and its number there, which is its offset at  *)
(* a pull source and its L2 sequence number at a push source.  The rings   *)
(* between the tasks hold the events from one position to the next, in     *)
(* order; a batch is any piece of them.  A task's step ends where it       *)
(* awaits: at the sink's answer to write_batch or flush.                   *)
(***************************************************************************)
EXTENDS Integers, FiniteSets, Functions

CONSTANTS
  Parts,          \* partitions of the source
  MaxSeq,         \* bound: events of a partition
  Outs,           \* the outputs the processor makes of one event
  Push,           \* a push source with an L2 store, or a pull source
  Configs,        \* the delivery settings a start of the pipeline may have
  MaxRetries,     \* max_retries of RetryFailed
  FlushConfirms,  \* flush() fails when an enqueued output was not delivered
  Cap,            \* pipeline capacity in events (95% mark), 0 for none
  SegSize,        \* events of an L2 segment
  MaxFaults       \* bound: failed writes and flushes, crashes and stops

\* BatchFailurePolicy.
Policies == {"RetryFailed", "FailBatch", "SkipToDlq"}

ASSUME PipelineAssumption ==
  /\ IsFiniteSet(Parts) /\ MaxSeq \in Nat
  /\ Outs # {}
  /\ Push \in BOOLEAN /\ FlushConfirms \in BOOLEAN
  /\ Configs \subseteq [blocking : BOOLEAN, policy : Policies]
  /\ MaxRetries \in Nat /\ Cap \in Nat /\ MaxFaults \in Nat
  /\ SegSize \in Nat \ {0}

Events  == Parts \X (0 .. MaxSeq - 1)
Outputs == Events \X Outs

NoOffset == -1    \* a partition the checkpoint record does not mention

VARIABLES
  conf,       \* the delivery settings: is_blocking of the strategy, the policy
  start,      \* where this incarnation of the source began, per partition
  fetched,    \* the source's position: the ring before the processor ends here
  ready,      \* the processor's position: the ring before the sink ends here
  taken,      \* the sink task's position
  src,        \* "open", "ended" (a pull source's empty batch) or "stopped"
  ledger,     \* events with an entry in the delivery ledger
  failed,     \* those whose entry is in state Failed
  pc,         \* control state of the sink task
  batch,      \* the outputs of the write the sink task awaits
  attempt,    \* the retry attempt of handle_batch_failures
  pendingIds, \* ids write_batch returned as pending, not yet flushed
  unflushed,  \* pending_count > 0
  dsc,        \* delivered_since_checkpoint > 0
  fsc,        \* failed_since_checkpoint > 0
  sinkBuf,    \* outputs the sink has enqueued and not settled
  delivered,  \* outputs the downstream has received
  ack,        \* the sink's entry of the AckSeqTracker
  l2,         \* events in the L2 body store
  used,       \* bytes (events) the capacity accountant counts, per partition
  ckpt,       \* the last durable checkpoint record
  faults      \* faults so far

sourceVars == <<start, fetched, ready, src>>
ledgerVars == <<ledger, failed>>
l2Vars     == <<l2, used>>
vars == <<conf, start, fetched, ready, taken, src, ledger, failed, pc, batch,
          attempt, pendingIds, unflushed, dsc, fsc, sinkBuf, delivered, ack,
          l2, used, ckpt, faults>>

PcState == {"idle", "write", "retry", "tail", "flush", "final", "failed",
            "done", "down"}

Blocking == conf.blocking
Policy   == conf.policy

Ids(outs) == {o[1] : o \in outs}

Zero == [p \in Parts |-> 0]

Init ==
  /\ conf \in Configs
  /\ start = Zero /\ fetched = Zero /\ ready = Zero /\ taken = Zero
  /\ src = "open"
  /\ ledger = {} /\ failed = {}
  /\ pc = "idle" /\ batch = {} /\ attempt = 0
  /\ pendingIds = {} /\ unflushed = FALSE /\ dsc = FALSE /\ fsc = FALSE
  /\ sinkBuf = {} /\ delivered = {}
  /\ ack = 0 /\ l2 = {} /\ used = Zero
  /\ ckpt = [off |-> [p \in Parts |-> NoOffset], ack |-> 0]
  /\ faults = 0

\* A fault uses up one of the faults the model allows.
Fault == faults < MaxFaults /\ faults' = faults + 1

-----------------------------------------------------------------------------
(* The source and processor tasks.                                         *)

\* PipelineCapacity::decide, at its pipeline level.
Pressured == Cap > 0 /\ SumFunction(used) >= Cap

\* L2WritingSource: a push source's event is appended to L2 and counted.
AppendL2(p) ==
  /\ l2' = IF Push THEN l2 \cup {<<p, fetched[p]>>} ELSE l2
  /\ used' = IF Push THEN [used EXCEPT ![p] = @ + 1] ELSE used

\* The source task polls: the capacity gate, next_batch through the L2
\* wrapper, the push into the ring.
Fetch(p) ==
  /\ pc # "down" /\ src = "open"
  /\ ~Pressured
  /\ fetched[p] < MaxSeq
  /\ fetched' = [fetched EXCEPT ![p] = @ + 1]
  /\ AppendL2(p)
  /\ UNCHANGED <<conf, start, ready, taken, src, ledgerVars, pc, batch, attempt,
                 pendingIds, unflushed, dsc, fsc, sinkBuf, delivered, ack,
                 ckpt, faults>>

\* The processor task pops a batch and pushes its outputs.
Process(p) ==
  /\ pc # "down" /\ src # "stopped"
  /\ ready[p] < fetched[p]
  /\ ready' = [ready EXCEPT ![p] = @ + 1]
  /\ UNCHANGED <<conf, start, fetched, taken, src, ledgerVars, pc, batch, attempt,
                 pendingIds, unflushed, dsc, fsc, sinkBuf, delivered, ack,
                 l2Vars, ckpt, faults>>

\* A pull source returns an empty batch, or the shutdown flag ends the
\* source and the processor loops, which abandon what is in their ring.
EndSource ==
  /\ pc # "down" /\ src = "open"
  /\ Fault
  /\ src' \in {"stopped"} \cup (IF Push THEN {} ELSE {"ended"})
  /\ UNCHANGED <<conf, start, fetched, ready, taken, ledgerVars, pc, batch, attempt,
                 pendingIds, unflushed, dsc, fsc, sinkBuf, delivered, ack,
                 l2Vars, ckpt>>

\* sink_cons.is_abandoned(): the processor task has dropped its end.
Abandoned == src = "stopped" \/ (src = "ended" /\ ready = fetched)

-----------------------------------------------------------------------------
(* Checkpoints and garbage collection.                                     *)

\* off maps every partition to its lowest offset among these entries.
IsLedgerMin(off, entries) ==
  \A p \in Parts :
    IF off[p] = NoOffset
      THEN \A e \in entries : e[1] # p
      ELSE /\ <<p, off[p]>> \in entries
           /\ \A e \in entries : e[1] = p => off[p] <= e[2]

\* Mutant of CheckpointOffsets: the offset after the lowest entry, the way a
\* consumer group commits.
NextOffsets(off, entries) ==
  \E low \in [Parts -> NoOffset .. MaxSeq - 1] :
    /\ IsLedgerMin(low, entries)
    /\ \A p \in Parts : off[p] = IF low[p] = NoOffset THEN NoOffset ELSE low[p] + 1

\* DeliveryLedger::checkpoint_offsets: over all entries, Pending or Failed.
CheckpointOffsets(off, entries) == IsLedgerMin(off, entries)

\* write_checkpoint for a ledger with these entries: the append may fail,
\* which is logged; the counters are reset either way.
WriteCheckpoint(entries) ==
  /\ \/ \E off \in [Parts -> NoOffset .. MaxSeq - 1] :
          /\ CheckpointOffsets(off, entries)
          /\ ckpt' = [off |-> off, ack |-> ack]
     \/ UNCHANGED ckpt
  /\ dsc' = FALSE /\ fsc' = FALSE

\* Mutant of SegmentMax: the segment is judged by its first number.
SegmentStart(k) == (k \div SegSize) * SegSize

\* The highest sequence number of a full segment.
SegmentMax(k) == (k \div SegSize + 1) * SegSize - 1

\* gc_up_to: the segments before the last one whose highest sequence number
\* is below the ack watermark are removed.
Reclaimed == {e \in l2 : /\ SegmentMax(e[2]) < ack
                         /\ SegmentMax(e[2]) + 1 < fetched[e[1]]}

\* eo2_gc_sweep: a watermark of 0 sweeps nothing; the accountant is told
\* what was reclaimed and saturates at 0.
GcSweep ==
  /\ l2' = IF ack = 0 THEN l2 ELSE l2 \ Reclaimed
  /\ used' = [p \in Parts |->
                LET gone == Cardinality({e \in l2 \ l2' : e[1] = p})
                IN  IF used[p] > gone THEN used[p] - gone ELSE 0]

-----------------------------------------------------------------------------
(* The sink task.                                                          *)

\* A batch is popped and its events tracked in the ledger before the write.
Pop ==
  /\ pc = "idle"
  /\ \E cut \in [Parts -> 0 .. MaxSeq] :
       /\ cut # taken
       /\ \A p \in Parts : taken[p] <= cut[p] /\ cut[p] <= ready[p]
       /\ LET new == {e \in Events : taken[e[1]] <= e[2] /\ e[2] < cut[e[1]]}
          IN  /\ batch' = new \X Outs
              /\ ledger' = ledger \cup new
              /\ failed' = failed \ new
       /\ taken' = cut
  /\ pc' = "write"
  /\ UNCHANGED <<conf, sourceVars, attempt, pendingIds, unflushed, dsc, fsc, sinkBuf,
                 delivered, ack, l2Vars, ckpt, faults>>

\* What the sink does with the outputs it accepts: a blocking one returns
\* once they are delivered, the other one enqueues them.
Accept(outs) ==
  /\ delivered' = IF Blocking THEN delivered \cup outs ELSE delivered
  /\ sinkBuf' = IF Blocking THEN sinkBuf ELSE sinkBuf \cup outs

\* The ids of BatchResult.delivered.
AckedIds(outs) == IF Blocking THEN Ids(outs) ELSE {}

\* mark_batch_acked removes entries; mark_failed only finds those left.
MarkBatch(acked, bad) ==
  /\ ledger' = ledger \ acked
  /\ failed' = (failed \ acked) \cup (bad \cap (ledger \ acked))

\* record_ack with the highest l2_seq among the delivered ids.
RecordAck(acked) ==
  IF Push
    THEN /\ ack' \in {ack} \cup {e[2] : e \in acked}
         /\ \A e \in acked : e[2] <= ack'
         /\ ack <= ack'
    ELSE UNCHANGED ack

\* handle_batch_failures after a write of which the outputs in lost failed.
ApplyPolicy(lost) ==
  LET retries == Policy = "RetryFailed" /\ MaxRetries > 0
      again   == {o \in batch : o[1] \in Ids(lost)}
  IN  /\ pc' = IF lost = {} THEN "tail"
               ELSE IF Policy = "FailBatch" THEN "failed"
               ELSE IF retries THEN "retry" ELSE "tail"
      /\ batch' = IF lost # {} /\ retries THEN again ELSE {}
      /\ attempt' = IF lost # {} /\ retries THEN 1 ELSE 0
      /\ fsc' = (fsc \/ (lost # {} /\ Policy # "FailBatch"))

\* write_batch returns Ok, with or without failed outputs.
WriteDone ==
  /\ pc = "write"
  /\ \E lost \in SUBSET batch :
       LET acked == AckedIds(batch \ lost)
       IN  /\ IF lost = {} THEN UNCHANGED faults ELSE Fault
           /\ Accept(batch \ lost)
           /\ MarkBatch(acked, Ids(lost))
           /\ RecordAck(acked)
           /\ dsc' = (dsc \/ acked # {})
           /\ pendingIds' = IF Blocking THEN pendingIds
                            ELSE pendingIds \cup Ids(batch \ lost)
           /\ ApplyPolicy(lost)
  /\ UNCHANGED <<conf, sourceVars, taken, unflushed, l2Vars, ckpt>>

\* A retry's write_batch returns Ok.  Its delivered ids leave the ledger,
\* but neither the ack watermark nor the checkpoint counters see them, and
\* its pending ids are dropped.
RetryDone ==
  /\ pc = "retry"
  /\ \E lost \in SUBSET batch :
       LET last == attempt = MaxRetries
           over == lost = {} \/ last
       IN  /\ IF lost = {} THEN UNCHANGED faults ELSE Fault
           /\ Accept(batch \ lost)
           /\ MarkBatch(AckedIds(batch \ lost),
                        IF last THEN Ids(lost) ELSE {})
           /\ pc' = IF over THEN "tail" ELSE "retry"
           /\ batch' = IF over THEN {}
                       ELSE {o \in batch : o[1] \in Ids(lost)}
           /\ attempt' = IF over THEN 0 ELSE attempt + 1
  /\ UNCHANGED <<conf, sourceVars, taken, pendingIds, unflushed, dsc, fsc, ack,
                 l2Vars, ckpt>>

\* write_batch returns Err, some outputs delivered or enqueued nevertheless:
\* the sink task returns the error.  Only the first write marks the ledger.
WriteError ==
  /\ pc \in {"write", "retry"}
  /\ Fault
  /\ \E outs \in SUBSET batch : Accept(outs)
  /\ failed' = IF pc = "write" THEN failed \cup (Ids(batch) \cap ledger)
               ELSE failed
  /\ pc' = "failed" /\ batch' = {} /\ attempt' = 0
  /\ UNCHANGED <<conf, sourceVars, taken, ledger, pendingIds, unflushed, dsc, fsc,
                 ack, l2Vars, ckpt>>

\* Mutant of TailBlocking: garbage collection is left to the end of the task.
TailWithoutGc ==
  /\ pc = "tail" /\ Blocking
  /\ \/ UNCHANGED <<ckpt, dsc, fsc>>
     \/ dsc /\ WriteCheckpoint(ledger)
  /\ pc' = "idle"
  /\ UNCHANGED <<conf, sourceVars, taken, ledgerVars, batch, attempt, pendingIds,
                 unflushed, sinkBuf, delivered, ack, l2Vars, faults>>

\* After a batch, blocking strategies: garbage collection if capacity is
\* tracked, and a checkpoint if something was delivered and it is time.
TailBlocking ==
  /\ pc = "tail" /\ Blocking
  /\ IF Cap > 0 THEN GcSweep ELSE UNCHANGED l2Vars
  /\ \/ UNCHANGED <<ckpt, dsc, fsc>>
     \/ dsc /\ WriteCheckpoint(ledger)
  /\ pc' = "idle"
  /\ UNCHANGED <<conf, sourceVars, taken, ledgerVars, batch, attempt, pendingIds,
                 unflushed, sinkBuf, delivered, ack, faults>>

\* After a batch, UnorderedBatch: flush now if it is time or max_pending is
\* reached, otherwise go on.
TailBatched ==
  /\ pc = "tail" /\ ~Blocking
  /\ unflushed' = TRUE
  /\ pc' \in {"idle", "flush"}
  /\ UNCHANGED <<conf, sourceVars, taken, ledgerVars, batch, attempt, pendingIds,
                 dsc, fsc, sinkBuf, delivered, ack, l2Vars, ckpt, faults>>

\* The ring before the sink is empty and the processor still there.
Idle == pc = "idle" /\ taken = ready /\ ~Abandoned

IdleCheckpoint ==
  /\ Idle /\ Blocking /\ dsc
  /\ WriteCheckpoint(ledger)
  /\ UNCHANGED <<conf, sourceVars, taken, ledgerVars, pc, batch, attempt, pendingIds,
                 unflushed, sinkBuf, delivered, ack, l2Vars, faults>>

IdleFlush ==
  /\ Idle /\ ~Blocking /\ unflushed
  /\ pc' = "flush"
  /\ UNCHANGED <<conf, sourceVars, taken, ledgerVars, batch, attempt, pendingIds,
                 unflushed, dsc, fsc, sinkBuf, delivered, ack, l2Vars, ckpt,
                 faults>>

\* The loop ends when the ring is empty and abandoned: the final flush.
FinalFlush ==
  /\ pc = "idle" /\ taken = ready /\ Abandoned
  /\ pc' = "final"
  /\ UNCHANGED <<conf, sourceVars, taken, ledgerVars, batch, attempt, pendingIds,
                 unflushed, dsc, fsc, sinkBuf, delivered, ack, l2Vars, ckpt,
                 faults>>

\* The sink's flush(): it returns once nothing is enqueued, which is not
\* the same as delivered if the sink does not look at the outcomes.
SinkFlush ==
  /\ \E outs \in SUBSET sinkBuf :
       /\ FlushConfirms => outs = sinkBuf
       /\ delivered' = delivered \cup outs
  /\ sinkBuf' = {}

\* credit_pending_on_flush: the ledger and the counters, not the ack tracker.
CreditPending ==
  /\ MarkBatch(pendingIds, {})
  /\ pendingIds' = {}

\* flush() returns Ok: credit_pending_on_flush, the checkpoint (at the end
\* of the task only if a counter says so) and the garbage collection.
FlushDone ==
  /\ pc \in {"flush", "final"}
  /\ SinkFlush /\ CreditPending
  /\ unflushed' = IF pc = "flush" THEN FALSE ELSE unflushed
  /\ IF pc = "flush" \/ dsc \/ fsc \/ pendingIds # {}
       THEN /\ WriteCheckpoint(ledger \ pendingIds)
            /\ GcSweep
       ELSE UNCHANGED <<ckpt, dsc, fsc, l2Vars>>
  /\ pc' = IF pc = "flush" THEN "idle" ELSE "done"
  /\ UNCHANGED <<conf, sourceVars, taken, batch, attempt, ack, faults>>

\* flush() returns Err and the sink task with it.
FlushError ==
  /\ pc \in {"flush", "final"}
  /\ Fault
  /\ pc' = "failed"
  /\ UNCHANGED <<conf, sourceVars, taken, ledgerVars, batch, attempt, pendingIds,
                 unflushed, dsc, fsc, sinkBuf, delivered, ack, l2Vars, ckpt>>

-----------------------------------------------------------------------------
(* Crash and recovery.                                                     *)

\* The process dies.
Crash ==
  /\ pc # "down"
  /\ Fault
  /\ pc' = "down"
  /\ UNCHANGED <<conf, sourceVars, taken, ledgerVars, batch, attempt, pendingIds,
                 unflushed, dsc, fsc, sinkBuf, delivered, ack, l2Vars, ckpt>>

\* RecoveryPlan::from_last: where a pull source that follows the plan seeks.
PlanOffset(p) == IF ckpt.off[p] = NoOffset THEN 0 ELSE ckpt.off[p]

\* Mutant of RestartPoints: the source resumes where it had got to.
ResumeAtTail == {fetched}

\* Where the source of a restarted pipeline begins: a pull source seeks to
\* the plan, or reads from the beginning if it does not override
\* on_recovery_plan or fails in it (the error is logged); a push source gets
\* what arrives from now on, and nothing reads the L2 store.
RestartPoints ==
  IF Push THEN {fetched} ELSE {Zero, [p \in Parts |-> PlanOffset(p)]}

\* The pipeline is started again with what is durable, perhaps from a
\* manifest with other delivery settings.
Restart ==
  /\ pc \in {"down", "failed", "done"}
  /\ conf' \in Configs
  /\ start' \in RestartPoints
  /\ fetched' = start' /\ ready' = start' /\ taken' = start'
  /\ src' = "open"
  /\ ledger' = {} /\ failed' = {}
  /\ pc' = "idle" /\ batch' = {} /\ attempt' = 0
  /\ pendingIds' = {} /\ unflushed' = FALSE /\ dsc' = FALSE /\ fsc' = FALSE
  /\ sinkBuf' = {} /\ ack' = 0 /\ used' = Zero
  /\ UNCHANGED <<delivered, l2, ckpt, faults>>

-----------------------------------------------------------------------------
\* The steps of the sink task, faults aside.
SinkStep == Pop \/ WriteDone \/ RetryDone \/ TailBlocking \/ TailBatched
            \/ IdleFlush \/ FinalFlush \/ FlushDone

Next ==
  \/ \E p \in Parts : Fetch(p) \/ Process(p)
  \/ EndSource
  \/ Pop \/ WriteDone \/ RetryDone \/ WriteError
  \/ TailBlocking \/ TailBatched \/ IdleCheckpoint \/ IdleFlush
  \/ FinalFlush \/ FlushDone \/ FlushError
  \/ Crash \/ Restart

Spec == Init /\ [][Next]_vars

\* The runtime polls every task and the sink answers; whoever operates the
\* pipeline starts it again after it ended.
Fairness ==
  /\ \A p \in Parts : WF_vars(Fetch(p)) /\ WF_vars(Process(p))
  /\ WF_vars(SinkStep)
  /\ WF_vars(Restart)

FairSpec == Spec /\ Fairness

-----------------------------------------------------------------------------
(* Properties.                                                             *)

Delivered(e) == \A o \in Outs : <<e, o>> \in delivered

\* Every variable has its type.
TypeOK ==
  /\ conf \in Configs
  /\ start \in [Parts -> 0 .. MaxSeq] /\ fetched \in [Parts -> 0 .. MaxSeq]
  /\ ready \in [Parts -> 0 .. MaxSeq] /\ taken \in [Parts -> 0 .. MaxSeq]
  /\ src \in {"open", "ended", "stopped"}
  /\ ledger \subseteq Events /\ failed \subseteq ledger
  /\ pc \in PcState /\ batch \subseteq Outputs /\ attempt \in 0 .. MaxRetries
  /\ pendingIds \subseteq Events
  /\ unflushed \in BOOLEAN /\ dsc \in BOOLEAN /\ fsc \in BOOLEAN
  /\ sinkBuf \subseteq Outputs /\ delivered \subseteq Outputs
  /\ ack \in 0 .. MaxSeq /\ l2 \subseteq Events /\ used \in [Parts -> Nat]
  /\ ckpt \in [off : [Parts -> NoOffset .. MaxSeq - 1], ack : 0 .. MaxSeq]
  /\ faults \in 0 .. MaxFaults

\* A durable checkpoint (write_checkpoint) never skips an event: whatever
\* the order of fetches, writes, retries, flushes, failures and crashes, a
\* pull source that seeks to the recorded offsets reads every event that is
\* not delivered, those in the rings and those not yet read included.
CheckpointCovers ==
  ~Push => \A e \in Events : Delivered(e) \/ PlanOffset(e[1]) <= e[2]

Anchor == INSTANCE SourceAnchor WITH
            done    <- {e \in Events : Delivered(e)},
            anchor  <- [p \in Parts |-> PlanOffset(p)],
            from    <- start,
            reading <- fetched

\* The pipeline of a pull source implements SourceAnchor: a checkpoint only
\* covers what is delivered, a restart resumes at or before it, and nothing
\* is delivered that was not read.
ImplementsAnchor == Anchor!ASpec

\* Every event the source has read is delivered in the end, across partial
\* failures, errors, crashes, shutdowns and restarts.
AtLeastOnce ==
  \A e \in Events : (e[2] < fetched[e[1]]) ~> Delivered(e)

\* What a push source has read since it was started and the downstream has
\* not received is still in the L2 store (eo2_gc_sweep), at or after the
\* replay cursor of the last checkpoint.
L2Retains ==
  Push => \A e \in Events :
            \/ e[2] < start[e[1]] \/ e[2] >= fetched[e[1]]
            \/ Delivered(e)
            \/ e \in l2 /\ ckpt.ack <= e[2]

\* A source held back by the capacity gate is let go again once the sink
\* has caught up.
CapacityRecovers == Pressured ~> ~Pressured

\* The replay point of a partition never moves backwards.
ReplayPointAdvances == [][\A p \in Parts : PlanOffset(p)' >= PlanOffset(p)]_vars

=============================================================================
