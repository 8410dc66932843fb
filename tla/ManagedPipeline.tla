-------------------------- MODULE ManagedPipeline --------------------------
(***************************************************************************)
(* run_buffered_managed (aeon-engine/src/pipeline.rs): a source task, a    *)
(* processor task and a sink task joined by two bounded SPSC rings, and    *)
(* the calls of PipelineControl that replace the processor, the source or  *)
(* the sink of the running pipeline.                                       *)
(*                                                                         *)
(* A batch is one event.  Events are numbered in the order the source      *)
(* yields them.  A processor instance is named by the call that brought    *)
(* it; its host-side state is the set of events whose effect it holds.     *)
(* Reassignment of partitions (module PartitionHandover) and the ledger    *)
(* and checkpoints of the sink task (module DeliveryPipeline) are left     *)
(* out here.                                                               *)
(***************************************************************************)
EXTENDS Naturals, Sequences, FiniteSets

CONSTANTS
  Calls,      \* calls of PipelineControl that may be made
  Ops,        \* the operations these calls may be
  Serial,     \* TRUE: a call begins when no other is under way
  MaxEvents,  \* how many batches the source has
  SrcCap,     \* source_buffer_capacity
  SinkCap,    \* sink_buffer_capacity
  Batched,    \* TRUE: write_batch only enqueues and flush delivers
  MayStop,    \* TRUE: the supervisor may set the shutdown flag
  MayFail,    \* TRUE: any stage may return an error
  PullSource, \* TRUE: an empty batch ends the source (SourceKind::Pull)
  First       \* the processor the pipeline is started with

SwapOps == {"processor", "source", "sink"}
UpgradeOps == {"blueGreen", "cutover", "canary", "promote", "complete", "rollback"}

None == "none"
Events == 1 .. MaxEvents
Instances == Calls \cup {First}
Pcts == {0, 50, 100}
\* Where an event falls in the canary split: event.id % 100.
Hash(e) == 50 * (e % 2)

VARIABLES
  ctl,     \* PipelineControl: paused, the swap slots, upgrade_action, canary_pct
  notify,  \* its three Notify cells: a stored permit and the calls parked on it
  call,    \* call[c]: the operation of call c and how far it got
  stop,    \* the shutdown flag
  src,     \* source task: at, the batch it holds
  proc,    \* processor task: at, the output it holds, its instances
  snk,     \* sink task: at, the output it holds, what waits for a flush
  ring,    \* the two rings
  fetched, \* how many batches the source has yielded
  effects, \* effects[i]: the events whose effect instance i's state holds
  out      \* delivered to the outside; credited as sent; processed so far

vars == <<ctl, notify, call, stop, src, proc, snk, ring, fetched, effects, out>>

Slots == {"processor", "source", "sink", "upgrade"}
Cells == {"drain", "swap", "upgrade"}

TypeOK ==
  /\ ctl.paused \in BOOLEAN /\ ctl.pct \in Pcts
  /\ ctl.slot \in [Slots -> Calls \cup {None}]
  /\ notify \in [Cells -> [permit : BOOLEAN, queue : Seq(Calls)]]
  /\ call \in [Calls -> [op : Ops \cup {None}, at : {"new", "begun", "drained", "placed",
                         "swapped", "parked", "done"}]]
  /\ stop \in BOOLEAN
  /\ src \in [at : {"top", "fetch", "push", "done", "failed"}, batch : Events \cup {0}]
  /\ proc.at \in {"top", "pop", "idle", "push", "drain", "done", "failed"}
  /\ proc.batch \in Events \cup {0} /\ proc.current \in Instances
  /\ {proc.green, proc.canary} \subseteq Calls \cup {None}
  /\ snk.at \in {"pop", "idle", "write", "done", "failed"} /\ snk.batch \in Events \cup {0}
  /\ snk.pending \subseteq Events /\ snk.buffered \subseteq Events
  /\ ring.src \in Seq(Events) /\ ring.sink \in Seq(Events)
  /\ Len(ring.src) <= SrcCap /\ Len(ring.sink) <= SinkCap
  /\ fetched \in 0 .. MaxEvents
  /\ effects \in [Instances -> SUBSET Events]
  /\ out.delivered \subseteq Events /\ out.credited \subseteq Events /\ out.processed \subseteq Events

Init ==
  /\ ctl = [paused |-> FALSE, slot |-> [s \in Slots |-> None], pct |-> 0]
  /\ notify = [n \in Cells |-> [permit |-> FALSE, queue |-> <<>>]]
  /\ call = [c \in Calls |-> [op |-> None, at |-> "new"]]
  /\ stop = FALSE
  /\ src = [at |-> "top", batch |-> 0]
  /\ proc = [at |-> "top", batch |-> 0, current |-> First, green |-> None, canary |-> None]
  /\ snk = [at |-> "pop", batch |-> 0, pending |-> {}, buffered |-> {}]
  /\ ring = [src |-> <<>>, sink |-> <<>>]
  /\ fetched = 0
  /\ effects = [i \in Instances |-> {}]
  /\ out = [delivered |-> {}, credited |-> {}, processed |-> {}]

Ended(t) == t.at \in {"done", "failed"}
Underway(c) == call[c].at \notin {"new", "done"}

---------------------------------------------------------------------------
(* tokio::sync::Notify: notify_one wakes the first parked call or, when     *)
(* nobody is parked, stores one permit; notified().await takes the permit   *)
(* or parks.                                                                *)

\* Where a call continues once it is woken at the cell.
Woken(n) == CASE n = "drain" -> "drained" [] n = "swap" -> "swapped" [] n = "upgrade" -> "done"

NotifyOne(n) ==
  IF notify[n].queue = <<>>
  THEN /\ notify' = [notify EXCEPT ![n].permit = TRUE]
       /\ UNCHANGED call
  ELSE /\ notify' = [notify EXCEPT ![n].queue = Tail(@)]
       /\ call' = [call EXCEPT ![Head(notify[n].queue)].at = Woken(n)]

Notified(c, n) ==
  IF notify[n].permit
  THEN /\ notify' = [notify EXCEPT ![n].permit = FALSE]
       /\ call' = [call EXCEPT ![c].at = Woken(n)]
  ELSE /\ notify' = [notify EXCEPT ![n].queue = Append(@, c)]
       /\ call' = [call EXCEPT ![c].at = "parked"]

---------------------------------------------------------------------------
(* PipelineControl's callers.                                               *)

\* drain_and_swap, drain_and_swap_source, drain_and_swap_sink: raise paused.
BeginSwap(c, op) ==
  /\ call[c].at = "new" /\ (Serial => \A d \in Calls : ~Underway(d))
  /\ op \in Ops \cap SwapOps
  /\ ctl' = [ctl EXCEPT !.paused = TRUE]
  /\ call' = [call EXCEPT ![c] = [op |-> op, at |-> "begun"]]
  /\ UNCHANGED <<notify, stop, src, proc, snk, ring, fetched, effects, out>>

AwaitDrain(c) ==
  /\ call[c].at = "begun" /\ call[c].op \in SwapOps
  /\ Notified(c, "drain")
  /\ UNCHANGED <<ctl, stop, src, proc, snk, ring, fetched, effects, out>>

\* The replacement goes into its slot, over whatever is in it.
PlaceSwap(c) ==
  /\ call[c].at = "drained"
  /\ ctl' = [ctl EXCEPT !.slot[call[c].op] = c]
  /\ call' = [call EXCEPT ![c].at = "placed"]
  /\ UNCHANGED <<notify, stop, src, proc, snk, ring, fetched, effects, out>>

AwaitSwap(c) ==
  /\ call[c].at = "placed" /\ call[c].op \in SwapOps
  /\ Notified(c, "swap")
  /\ UNCHANGED <<ctl, stop, src, proc, snk, ring, fetched, effects, out>>

Resume(c) ==
  /\ call[c].at = "swapped"
  /\ ctl' = [ctl EXCEPT !.paused = FALSE]
  /\ call' = [call EXCEPT ![c].at = "done"]
  /\ UNCHANGED <<notify, stop, src, proc, snk, ring, fetched, effects, out>>

\* start_blue_green, cutover_blue_green, start_canary, set_canary_pct,
\* complete_canary, rollback_upgrade: fill upgrade_action, over what is in it.
PlaceUpgrade(c, op) ==
  /\ call[c].at = "new" /\ (Serial => \A d \in Calls : ~Underway(d))
  /\ op \in Ops \cap UpgradeOps
  /\ ctl' = [ctl EXCEPT !.slot["upgrade"] = c]
  /\ call' = [call EXCEPT ![c] = [op |-> op, at |-> "placed"]]
  /\ UNCHANGED <<notify, stop, src, proc, snk, ring, fetched, effects, out>>

AwaitUpgrade(c) ==
  /\ call[c].at = "placed" /\ call[c].op \in UpgradeOps
  /\ Notified(c, "upgrade")
  /\ UNCHANGED <<ctl, stop, src, proc, snk, ring, fetched, effects, out>>

---------------------------------------------------------------------------
(* Source task.                                                             *)

SourceStop ==
  /\ src.at = "top" /\ stop
  /\ src' = [src EXCEPT !.at = "done"]
  /\ UNCHANGED <<ctl, notify, call, stop, proc, snk, ring, fetched, effects, out>>

\* Paused: take a replacement if there is one, and poll again.  Replacements
\* have the type of the running source; one that fails the downcast is dropped
\* and its call is not woken.
SourceSwap ==
  /\ src.at = "top" /\ ~stop /\ ctl.paused
  /\ ctl.slot["source"] # None
  /\ ctl' = [ctl EXCEPT !.slot["source"] = None]
  /\ NotifyOne("swap")
  /\ UNCHANGED <<stop, src, proc, snk, ring, fetched, effects, out>>

SourcePoll ==
  /\ src.at = "top" /\ ~stop /\ ~ctl.paused
  /\ src' = [src EXCEPT !.at = "fetch"]
  /\ UNCHANGED <<ctl, notify, call, stop, proc, snk, ring, fetched, effects, out>>

\* next_batch returns: a batch, nothing, or an error.
NextBatch ==
  /\ src.at = "fetch"
  /\ \/ /\ fetched < MaxEvents
        /\ fetched' = fetched + 1
        /\ src' = [at |-> "push", batch |-> fetched + 1]
     \/ /\ fetched = MaxEvents
        /\ src' = [src EXCEPT !.at = IF PullSource /\ ~ctl.paused THEN "done" ELSE "top"]
        /\ UNCHANGED fetched
     \/ /\ MayFail
        /\ src' = [src EXCEPT !.at = "failed"]
        /\ UNCHANGED fetched
  /\ UNCHANGED <<ctl, notify, call, stop, proc, snk, ring, effects, out>>

\* A full ring is retried after a yield, for as long as it is full.
SourcePush ==
  /\ src.at = "push" /\ Len(ring.src) < SrcCap
  /\ ring' = [ring EXCEPT !.src = Append(@, src.batch)]
  /\ src' = [at |-> "top", batch |-> 0]
  /\ UNCHANGED <<ctl, notify, call, stop, proc, snk, fetched, effects, out>>

---------------------------------------------------------------------------
(* Processor task.                                                          *)

ProcessorStop ==
  /\ proc.at = "top" /\ stop
  /\ proc' = [proc EXCEPT !.at = "done"]
  /\ UNCHANGED <<ctl, notify, call, stop, src, snk, ring, fetched, effects, out>>

\* transfer_processor_state: the new instance takes over the old one's
\* snapshot; an empty snapshot is not restored, and a failed snapshot or
\* restore is only logged.
Transfers(old, new) ==
  {[effects EXCEPT ![new] = IF effects[old] = {} THEN @ ELSE effects[old]]}
    \cup (IF MayFail THEN {effects} ELSE {})

\* What the pending upgrade action does to the processor task.
TakeUpgrade(c) ==
  LET op == call[c].op
      install(new) == IF new = None
                      THEN effects' = effects
                      ELSE effects' \in Transfers(proc.current, new)
      promoted(new) == IF new = None THEN proc.current ELSE new
      pct == CASE op = "canary" -> 50 [] op = "promote" -> 100
               [] op \in {"complete", "rollback"} -> 0 [] OTHER -> ctl.pct
  IN  /\ ctl' = [ctl EXCEPT !.slot["upgrade"] = None, !.pct = pct]
      /\ CASE op = "cutover"  -> install(proc.green)
           [] op = "complete" -> install(proc.canary)
           [] OTHER           -> UNCHANGED effects
      /\ proc' = [proc EXCEPT
           !.at = "pop",
           !.current = CASE op = "cutover"  -> promoted(proc.green)
                         [] op = "complete" -> promoted(proc.canary)
                         [] OTHER           -> @,
           !.green  = CASE op = "blueGreen" -> c
                        [] op \in {"cutover", "rollback"} -> None [] OTHER -> @,
           !.canary = CASE op = "canary" -> c
                        [] op \in {"complete", "rollback"} -> None [] OTHER -> @]
      /\ NotifyOne("upgrade")

\* The top of the loop: a pending action is taken (while its lock is held by a
\* caller it is not yet in the slot).
ProcessorTop ==
  /\ proc.at = "top" /\ ~stop
  /\ \/ /\ ctl.slot["upgrade"] # None
        /\ TakeUpgrade(ctl.slot["upgrade"])
     \/ /\ ctl.slot["upgrade"] = None
        /\ proc' = [proc EXCEPT !.at = "pop"]
        /\ UNCHANGED <<ctl, notify, call, effects>>
  /\ UNCHANGED <<stop, src, snk, ring, fetched, out>>

\* The instance that processes an event: the canary below its percentage.
Route(e) == IF proc.canary # None /\ Hash(e) < ctl.pct THEN proc.canary ELSE proc.current

ProcessorPop ==
  /\ proc.at = "pop" /\ ring.src # <<>>
  /\ LET e == Head(ring.src) IN
     /\ ring' = [ring EXCEPT !.src = Tail(@)]
     /\ \/ /\ proc' = [proc EXCEPT !.at = "push", !.batch = e]
           /\ effects' = [effects EXCEPT ![Route(e)] = @ \cup {e}]
           /\ out' = [out EXCEPT !.processed = @ \cup {e}]
        \/ /\ MayFail
           /\ proc' = [proc EXCEPT !.at = "failed"]
           /\ UNCHANGED <<effects, out>>
  /\ UNCHANGED <<ctl, notify, call, stop, src, snk, fetched>>

ProcessorPush ==
  /\ proc.at = "push" /\ Len(ring.sink) < SinkCap
  /\ ring' = [ring EXCEPT !.sink = Append(@, proc.batch)]
  /\ proc' = [proc EXCEPT !.at = "top", !.batch = 0]
  /\ UNCHANGED <<ctl, notify, call, stop, src, snk, fetched, effects, out>>

\* Mutant of SeesDrained: drained as soon as the source ring is empty.
SeesPausedOnly == ctl.paused

\* Both rings are empty and the pipeline is paused: it counts as drained.
SeesDrained == ctl.paused /\ ring.sink = <<>>

\* pop finds the source ring empty ...
ProcessorPopEmpty ==
  /\ proc.at = "pop" /\ ring.src = <<>>
  /\ proc' = [proc EXCEPT !.at = "idle"]
  /\ UNCHANGED <<ctl, notify, call, stop, src, snk, ring, fetched, effects, out>>

\* ... and only then is_abandoned and paused are read: the source task may
\* have pushed, and ended, in between.
ProcessorIdle ==
  /\ proc.at = "idle"
  /\ \/ /\ Ended(src)
        /\ proc' = [proc EXCEPT !.at = "done"]
        /\ UNCHANGED <<notify, call>>
     \/ /\ ~Ended(src) /\ SeesDrained
        /\ proc' = [proc EXCEPT !.at = "drain"]
        /\ NotifyOne("drain")
     \/ /\ ~Ended(src) /\ ~SeesDrained
        /\ proc' = [proc EXCEPT !.at = "top"]
        /\ UNCHANGED <<notify, call>>
  /\ UNCHANGED <<ctl, stop, src, snk, ring, fetched, effects, out>>

\* The wait for a replacement: it ends when the pause does ...
DrainEnds ==
  /\ proc.at = "drain" /\ ~ctl.paused
  /\ proc' = [proc EXCEPT !.at = "top"]
  /\ UNCHANGED <<ctl, notify, call, stop, src, snk, ring, fetched, effects, out>>

\* ... or when a new processor is in the slot.
ProcessorSwap ==
  /\ proc.at = "drain" /\ ctl.paused
  /\ ctl.slot["processor"] # None
  /\ LET new == ctl.slot["processor"] IN
     /\ effects' \in Transfers(proc.current, new)
     /\ proc' = [proc EXCEPT !.at = "top", !.current = new]
  /\ ctl' = [ctl EXCEPT !.slot["processor"] = None]
  /\ NotifyOne("swap")
  /\ UNCHANGED <<stop, src, snk, ring, fetched, out>>

---------------------------------------------------------------------------
(* Sink task: run_sink_task with a PipelineControl.                         *)

SinkPop ==
  /\ snk.at = "pop" /\ ring.sink # <<>>
  /\ ring' = [ring EXCEPT !.sink = Tail(@)]
  /\ snk' = [snk EXCEPT !.at = "write", !.batch = Head(ring.sink)]
  /\ UNCHANGED <<ctl, notify, call, stop, src, proc, fetched, effects, out>>

SinkPopEmpty ==
  /\ snk.at = "pop" /\ ring.sink = <<>>
  /\ snk' = [snk EXCEPT !.at = "idle"]
  /\ UNCHANGED <<ctl, notify, call, stop, src, proc, ring, fetched, effects, out>>

WriteBatch ==
  /\ snk.at = "write"
  /\ \/ /\ ~Batched
        /\ out' = [out EXCEPT !.delivered = @ \cup {snk.batch}, !.credited = @ \cup {snk.batch}]
        /\ snk' = [snk EXCEPT !.at = "pop", !.batch = 0]
     \/ /\ Batched
        /\ snk' = [snk EXCEPT !.at = "pop", !.batch = 0, !.pending = @ \cup {snk.batch},
                              !.buffered = @ \cup {snk.batch}]
        /\ UNCHANGED out
     \/ /\ MayFail
        /\ snk' = [snk EXCEPT !.at = "failed"]
        /\ UNCHANGED out
  /\ UNCHANGED <<ctl, notify, call, stop, src, proc, ring, fetched, effects>>

\* flush delivers what the sink holds and the task credits what it has pending.
Flushed == [out EXCEPT !.delivered = @ \cup snk.buffered, !.credited = @ \cup snk.pending]

\* After a batch that made it due, or at the end of the idle branch when the
\* interval has passed.
Flush ==
  /\ \/ snk.at = "pop"
     \/ snk.at = "idle" /\ ~Ended(proc)
  /\ snk.pending # {}
  /\ \/ /\ out' = Flushed
        /\ snk' = [snk EXCEPT !.at = "pop", !.pending = {}, !.buffered = {}]
     \/ /\ MayFail
        /\ snk' = [snk EXCEPT !.at = "failed"]
        /\ UNCHANGED out
  /\ UNCHANGED <<ctl, notify, call, stop, src, proc, ring, fetched, effects>>

\* The idle branch: take a replacement.  The old sink is dropped unflushed.
SinkSwap ==
  /\ snk.at = "idle" /\ ~Ended(proc) /\ ctl.paused
  /\ ctl.slot["sink"] # None
  /\ ctl' = [ctl EXCEPT !.slot["sink"] = None]
  /\ snk' = [snk EXCEPT !.buffered = {}]
  /\ NotifyOne("swap")
  /\ UNCHANGED <<stop, src, proc, ring, fetched, effects, out>>

\* The idle branch with nothing to take and no flush due.
SinkYield ==
  /\ snk.at = "idle" /\ ~Ended(proc)
  /\ ctl.paused => ctl.slot["sink"] = None
  /\ snk' = [snk EXCEPT !.at = "pop"]
  /\ UNCHANGED <<ctl, notify, call, stop, src, proc, ring, fetched, effects, out>>

\* The ring was found empty and is abandoned: final flush.
SinkEnd ==
  /\ snk.at = "idle" /\ Ended(proc)
  /\ \/ /\ out' = Flushed
        /\ snk' = [snk EXCEPT !.at = "done", !.pending = {}, !.buffered = {}]
     \/ /\ MayFail
        /\ snk' = [snk EXCEPT !.at = "failed"]
        /\ UNCHANGED out
  /\ UNCHANGED <<ctl, notify, call, stop, src, proc, ring, fetched, effects>>

---------------------------------------------------------------------------

Shutdown ==
  /\ MayStop /\ ~stop
  /\ stop' = TRUE
  /\ UNCHANGED <<ctl, notify, call, src, proc, snk, ring, fetched, effects, out>>

Caller(c) ==
  \/ AwaitDrain(c) \/ PlaceSwap(c) \/ AwaitSwap(c) \/ Resume(c) \/ AwaitUpgrade(c)

SourceTask == SourceStop \/ SourceSwap \/ SourcePoll \/ NextBatch \/ SourcePush
ProcessorTask ==
  \/ ProcessorStop \/ ProcessorTop \/ ProcessorPop \/ ProcessorPush
  \/ ProcessorPopEmpty \/ ProcessorIdle \/ DrainEnds \/ ProcessorSwap
SinkTask ==
  \/ SinkPop \/ SinkPopEmpty \/ WriteBatch \/ Flush
  \/ SinkSwap \/ SinkYield \/ SinkEnd

Next ==
  \/ \E c \in Calls, op \in Ops : BeginSwap(c, op) \/ PlaceUpgrade(c, op)
  \/ \E c \in Calls : Caller(c)
  \/ SourceTask \/ ProcessorTask \/ SinkTask
  \/ Shutdown

Spec == Init /\ [][Next]_vars

\* Every task and every call is polled when it is ready.  The idle branch of
\* the sink task runs again and again, so an overdue flush is made in the end.
Fairness ==
  /\ \A c \in Calls : WF_vars(Caller(c))
  /\ WF_vars(SourceTask) /\ WF_vars(ProcessorTask) /\ WF_vars(SinkTask)
  /\ SF_vars(Flush)

FairSpec == Spec /\ Fairness

---------------------------------------------------------------------------
(* Properties.                                                              *)

Range(q) == {q[i] : i \in DOMAIN q}
InFlight ==
  Range(ring.src) \cup Range(ring.sink) \cup snk.buffered
    \cup ({src.batch, proc.batch, snk.batch} \ {0})

AnyFailed == "failed" \in {src.at, proc.at, snk.at}
AllEnded == Ended(src) /\ Ended(proc) /\ Ended(snk)

\* No swap, upgrade or shutdown makes a batch disappear: until a task fails,
\* what the source yielded is delivered or still somewhere in the pipeline.
Conserved == AnyFailed \/ (1 .. fetched) \subseteq out.delivered \cup InFlight

\* A pipeline whose source is exhausted ends with everything delivered ("Zero
\* data loss by design"): nothing is left behind in a ring.
ExhaustedMeansDelivered ==
  AllEnded /\ ~AnyFailed /\ ~stop => (1 .. fetched) \subseteq out.delivered

\* outputs_sent and the ledger are credited only for outputs that reached the
\* outside ("Zero events are lost", drain_and_swap_sink).
CreditedIsDelivered == out.credited \subseteq out.delivered

\* The effect of every processed event is in the state of an instance that is
\* still in use: TR-2's transfer carries the state over every replacement.
StateSurvives ==
  \A e \in out.processed :
    \E i \in ({proc.current, proc.canary, proc.green} \ {None}) : e \in effects[i]

\* A new processor becomes active only when no output of the old one waits in
\* the sink ring, whatever permits earlier calls left behind.
ProcessorSwapDrained ==
  [][ (proc.at = "drain" /\ proc.current' # proc.current) => ring.sink = <<>> ]_vars

\* "by the time we see it, all in-flight events have been flushed": the source
\* is replaced only when nothing it yielded is in flight.
SourceSwapDrained ==
  [][ (ctl.slot["source"] # None /\ ctl'.slot["source"] = None) => InFlight = {} ]_vars

\* Every call of PipelineControl returns.
CallReturns == \A c \in Calls : Underway(c) ~> call[c].at = "done"

\* Whatever is swapped meanwhile, every batch the source yields is delivered.
EveryBatchDelivered == \A e \in Events : fetched >= e ~> e \in out.delivered

\* After the shutdown flag is set the three tasks end, so stop() returns.
StopReturns == stop ~> AllEnded

\* After the shutdown flag is set what is in flight is drained to the sink.
DrainsOnStop == stop ~> (1 .. fetched) \subseteq out.delivered
=============================================================================
