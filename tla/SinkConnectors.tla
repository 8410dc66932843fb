--------------------------- MODULE SinkConnectors ---------------------------
(***************************************************************************)
(* The sink connectors: how write_batch and flush turn what the downstream *)
(* system confirms into what they report to the sink task, for each        *)
(* delivery strategy.  The sink task ends at the first error and a new     *)
(* pipeline writes again from the first output that was not reported.      *)
(*                                                                         *)
(* Source: aeon-connectors, the sink.rs of each system; the sink task of   *)
(* aeon-engine pipeline.rs.  The downstream system is external: it takes   *)
(* what is published on one connection in order, may refuse one, and its   *)
(* confirmation may be lost.                                               *)
(***************************************************************************)
EXTENDS Naturals, Sequences, FiniteSets, SequencesExt

CONSTANTS
  Kind,       \* "kafka", "redis", "nats", "rabbit", "http", or "queue": MQTT,
              \* WebSocket, QUIC, WebTransport, which hand over to a client task
  Strategy,   \* "PerEvent", "OrderedBatch" or "UnorderedBatch"
  Transactional, \* Kafka's transactional_id is set
  N,          \* bound: outputs
  BatchSize,
  MaxFaults   \* bound: publishes refused and confirmations lost

VARIABLES
  next,       \* the next output to write
  sent,       \* sent[h]: publish h, the output it carries and what became of it
  dropped,    \* publishes whose connection is gone
  staged,     \* taken by the downstream system in the open transaction
  broker,     \* taken by the downstream system and visible, in order
  pc,         \* where the sink task is
  batch,      \* the outputs of this write_batch that are not published yet
  futures,    \* the confirmations this write_batch waits for
  stash,      \* the confirmations kept for flush
  pending,    \* outputs reported as pending
  reported,   \* outputs reported as delivered
  acked,      \* the sum of the ack callbacks
  faults

sink == <<pc, batch, futures, stash, pending>>
report == <<reported, acked>>
vars == <<next, sent, dropped, staged, broker, pc, batch, futures, stash, pending, reported,
          acked, faults>>

Outputs == 1..N
Fault == faults < MaxFaults /\ faults' = faults + 1

Init ==
  /\ next = 1 /\ sent = <<>> /\ dropped = 0 /\ staged = <<>> /\ broker = <<>>
  /\ pc = "idle" /\ batch = <<>> /\ futures = <<>> /\ stash = <<>> /\ pending = {}
  /\ reported = {} /\ acked = 0 /\ faults = 0

Is(h, s) == sent[h].st = s
All(hs, s) == \A h \in ToSet(hs) : Is(h, s)
Decided(hs) == \A h \in ToSet(hs) : ~Is(h, "wait")
Confirmed(hs) == Cardinality({h \in ToSet(hs) : Is(h, "ok")})
Ids(hs) == {sent[h].id : h \in ToSet(hs)}

---------------------------------------------------------------------------
(* The downstream system.                                                    *)

Waiting == {h \in (dropped + 1)..Len(sent) : Is(h, "wait")}
Earliest(h) == h \in Waiting /\ \A g \in Waiting : h <= g

Takes(id) ==
  IF Transactional THEN staged' = Append(staged, id) /\ UNCHANGED broker
                   ELSE broker' = Append(broker, id) /\ UNCHANGED staged

Accept ==
  \E h \in Waiting :
    /\ Earliest(h) /\ Takes(sent[h].id)
    /\ sent' = [sent EXCEPT ![h].st = "ok"]
    /\ UNCHANGED <<next, dropped, sink, report, faults>>

\* Refused, or taken and the confirmation lost.
Refuse ==
  \E h \in Waiting :
    /\ Earliest(h) /\ Fault
    /\ UNCHANGED <<staged, broker>> \/ Takes(sent[h].id)
    /\ sent' = [sent EXCEPT ![h].st = "err"]
    /\ UNCHANGED <<next, dropped, sink, report>>

---------------------------------------------------------------------------
(* write_batch.                                                              *)

Write ==
  /\ pc = "idle" /\ next <= N
  /\ batch' = SubSeq([i \in Outputs |-> i], next, IF next + BatchSize - 1 <= N THEN next + BatchSize - 1 ELSE N)
  /\ pc' = "send" /\ futures' = <<>> /\ staged' = <<>>
  /\ UNCHANGED <<next, sent, dropped, broker, stash, pending, report, faults>>

\* One publish.  PerEvent waits for each before the next.
Publish ==
  /\ pc = "send" /\ batch # <<>>
  /\ Strategy = "PerEvent" /\ Kind # "queue" => All(futures, "ok")
  /\ sent' = Append(sent, [id |-> Head(batch), st |-> "wait"])
  /\ futures' = Append(futures, Len(sent) + 1) /\ batch' = Tail(batch)
  /\ UNCHANGED <<next, dropped, staged, broker, pc, stash, pending, report, faults>>

Return(ids, n) ==
  /\ reported' = reported \cup ids /\ acked' = acked + n
  /\ next' = next + Len(futures) /\ futures' = <<>> /\ pc' = "idle"

\* Any error ends the sink task.  Kafka counts what was confirmed before; the
\* others count nothing.
Fail(n) == pc' = "ended" /\ acked' = acked + n /\ UNCHANGED reported

\* Mutant of Delivered: an answer counts, whatever it says.
AnsweredDelivered ==
  /\ pc = "send" /\ batch = <<>> /\ Strategy # "UnorderedBatch" /\ Kind # "queue"
  /\ Decided(futures) /\ ~Transactional
  /\ Return(Ids(futures), Len(futures))
  /\ UNCHANGED <<sent, dropped, staged, broker, batch, stash, pending, faults>>

\* PerEvent and OrderedBatch: every publish is confirmed.
Delivered ==
  /\ pc = "send" /\ batch = <<>> /\ Strategy # "UnorderedBatch" /\ Kind # "queue"
  /\ All(futures, "ok") /\ ~Transactional
  /\ Return(Ids(futures), Len(futures))
  /\ UNCHANGED <<sent, dropped, staged, broker, batch, stash, pending, faults>>

\* The client task has the outputs and the downstream system may not.
HandedOver ==
  /\ pc = "send" /\ batch = <<>> /\ Kind = "queue"
  /\ Return(Ids(futures), Len(futures))
  /\ UNCHANGED <<sent, dropped, staged, broker, batch, stash, pending, faults>>

\* A transactional write commits before it reports.
Commit ==
  /\ pc = "send" /\ batch = <<>> /\ Transactional /\ All(futures, "ok")
  /\ broker' = broker \o staged /\ staged' = <<>>
  /\ Return(Ids(futures), Len(futures))
  /\ UNCHANGED <<sent, dropped, batch, stash, pending, faults>>

CommitFails ==
  /\ pc = "send" /\ batch = <<>> /\ Transactional /\ All(futures, "ok") /\ Fault
  /\ broker' \in {broker, broker \o staged} /\ staged' = <<>>
  /\ Fail(Len(futures))
  /\ UNCHANGED <<next, sent, dropped, batch, futures, stash, pending>>

\* A publish was refused.  PerEvent stops at it; a batch of Kafka, Redis or
\* RabbitMQ waits for all, NATS for the first; an open transaction is aborted.
WriteFails ==
  /\ pc = "send" /\ Strategy # "UnorderedBatch" /\ Kind # "queue"
  /\ \E h \in ToSet(futures) : Is(h, "err")
  /\ Strategy = "OrderedBatch" => batch = <<>>
  /\ Kind \in {"kafka", "redis", "rabbit"} => Decided(futures)
  /\ staged' = <<>>
  /\ Fail(IF Kind = "kafka" /\ Strategy = "OrderedBatch" THEN Confirmed(futures) ELSE 0)
  /\ UNCHANGED <<next, sent, dropped, broker, batch, futures, stash, pending, faults>>

\* The publish itself fails: the connection is gone.
PublishFails ==
  /\ pc = "send" /\ batch # <<>> /\ Kind \in {"nats", "rabbit", "queue"} /\ Fault
  /\ Fail(0)
  /\ UNCHANGED <<next, sent, dropped, staged, broker, batch, futures, stash, pending>>

\* UnorderedBatch returns at once and keeps the confirmations for flush.
Pend ==
  /\ pc = "send" /\ batch = <<>> /\ Strategy = "UnorderedBatch" /\ Kind # "queue"
  /\ stash' = stash \o futures /\ pending' = pending \cup Ids(futures)
  /\ next' = next + Len(futures) /\ futures' = <<>> /\ pc' = "idle"
  /\ UNCHANGED <<sent, dropped, staged, broker, batch, report, faults>>

---------------------------------------------------------------------------
(* flush and credit_pending_on_flush.  Kafka's producer flush waits until    *)
(* its queue is empty; the others look at every confirmation.                *)

Flush ==
  /\ pc = "idle" /\ pending # {}
  /\ IF Kind = "kafka" THEN Decided(stash) ELSE All(stash, "ok")
  /\ reported' = reported \cup pending /\ acked' = acked + Len(stash)
  /\ pending' = {} /\ stash' = <<>>
  /\ UNCHANGED <<next, sent, dropped, staged, broker, pc, batch, futures, faults>>

\* A confirmation is an error; Kafka's flush knows only its time-out.
FlushFails ==
  /\ pc = "idle"
  /\ IF Kind = "kafka" THEN ~Decided(stash) /\ Fault
                       ELSE (\E h \in ToSet(stash) : Is(h, "err")) /\ UNCHANGED faults
  /\ Fail(0)
  /\ UNCHANGED <<next, sent, dropped, staged, broker, batch, futures, stash, pending>>

\* The first waiting publishes, in the order they were sent.
FirstWaiting(f) ==
  /\ \A i, j \in DOMAIN f : i < j => f[i] < f[j]
  /\ \A i \in DOMAIN f : \A h \in Waiting : h < f[i] => h \in ToSet(f)

\* A new pipeline with a new sink.  The old connection's publishes that are
\* still waiting arrive, up to some point, or do not.
Restart ==
  /\ pc = "ended"
  /\ \E k \in 0..Cardinality(Waiting) : \E f \in [1..k -> Waiting] :
       /\ FirstWaiting(f)
       /\ broker' = IF Transactional THEN broker
                    ELSE broker \o [i \in 1..k |-> sent[f[i]].id]
  /\ dropped' = Len(sent) /\ staged' = <<>>
  /\ next' = CHOOSE n \in 1..(N + 1) : n \notin reported /\ \A m \in 1..(n - 1) : m \in reported
  /\ pc' = "idle" /\ batch' = <<>> /\ futures' = <<>> /\ stash' = <<>> /\ pending' = {}
  /\ UNCHANGED <<sent, report, faults>>

SinkStep ==
  \/ Write \/ Publish \/ Delivered \/ HandedOver \/ Commit \/ WriteFails \/ Pend
  \/ Flush \/ FlushFails \/ Restart

Next == Accept \/ Refuse \/ CommitFails \/ PublishFails \/ SinkStep

Spec == Init /\ [][Next]_vars

\* The downstream system answers, the sink task runs and flushes, and a failed
\* pipeline is started again.
FairSpec == Spec /\ WF_vars(Accept) /\ WF_vars(SinkStep)

---------------------------------------------------------------------------
(* Properties.                                                               *)

\* Types of the sink's state.
TypeOK ==
  /\ next \in 1..(N + 1) /\ sent \in Seq([id : Outputs, st : {"wait", "ok", "err"}])
  /\ dropped \in 0..Len(sent) /\ staged \in Seq(Outputs) /\ broker \in Seq(Outputs)
  /\ pc \in {"idle", "send", "ended"} /\ batch \in Seq(Outputs)
  /\ futures \in Seq(DOMAIN sent) /\ stash \in Seq(DOMAIN sent) /\ pending \subseteq Outputs
  /\ reported \subseteq Outputs /\ acked \in Nat /\ faults \in 0..MaxFaults

\* What a sink reports as delivered, the downstream system has: the source's
\* position passes a reported output and no replay brings it back.
ReportedIsThere == reported \subseteq ToSet(broker)

\* The ack callbacks never count more than the downstream system took.
AckedIsTaken == acked <= Len(broker) + Len(staged)

FirstAt(id) == CHOOSE i \in DOMAIN broker : broker[i] = id /\ \A j \in 1..(i - 1) : broker[j] # id

\* Order is kept within and across batches, whatever is refused and written
\* again: no output reaches the downstream system before an earlier one.
OrderKept ==
  \A b \in ToSet(broker) : \A a \in 1..(b - 1) : a \in ToSet(broker) /\ FirstAt(a) < FirstAt(b)

\* Every output is reported in the end, whatever is refused on the way.
AllReported == <>(reported = Outputs)
=============================================================================
