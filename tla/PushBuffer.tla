----------------------------- MODULE PushBuffer -----------------------------
(***************************************************************************)
(* The buffer between the receivers of a push source (webhook requests,    *)
(* QUIC and WebTransport streams, the RabbitMQ, MQTT, WebSocket and        *)
(* MongoDB readers) and next_batch: a bounded channel, a count of the      *)
(* sends that found it full, and a flag that tells receivers to stop.      *)
(* The count and the flag are two atomics that senders and the consumer    *)
(* read and write one at a time.                                           *)
(*                                                                         *)
(* Source: aeon-connectors push_buffer.rs and its callers.  The channel is *)
(* tokio's, external: a sender that waits for room is served in turn.      *)
(***************************************************************************)
EXTENDS Integers, Sequences, FiniteSets

CONSTANTS
  Senders,         \* receive tasks and request handlers
  Checking,        \* those that ask is_overloaded first
  ChannelCapacity,
  SpillThreshold,
  BatchSize,
  MaxGone          \* bound: handlers dropped with their client

VARIABLES
  pc,           \* pc[s]: where sender s is
  seen,         \* seen[s]: the count its fetch_add left
  queue,        \* the senders that wait for room, in turn
  chan,         \* events in the channel
  spill_count,
  overloaded,
  at,           \* where the consumer is in next_batch
  batch,        \* the events it has taken
  remaining,    \* the count it has loaded
  gone          \* handlers dropped so far

senders == <<pc, seen>>
consumer == <<at, batch, remaining>>
vars == <<pc, seen, queue, chan, spill_count, overloaded, at, batch, remaining, gone>>

Init ==
  /\ pc = [s \in Senders |-> "idle"] /\ seen = [s \in Senders |-> 0]
  /\ queue = <<>> /\ chan = 0 /\ spill_count = 0 /\ overloaded = FALSE
  /\ at = "recv" /\ batch = 0 /\ remaining = 0 /\ gone = 0

---------------------------------------------------------------------------
(* Senders.                                                                  *)

\* A message arrives.
Receive(s) ==
  /\ pc[s] = "idle" /\ (s \in Checking => ~overloaded)
  /\ pc' = [pc EXCEPT ![s] = "send"]
  /\ UNCHANGED <<seen, queue, chan, spill_count, overloaded, consumer, gone>>

\* A checking receiver turns a message away while the buffer is overloaded: a
\* webhook answers 503, RabbitMQ's reader requeues, a stream reads nothing.
Refuse(s) ==
  /\ pc[s] = "idle" /\ s \in Checking /\ overloaded
  /\ UNCHANGED vars

\* try_send: room is given to those who wait before anyone else.
TrySend(s) ==
  /\ pc[s] = "send"
  /\ IF chan < ChannelCapacity /\ queue = <<>>
     THEN chan' = chan + 1 /\ pc' = [pc EXCEPT ![s] = "idle"]
     ELSE UNCHANGED chan /\ pc' = [pc EXCEPT ![s] = "spill"]
  /\ UNCHANGED <<seen, queue, spill_count, overloaded, consumer, gone>>

Spill(s) ==
  /\ pc[s] = "spill"
  /\ spill_count' = spill_count + 1
  /\ seen' = [seen EXCEPT ![s] = spill_count + 1]
  /\ pc' = [pc EXCEPT ![s] = "flag"]
  /\ UNCHANGED <<queue, chan, overloaded, consumer, gone>>

\* The flag, and the channel's send, which queues the sender.
Flag(s) ==
  /\ pc[s] = "flag"
  /\ overloaded' = (overloaded \/ seen[s] >= SpillThreshold)
  /\ queue' = Append(queue, s)
  /\ pc' = [pc EXCEPT ![s] = "wait"] /\ seen' = [seen EXCEPT ![s] = 0]
  /\ UNCHANGED <<chan, spill_count, consumer, gone>>

Sent(s) ==
  /\ pc[s] = "wait" /\ Head(queue) = s /\ chan < ChannelCapacity
  /\ queue' = Tail(queue) /\ chan' = chan + 1
  /\ pc' = [pc EXCEPT ![s] = "idle"]
  /\ UNCHANGED <<seen, spill_count, overloaded, consumer, gone>>

\* The client of a waiting request disconnects and its handler is dropped.
Disconnect(s) ==
  /\ pc[s] = "wait" /\ gone < MaxGone /\ gone' = gone + 1
  /\ queue' = SelectSeq(queue, LAMBDA t : t # s)
  /\ pc' = [pc EXCEPT ![s] = "idle"]
  /\ UNCHANGED <<seen, chan, spill_count, overloaded, consumer>>

---------------------------------------------------------------------------
(* next_batch.  An empty one returns at once and changes nothing.            *)

Take ==
  /\ at \in {"recv", "drain"} /\ chan > 0 /\ batch < BatchSize
  /\ chan' = chan - 1 /\ batch' = batch + 1 /\ at' = "drain"
  /\ UNCHANGED <<senders, queue, spill_count, overloaded, remaining, gone>>

\* Mutant of Load: the spills of the last full batch are never subtracted.
LateLoad ==
  /\ at = "drain"
  /\ remaining' = spill_count /\ at' = IF spill_count > batch THEN "sub" ELSE "check"
  /\ UNCHANGED <<senders, queue, chan, spill_count, overloaded, batch, gone>>

\* The batch is full or drain_timeout has passed.
Load ==
  /\ at = "drain"
  /\ remaining' = spill_count /\ at' = IF spill_count > 0 THEN "sub" ELSE "check"
  /\ UNCHANGED <<senders, queue, chan, spill_count, overloaded, batch, gone>>

Settle ==
  /\ at = "sub"
  /\ spill_count' = spill_count - (IF remaining < batch THEN remaining ELSE batch)
  /\ at' = "check"
  /\ UNCHANGED <<senders, queue, chan, overloaded, batch, remaining, gone>>

Check ==
  /\ at = "check"
  /\ at' = IF spill_count = 0 THEN "clear" ELSE "recv"
  /\ batch' = 0 /\ remaining' = 0
  /\ UNCHANGED <<senders, queue, chan, spill_count, overloaded, gone>>

Clear ==
  /\ at = "clear"
  /\ overloaded' = FALSE /\ at' = "recv"
  /\ UNCHANGED <<senders, queue, chan, spill_count, batch, remaining, gone>>

NextBatch == Take \/ Load \/ Settle \/ Check \/ Clear
SendStep(s) == TrySend(s) \/ Spill(s) \/ Flag(s) \/ Sent(s)

Next == NextBatch \/ \E s \in Senders : Receive(s) \/ Refuse(s) \/ SendStep(s) \/ Disconnect(s)

Spec == Init /\ [][Next]_vars

\* The source task keeps calling next_batch, and the runtime polls senders.
FairSpec == Spec /\ WF_vars(NextBatch) /\ \A s \in Senders : WF_vars(SendStep(s))

---------------------------------------------------------------------------
(* Properties.                                                               *)

\* Types; a count that went below zero would wrap to the largest u64.
TypeOK ==
  /\ pc \in [Senders -> {"idle", "send", "spill", "flag", "wait"}]
  /\ seen \in [Senders -> Nat] /\ queue \in Seq(Senders)
  /\ chan \in 0..ChannelCapacity /\ spill_count \in Nat /\ overloaded \in BOOLEAN
  /\ at \in {"recv", "drain", "sub", "check", "clear"}
  /\ batch \in 0..BatchSize /\ remaining \in Nat /\ gone \in 0..MaxGone

Counted == Cardinality({s \in Senders : pc[s] \in {"flag", "wait"}})

\* The count never exceeds the events the buffer still has to hand out, so an
\* empty buffer has a count of zero: the consumer subtracts what it loaded
\* earlier while senders add.
SpillCovered ==
  spill_count <= chan + Counted + (IF at \in {"drain", "sub"} THEN batch ELSE 0)

\* A sender that waits for room gets it.
WaiterServed == \A s \in Senders : pc[s] = "wait" ~> pc[s] = "idle"

\* The overload ends: after it is announced the buffer drains, and the consumer
\* takes the flag back.
OverloadClears == overloaded ~> ~overloaded
=============================================================================
