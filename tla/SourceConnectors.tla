-------------------------- MODULE SourceConnectors --------------------------
(***************************************************************************)
(* The source connectors whose position is kept by the upstream system:    *)
(* Redis Streams, NATS JetStream, RabbitMQ, PostgreSQL CDC and MongoDB     *)
(* CDC.  What is modelled is when each of them tells the upstream system   *)
(* that it is done with a message, against where the message is in the     *)
(* process, with connections that break and processes that crash.          *)
(*                                                                         *)
(* Source: aeon-connectors, one next_batch or reader task per connector.   *)
(* The upstream systems are external: st[m] says what one does with        *)
(* message m.  The pipeline behind next_batch is a queue that a crash      *)
(* empties; what has left it is delivered.                                 *)
(***************************************************************************)
EXTENDS Naturals, Sequences, FiniteSets, SequencesExt

CONSTANTS
  Kind,        \* "redis", "nats", "rabbit", "postgres" or "mongo"
  N,           \* bound: messages the upstream system produces
  Batch,       \* batch_size
  Cap,         \* the push buffer's channel_capacity
  Ring,        \* events the pipeline holds before the source task waits
  FlushEvery,  \* resume_token_flush_every_n
  MaxBreaks,   \* bound: broken connections
  MaxCrashes   \* bound: crashes

VARIABLES
  st,         \* st[m]: "new" to be handed out, "out" handed out, "done" never again
  made,       \* messages produced so far
  conn,       \* the connection is up
  pc,         \* where next_batch or the reader is
  hold,       \* messages received and not passed on
  pend,       \* pending_ack_ids
  buf,        \* the push buffer
  flight,     \* returned by next_batch and not delivered
  delivered,  \* left the pipeline
  cursor,     \* the change stream's position
  unflushed,  \* events since the last flush of the token
  token,      \* the token file, 0 when there is none
  breaks, crashes

upstream == <<st, made>>
resume == <<cursor, unflushed, token>>
vars == <<st, made, conn, pc, hold, pend, buf, flight, delivered, cursor, unflushed, token,
          breaks, crashes>>

Messages == 1..N
Produced == 1..made

Init ==
  /\ st = [m \in Messages |-> "new"] /\ made = 0
  /\ conn = TRUE /\ pc = "start" /\ hold = <<>> /\ pend = {}
  /\ buf = <<>> /\ flight = <<>> /\ delivered = {}
  /\ cursor = 0 /\ unflushed = 0 /\ token = 0
  /\ breaks = 0 /\ crashes = 0

New == {m \in Produced : st[m] = "new"}
Marked(S, s) == [m \in Messages |-> IF m \in S THEN s ELSE st[m]]

\* The source task calls next_batch again once it has passed the batch on.
Asked == Len(flight) <= Ring
Breaks == breaks < MaxBreaks /\ breaks' = breaks + 1

\* What a read gives out: the first messages there are, up to a batch.
Fetches ==
  {f \in [1 .. IF Cardinality(New) < Batch THEN Cardinality(New) ELSE Batch -> New] :
     /\ \A i, j \in DOMAIN f : i < j => f[i] < f[j]
     /\ \A m \in New : m \in ToSet(f) \/ \A i \in DOMAIN f : f[i] < m}

\* What a subscription gives out next.
Oldest(m) == \A n \in New : m <= n

---------------------------------------------------------------------------
(* The upstream system and the pipeline.                                     *)

Produce ==
  /\ made < N /\ made' = made + 1
  /\ UNCHANGED <<st, conn, pc, hold, pend, buf, flight, delivered, resume, breaks, crashes>>

Deliver ==
  /\ flight # <<>>
  /\ delivered' = delivered \cup {Head(flight)}
  /\ flight' = Tail(flight)
  /\ UNCHANGED <<upstream, conn, pc, hold, pend, buf, resume, breaks, crashes>>

---------------------------------------------------------------------------
(* Redis Streams: next_batch acknowledges the batch before, then reads the   *)
(* entries no consumer of the group has been given (">").                    *)

\* establish again: what was to be acknowledged is forgotten.
RedisReconnect ==
  /\ Kind = "redis" /\ ~conn /\ Asked
  /\ conn' = TRUE /\ pend' = {} /\ pc' = "start"
  /\ UNCHANGED <<upstream, hold, buf, flight, delivered, resume, breaks, crashes>>

RedisAck ==
  /\ Kind = "redis" /\ conn /\ pc = "start" /\ Asked
  /\ st' = Marked(pend, "done") /\ pend' = {} /\ pc' = "read"
  /\ UNCHANGED <<made, conn, hold, buf, flight, delivered, resume, breaks, crashes>>

RedisAckFails ==
  /\ Kind = "redis" /\ conn /\ pc = "start" /\ Asked /\ pend # {} /\ Breaks
  /\ st' \in {st, Marked(pend, "done")}
  /\ conn' = FALSE
  /\ UNCHANGED <<made, pc, hold, pend, buf, flight, delivered, resume, crashes>>

RedisRead ==
  /\ Kind = "redis" /\ conn /\ pc = "read" /\ New # {}
  /\ \E f \in Fetches :
       st' = Marked(ToSet(f), "out") /\ pend' = ToSet(f) /\ flight' = flight \o f
  /\ pc' = "start"
  /\ UNCHANGED <<made, conn, hold, buf, delivered, resume, breaks, crashes>>

\* The read fails before the server has given entries out, or after.
RedisReadFails ==
  /\ Kind = "redis" /\ conn /\ pc = "read" /\ Breaks
  /\ st' = st \/ \E f \in Fetches : st' = Marked(ToSet(f), "out")
  /\ conn' = FALSE
  /\ UNCHANGED <<made, pc, hold, pend, buf, flight, delivered, resume, crashes>>

---------------------------------------------------------------------------
(* NATS JetStream: next_batch acknowledges each message as it receives it.   *)
(* The server hands a message out again when its acknowledgement is late.    *)

NatsStream ==
  /\ Kind = "nats" /\ ~conn /\ hold = <<>> /\ Asked
  /\ conn' = TRUE
  /\ UNCHANGED <<upstream, pc, hold, pend, buf, flight, delivered, resume, breaks, crashes>>

NatsReceive ==
  /\ Kind = "nats" /\ conn /\ pc = "start" /\ Asked /\ Len(hold) < Batch
  /\ \E m \in New : Oldest(m) /\ st' = [st EXCEPT ![m] = "out"] /\ hold' = Append(hold, m)
  /\ pc' = "ack"
  /\ UNCHANGED <<made, conn, pend, buf, flight, delivered, resume, breaks, crashes>>

NatsAck ==
  /\ Kind = "nats" /\ pc = "ack"
  /\ st' = IF conn THEN [st EXCEPT ![Last(hold)] = "done"] ELSE st
  /\ pc' = "start"
  /\ UNCHANGED <<made, conn, hold, pend, buf, flight, delivered, resume, breaks, crashes>>

\* The batch is full, the drain has timed out, or the stream has failed.
NatsReturn ==
  /\ Kind = "nats" /\ pc = "start" /\ hold # <<>>
  /\ flight' = flight \o hold /\ hold' = <<>>
  /\ UNCHANGED <<upstream, conn, pc, pend, buf, delivered, resume, breaks, crashes>>

NatsExpire ==
  /\ Kind = "nats"
  /\ \E m \in Produced : st[m] = "out" /\ st' = [st EXCEPT ![m] = "new"]
  /\ UNCHANGED <<made, conn, pc, hold, pend, buf, flight, delivered, resume, breaks, crashes>>

NatsBreak ==
  /\ Kind = "nats" /\ conn /\ Breaks
  /\ conn' = FALSE
  /\ UNCHANGED <<upstream, pc, hold, pend, buf, flight, delivered, resume, crashes>>

---------------------------------------------------------------------------
(* RabbitMQ: a reader task pushes each delivery into the push buffer and     *)
(* acknowledges it.  Without its connection the broker queues what is        *)
(* unacknowledged again.                                                     *)

RabbitConnect ==
  /\ Kind = "rabbit" /\ ~conn /\ pc = "start"
  /\ conn' = TRUE
  /\ UNCHANGED <<upstream, pc, hold, pend, buf, flight, delivered, resume, breaks, crashes>>

\* Mutant of RabbitReceive: the delivery is acknowledged as it is received.
EarlyRabbitReceive ==
  /\ Kind = "rabbit" /\ conn /\ pc = "start"
  /\ \E m \in New : Oldest(m) /\ st' = [st EXCEPT ![m] = "done"] /\ hold' = <<m>>
  /\ pc' = "push"
  /\ UNCHANGED <<made, conn, pend, buf, flight, delivered, resume, breaks, crashes>>

RabbitReceive ==
  /\ Kind = "rabbit" /\ conn /\ pc = "start"
  /\ \E m \in New : Oldest(m) /\ st' = [st EXCEPT ![m] = "out"] /\ hold' = <<m>>
  /\ pc' = "push"
  /\ UNCHANGED <<made, conn, pend, buf, flight, delivered, resume, breaks, crashes>>

\* The push buffer says it is overloaded.
RabbitNack ==
  /\ Kind = "rabbit" /\ pc = "push"
  /\ st' = IF conn THEN [st EXCEPT ![hold[1]] = "new"] ELSE st
  /\ hold' = <<>> /\ pc' = "start"
  /\ UNCHANGED <<made, conn, pend, buf, flight, delivered, resume, breaks, crashes>>

RabbitPush ==
  /\ Kind = "rabbit" /\ pc = "push" /\ Len(buf) < Cap
  /\ buf' = buf \o hold /\ pc' = "ack"
  /\ UNCHANGED <<upstream, conn, hold, pend, flight, delivered, resume, breaks, crashes>>

RabbitAck ==
  /\ Kind = "rabbit" /\ pc = "ack"
  /\ st' = IF conn THEN [st EXCEPT ![hold[1]] = "done"] ELSE st
  /\ hold' = <<>> /\ pc' = "start"
  /\ UNCHANGED <<made, conn, pend, buf, flight, delivered, resume, breaks, crashes>>

RabbitBreak ==
  /\ Kind = "rabbit" /\ conn /\ Breaks
  /\ conn' = FALSE
  /\ st' = [m \in Messages |-> IF st[m] = "out" THEN "new" ELSE st[m]]
  /\ UNCHANGED <<made, pc, hold, pend, buf, flight, delivered, resume, crashes>>

---------------------------------------------------------------------------
(* PostgreSQL CDC: reading the slot's changes consumes them.  Each message   *)
(* is a transaction of its own, so a read ends at batch_size.                *)

PgConnect ==
  /\ Kind = "postgres" /\ ~conn /\ Asked
  /\ conn' = TRUE
  /\ UNCHANGED <<upstream, pc, hold, pend, buf, flight, delivered, resume, breaks, crashes>>

PgQuery ==
  /\ Kind = "postgres" /\ conn /\ Asked /\ New # {}
  /\ \E f \in Fetches : st' = Marked(ToSet(f), "done") /\ flight' = flight \o f
  /\ UNCHANGED <<made, conn, pc, hold, pend, buf, delivered, resume, breaks, crashes>>

\* The query fails before or after it has consumed the changes.
PgQueryFails ==
  /\ Kind = "postgres" /\ conn /\ Asked /\ Breaks
  /\ \E f \in Fetches : st' \in {st, Marked(ToSet(f), "done")}
  /\ conn' = FALSE
  /\ UNCHANGED <<made, pc, hold, pend, buf, flight, delivered, resume, crashes>>

---------------------------------------------------------------------------
(* MongoDB CDC: a reader task pushes each change into the push buffer and    *)
(* saves the resume token of every FlushEvery-th one.  The reader opens no   *)
(* second stream: conn stands for the one it was given.                      *)

MongoReceive ==
  /\ Kind = "mongo" /\ conn /\ pc = "start" /\ cursor < made
  /\ cursor' = cursor + 1 /\ hold' = <<cursor + 1>> /\ pc' = "push"
  /\ UNCHANGED <<upstream, conn, pend, buf, flight, delivered, unflushed, token, breaks, crashes>>

MongoPush ==
  /\ Kind = "mongo" /\ pc = "push" /\ Len(buf) < Cap
  /\ buf' = buf \o hold /\ hold' = <<>> /\ pc' = "flush"
  /\ UNCHANGED <<upstream, conn, pend, flight, delivered, resume, breaks, crashes>>

\* A failure to save is logged and counts as a flush.
MongoFlush ==
  /\ Kind = "mongo" /\ pc = "flush"
  /\ IF unflushed + 1 < FlushEvery
     THEN unflushed' = unflushed + 1 /\ UNCHANGED <<token, breaks>>
     ELSE /\ unflushed' = 0
          /\ \/ token' = cursor /\ UNCHANGED breaks
             \/ Breaks /\ UNCHANGED token
  /\ pc' = "start"
  /\ UNCHANGED <<upstream, conn, hold, pend, buf, flight, delivered, cursor, crashes>>

\* The stream yields an error: the reader backs off and asks it again.
MongoError ==
  /\ Kind = "mongo" /\ conn /\ pc = "start" /\ Breaks
  /\ UNCHANGED <<upstream, conn, pc, hold, pend, buf, flight, delivered, resume, crashes>>

\* The stream ends: the reader saves the token once more, or fails to, and is
\* over; nothing reconnects.
MongoEnds ==
  /\ Kind = "mongo" /\ conn /\ pc = "start" /\ Breaks
  /\ conn' = FALSE
  /\ token' \in {token, cursor}
  /\ UNCHANGED <<upstream, pc, hold, pend, buf, flight, delivered, cursor, unflushed, crashes>>

---------------------------------------------------------------------------

\* next_batch of a push source: what the buffer holds, up to a batch.
BufferedBatch ==
  /\ buf # <<>> /\ Asked
  /\ \E n \in 1..Batch :
       /\ n <= Len(buf)
       /\ flight' = flight \o SubSeq(buf, 1, n)
       /\ buf' = SubSeq(buf, n + 1, Len(buf))
  /\ UNCHANGED <<upstream, conn, pc, hold, pend, delivered, resume, breaks, crashes>>

\* The process ends and a new one connects.  The broker queues again what
\* RabbitMQ had out; a change stream without a token starts from now.
Crash ==
  /\ crashes < MaxCrashes /\ crashes' = crashes + 1
  /\ conn' = TRUE /\ pc' = "start" /\ hold' = <<>> /\ pend' = {} /\ buf' = <<>> /\ flight' = <<>>
  /\ st' = [m \in Messages |-> IF Kind = "rabbit" /\ st[m] = "out" THEN "new" ELSE st[m]]
  /\ cursor' = IF token = 0 THEN made ELSE token
  /\ unflushed' = 0
  /\ UNCHANGED <<made, delivered, token, breaks>>

Redis == RedisReconnect \/ RedisAck \/ RedisRead
Nats == NatsStream \/ NatsReceive \/ NatsAck \/ NatsReturn \/ NatsExpire
Rabbit == RabbitConnect \/ RabbitReceive \/ RabbitPush \/ RabbitAck
Postgres == PgConnect \/ PgQuery
Mongo == MongoReceive \/ MongoPush \/ MongoFlush
Source == Redis \/ Nats \/ Rabbit \/ Postgres \/ Mongo \/ BufferedBatch
Trouble ==
  RedisAckFails \/ RedisReadFails \/ NatsBreak \/ RabbitBreak \/ RabbitNack \/ PgQueryFails
  \/ MongoError \/ MongoEnds

Next == Produce \/ Deliver \/ Source \/ Trouble \/ Crash

Spec == Init /\ [][Next]_vars

\* The pipeline, the source task and the reader keep running, the server's
\* timer runs out, and connections come back where the code opens them again.
Fairness ==
  /\ WF_vars(Produce) /\ WF_vars(Deliver) /\ WF_vars(BufferedBatch)
  /\ WF_vars(Redis) /\ WF_vars(Postgres) /\ WF_vars(Mongo)
  /\ WF_vars(NatsStream) /\ WF_vars(NatsReceive) /\ WF_vars(NatsAck) /\ WF_vars(NatsReturn)
  /\ WF_vars(NatsExpire)
FairSpec == Spec /\ Fairness

---------------------------------------------------------------------------
(* Properties.                                                               *)

\* Types of the connectors' state.
TypeOK ==
  /\ st \in [Messages -> {"new", "out", "done"}] /\ made \in 0..N
  /\ conn \in BOOLEAN /\ pc \in {"start", "read", "ack", "push", "flush"}
  /\ hold \in Seq(Produced) /\ pend \subseteq Produced
  /\ buf \in Seq(Produced) /\ flight \in Seq(Produced) /\ delivered \subseteq Produced
  /\ cursor \in 0..made /\ unflushed \in 0..(FlushEvery - 1) /\ token \in 0..made
  /\ breaks \in 0..MaxBreaks /\ crashes \in 0..MaxCrashes

InProcess == ToSet(hold) \cup ToSet(buf) \cup ToSet(flight)

\* The messages the upstream system will still hand out.
Coming ==
  {m \in Produced :
     \/ Kind \in {"nats", "rabbit"} /\ st[m] # "done"
     \/ Kind \in {"redis", "postgres"} /\ st[m] = "new"
     \/ Kind = "mongo" /\ m > cursor}

Lost == Produced \ (delivered \cup InProcess \cup Coming)

\* No message falls between the upstream system and the pipeline: whatever
\* connections break, one that is not delivered is in the process or will be
\* handed out again.
NothingLost == Lost = {}

\* Redis and PostgreSQL do lose: at most one read's messages for every
\* connection that breaks, and for every crash what the pipeline had taken from
\* next_batch and not delivered.
LossBounded ==
  Cardinality(Lost) <= breaks * Batch + crashes * (Ring + Batch)

\* The saved token is never ahead of what was read, and what it skips has been
\* delivered or is in the process.
TokenCovered ==
  Kind = "mongo" /\ crashes = 0 =>
    token <= cursor /\ \A m \in 1..token : m \in delivered \cup InProcess

\* Every message the upstream system produces is delivered in the end.
AllDelivered == <>(delivered = Messages)
=============================================================================
