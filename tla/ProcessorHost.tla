--------------------------- MODULE ProcessorHost ---------------------------
(***************************************************************************)
(* The hosts of out-of-process processors: sessions that connect, are      *)
(* authorized and routed to; batches in flight on a session; the stash     *)
(* that keeps them for a reconnect and replays them on the next session.   *)
(*                                                                         *)
(* Sources: aeon-engine transport/session.rs, transport/websocket_host.rs  *)
(* (T4), transport/webtransport_host.rs (T3), identity_store.rs,           *)
(* processor_auth.rs.  One pipeline and one processor identity; every      *)
(* session is assigned all partitions.  A call is one call_batch with a    *)
(* batch of its own; the processor answers requests in any order.          *)
(*                                                                         *)
(* A connection is up, broken (its messages are lost, nobody knows) or     *)
(* down (the host's I/O has ended).  The lookups of a call, which touch    *)
(* three maps, are one step; so are the writes of an accepted session.     *)
(***************************************************************************)
EXTENDS Integers, Sequences, FiniteSets, SequencesExt

CONSTANTS
  T3,            \* WebTransport host: one data stream per partition
  Calls,
  Partitions,
  PartOf,        \* PartOf[c]: partition of the first event of the batch
  MaxSessions,   \* bound: connections
  Cap,           \* max_inflight_batches
  MaxInstances,  \* max_instances of the identity
  MaxDrains,     \* bound: drains
  MaxRevokes     \* bound: revocations of the identity

Sessions == 1 .. MaxSessions

VARIABLES
  sess,     \* sess[s]: the AwppSession and the task that runs it
  count,    \* active connections of the identity
  revoked,  \* the identity's revoked_at is set
  route,    \* routing: partition to session, 0 for none
  stream,   \* data_streams (T3): partition to the session that opened it, or 0
  bucket,   \* stashed batches of a partition, in order
  call,
  budget

vars == <<sess, count, revoked, route, stream, bucket, call, budget>>

NoSession == [pc |-> "none", conn |-> "none", closed |-> FALSE, next |-> 1,
              pending |-> [i \in {} |-> 0], left |-> {},
              todo |-> [p \in Partitions |-> <<>>], req |-> {}, ans |-> {}]
NewCall == [pc |-> "new", sess |-> 0, link |-> 0, id |-> 0, nr |-> 0, got |-> {}]
Stages == {"none", "auth", "replay", "read", "stashed", "gone"}
Done == {"ok", "err"}

Init ==
  /\ sess = [s \in Sessions |-> NoSession]
  /\ count = 0 /\ revoked = FALSE
  /\ route = [p \in Partitions |-> 0]
  /\ stream = [p \in Partitions |-> 0]
  /\ bucket = [p \in Partitions |-> <<>>]
  /\ call = [c \in Calls |-> NewCall]
  /\ budget = [drains |-> MaxDrains, revokes |-> MaxRevokes]

(* An InflightBatch keeps the permit of the session it came from until its   *)
(* turn to be submitted again, or until it is failed.                        *)
Rest(q) == SubSeq(q, 2, Len(q))
Stashed(s) ==
  {b \in UNION ({ToSet(bucket[p]) : p \in Partitions}
           \cup {ToSet(Rest(sess[t].todo[p])) : t \in Sessions, p \in Partitions}) :
     b.from = s}
Pending(s) == DOMAIN sess[s].pending
Permits(s) == Cap - Cardinality(Pending(s)) - Cardinality(Stashed(s))

With(f, i, v) == [j \in DOMAIN f \cup {i} |-> IF j = i THEN v ELSE f[j]]
Without(f, i) == [j \in DOMAIN f \ {i} |-> f[j]]

(* The result reaches the caller unless it has given up waiting.             *)
Resolve(C, pc) ==
  call' = [c \in Calls |-> IF c \in C /\ call[c].pc \in {"sending", "waiting"}
                           THEN [call[c] EXCEPT !.pc = pc] ELSE call[c]]

---------------------------------------------------------------------------
(* A processor connects.                                                     *)

\* handshake up to the checks: get_by_public_key finds active identities
\* only, check_authorization compares the connections counted so far.
Authorize(s) ==
  /\ sess[s].pc = "none" /\ \A t \in 1 .. s - 1 : sess[t].pc # "none"
  /\ ~revoked /\ count < MaxInstances
  /\ sess' = [sess EXCEPT ![s].pc = "auth", ![s].conn = "up"]
  /\ UNCHANGED <<count, revoked, route, stream, bucket, call, budget>>

\* Accepted is sent, the connection counted, the session entered and routed.
\* The WebSocket host replays before it reads; the WebTransport host waits
\* for data streams.
Accept(s) ==
  /\ sess[s].pc = "auth"
  /\ count' = count + 1
  /\ sess' = [sess EXCEPT ![s].pc = IF T3 THEN "read" ELSE "replay",
                          ![s].left = Partitions]
  /\ route' = [p \in Partitions |-> s]
  /\ UNCHANGED <<revoked, stream, bucket, call, budget>>

\* The handshake fails: its peer is gone, or the timeout passes.
HandshakeFails(s) ==
  /\ sess[s].pc = "auth"
  /\ sess' = [sess EXCEPT ![s].pc = "gone", ![s].conn = "down"]
  /\ UNCHANGED <<count, revoked, route, stream, bucket, call, budget>>

\* Mutant of TakeStash: the bucket is read and not removed.
TakeStashCopied(s, p) ==
  /\ ~T3 /\ sess[s].pc = "replay" /\ p \in sess[s].left
  /\ \A q \in Partitions : sess[s].todo[q] = <<>>
  /\ sess' = [sess EXCEPT ![s].left = @ \ {p}, ![s].todo[p] = bucket[p]]
  /\ UNCHANGED <<count, revoked, route, stream, bucket, call, budget>>

\* ReplayOrchestrator::take for the next assigned partition, once the batches
\* of the one before are submitted (T4).
TakeStash(s, p) ==
  /\ ~T3 /\ sess[s].pc = "replay" /\ p \in sess[s].left
  /\ \A q \in Partitions : sess[s].todo[q] = <<>>
  /\ sess' = [sess EXCEPT ![s].left = @ \ {p}, ![s].todo[p] = bucket[p]]
  /\ bucket' = [bucket EXCEPT ![p] = <<>>]
  /\ UNCHANGED <<count, revoked, route, stream, call, budget>>

\* The peer opens a data stream: it is entered, the stash taken and a task
\* spawned to replay it (T3).
OpenStream(s, p) ==
  /\ T3 /\ sess[s].pc = "read" /\ sess[s].conn = "up" /\ p \in sess[s].left
  /\ sess' = [sess EXCEPT ![s].left = @ \ {p}, ![s].todo[p] = bucket[p]]
  /\ stream' = [stream EXCEPT ![p] = s]
  /\ bucket' = [bucket EXCEPT ![p] = <<>>]
  /\ UNCHANGED <<count, revoked, route, call, budget>>

\* One batch of ws_replay_batches or wt_replay_batches: a new batch_id on the
\* new session, a forwarder to the caller.  A batch that cannot be sent fails
\* its caller and frees its slot.
Resubmit(s, p) ==
  LET b == Head(sess[s].todo[p])
      id == sess[s].next
      S == [sess[s] EXCEPT !.todo[p] = Tail(@), !.next = @ + 1] IN
  /\ sess[s].todo[p] # <<>> /\ Permits(s) > 0
  /\ IF sess[s].conn = "down"
     THEN /\ sess' = [sess EXCEPT ![s] = S]
          /\ Resolve({b.of}, "err")
     ELSE /\ sess' = [sess EXCEPT ![s] =
               [S EXCEPT !.pending = With(@, id, b.of),
                         !.req = IF sess[s].conn = "up"
                                 THEN @ \cup {[id |-> id, of |-> b.of]} ELSE @]]
          /\ UNCHANGED call
  /\ UNCHANGED <<count, revoked, route, stream, bucket, budget>>

\* The WebSocket host starts its read loop.
StartReading(s) ==
  /\ sess[s].pc = "replay" /\ sess[s].left = {}
  /\ \A p \in Partitions : sess[s].todo[p] = <<>>
  /\ sess' = [sess EXCEPT ![s].pc = "read"]
  /\ UNCHANGED <<count, revoked, route, stream, bucket, call, budget>>

---------------------------------------------------------------------------
(* The processor and its connection.                                         *)

Process(s) ==
  /\ sess[s].conn = "up"
  /\ \E r \in sess[s].req :
       sess' = [sess EXCEPT ![s].req = @ \ {r}, ![s].ans = @ \cup {r}]
  /\ UNCHANGED <<count, revoked, route, stream, bucket, call, budget>>

\* What was under way is lost.
Break(s) ==
  /\ sess[s].conn = "up" /\ sess[s].pc \notin {"none", "auth"}
  /\ sess' = [sess EXCEPT ![s].conn = "broken", ![s].req = {}]
  /\ UNCHANGED <<count, revoked, route, stream, bucket, call, budget>>

\* The host finds out: the pump ends (T4), or accept_bi and the readers of
\* the data streams fail (T3), each of which removes its key.
PumpEnds(s) ==
  /\ sess[s].conn = "broken"
  /\ sess' = [sess EXCEPT ![s].conn = "down"]
  /\ stream' = [p \in Partitions |->
                  IF T3 /\ p \notin sess[s].left THEN 0 ELSE stream[p]]
  /\ UNCHANGED <<count, revoked, route, bucket, call, budget>>

\* complete_batch with the answer, in the read loop (T4) or the reader of a
\* data stream (T3).  An unknown batch_id is dropped.
ReadAnswer(s) ==
  \E r \in sess[s].ans :
    /\ sess[s].pc = "read"
    /\ sess' = [sess EXCEPT ![s].ans = @ \ {r},
                            ![s].pending = Without(@, r.id)]
    /\ IF r.id \in Pending(s)
       THEN LET c == sess[s].pending[r.id] IN
            call' = IF call[c].pc \in {"sending", "waiting"}
                    THEN [call EXCEPT ![c].pc = "ok", ![c].got = {r.of}] ELSE call
       ELSE UNCHANGED call
    /\ UNCHANGED <<count, revoked, route, stream, bucket, budget>>

\* The pending batches of partition p, in ascending batch_id.
Drained(s, p) ==
  LET ids == {i \in Pending(s) : PartOf[sess[s].pending[i]] = p} IN
  {[k \in 1 .. Cardinality(ids) |-> [of |-> sess[s].pending[f[k]], from |-> s]] :
     f \in {g \in [1 .. Cardinality(ids) -> ids] :
              \A j, k \in 1 .. Cardinality(ids) : j < k => g[j] < g[k]}}

\* The read loop is over: ReplayOrchestrator::stash drains the batches in
\* ascending batch_id and appends each to the bucket of its partition.
EndRead(s) ==
  /\ sess[s].pc = "read" /\ sess[s].conn = "down" /\ (T3 \/ sess[s].ans = {})
  /\ sess' = [sess EXCEPT ![s].pc = "stashed", ![s].pending = [i \in {} |-> 0],
                          ![s].ans = {}]
  /\ \E q \in [Partitions -> UNION {Drained(s, p) : p \in Partitions}] :
       /\ \A p \in Partitions : q[p] \in Drained(s, p)
       /\ bucket' = [p \in Partitions |-> bucket[p] \o q[p]]
  /\ UNCHANGED <<count, revoked, route, stream, call, budget>>

\* AwppSession::close and the rest of the clean-up: pending batches are
\* cancelled, and the partitions' entries removed, whoever's they are.
Cleanup(s) ==
  /\ sess[s].pc = "stashed"
  /\ sess' = [sess EXCEPT ![s].pc = "gone", ![s].closed = TRUE,
                          ![s].pending = [i \in {} |-> 0]]
  /\ Resolve({sess[s].pending[i] : i \in Pending(s)}, "err")
  /\ route' = [p \in Partitions |-> 0]
  /\ stream' = [p \in Partitions |-> 0]
  /\ count' = count - 1
  /\ UNCHANGED <<revoked, bucket, budget>>

\* The sweep finds a bucket past its window, or a session takes it too late.
Expire(p) ==
  /\ bucket[p] # <<>>
  /\ bucket' = [bucket EXCEPT ![p] = <<>>]
  /\ Resolve({b.of : b \in ToSet(bucket[p])}, "err")
  /\ UNCHANGED <<sess, count, revoked, route, stream, budget>>

---------------------------------------------------------------------------
(* call_batch.                                                               *)

\* The lookups: routing, session, then socket (T4) or data stream (T3).
Lookup(c) ==
  LET p == PartOf[c] IN
  /\ call[c].pc = "new"
  /\ call' = [call EXCEPT ![c] =
       IF route[p] = 0 \/ sess[route[p]].pc = "gone" \/ (T3 /\ stream[p] = 0)
       THEN [@ EXCEPT !.pc = "err"]
       ELSE [@ EXCEPT !.pc = "routed", !.sess = route[p],
                      !.link = IF T3 THEN stream[p] ELSE route[p]]]
  /\ UNCHANGED <<sess, count, revoked, route, stream, bucket, budget>>

\* start_batch: a permit, a batch_id, an entry in pending.
StartBatch(c) ==
  LET s == call[c].sess IN
  /\ call[c].pc = "routed" /\ Permits(s) > 0
  /\ sess' = [sess EXCEPT ![s].next = @ + 1,
                          ![s].pending = With(@, sess[s].next, c)]
  /\ call' = [call EXCEPT ![c].pc = "sending", ![c].id = sess[s].next,
                ![c].nr = 1 + Cardinality({d \in Calls : call[d].nr > 0})]
  /\ UNCHANGED <<count, revoked, route, stream, bucket, budget>>

\* The request is sent; an error returns at once and leaves the entry.
SendRequest(c) ==
  LET l == call[c].link IN
  /\ call[c].pc = "sending"
  /\ call' = [call EXCEPT ![c].pc = IF sess[l].conn = "down" THEN "err" ELSE "waiting"]
  /\ sess' = IF sess[l].conn = "up"
             THEN [sess EXCEPT ![l].req = @ \cup {[id |-> call[c].id, of |-> c]}]
             ELSE sess
  /\ UNCHANGED <<count, revoked, route, stream, bucket, budget>>

\* The caller's own timer: its entry, if the session still has it, goes too.
CallTimeout(c) ==
  /\ call[c].pc = "waiting"
  /\ call' = [call EXCEPT ![c].pc = "err"]
  /\ sess' = [sess EXCEPT ![call[c].sess].pending =
                Without(@, call[c].id)]
  /\ UNCHANGED <<count, revoked, route, stream, bucket, budget>>

\* The timer of a forwarder: the entry it waits for, if it is still there.
ForwarderTimeout(s, i) ==
  LET c == sess[s].pending[i] IN
  /\ i \in Pending(s) /\ ~(call[c].sess = s /\ call[c].id = i)
  /\ sess' = [sess EXCEPT ![s].pending = Without(@, i)]
  /\ Resolve({c}, "err")
  /\ UNCHANGED <<count, revoked, route, stream, bucket, budget>>

---------------------------------------------------------------------------
(* The host's other requests.                                                *)

\* ProcessorTransport::drain closes every session in the map.
Drain ==
  LET open == {s \in Sessions : sess[s].pc \in {"replay", "read", "stashed"}} IN
  /\ budget.drains > 0
  /\ budget' = [budget EXCEPT !.drains = @ - 1]
  /\ sess' = [s \in Sessions |-> IF s \in open
                THEN [sess[s] EXCEPT !.closed = TRUE, !.pending = [i \in {} |-> 0]]
                ELSE sess[s]]
  /\ Resolve(UNION {{sess[s].pending[i] : i \in Pending(s)} : s \in open}, "err")
  /\ UNCHANGED <<count, revoked, route, stream, bucket>>

\* ProcessorIdentityStore::revoke.
Revoke ==
  /\ ~revoked /\ budget.revokes > 0
  /\ revoked' = TRUE
  /\ budget' = [budget EXCEPT !.revokes = @ - 1]
  /\ UNCHANGED <<sess, count, route, stream, bucket, call>>

SessionStep(s) ==
  \/ Accept(s) \/ StartReading(s) \/ ReadAnswer(s)
  \/ PumpEnds(s) \/ EndRead(s) \/ Cleanup(s)
  \/ \E p \in Partitions : TakeStash(s, p) \/ Resubmit(s, p)

CallStep(c) == Lookup(c) \/ StartBatch(c) \/ SendRequest(c)

Next ==
  \/ \E s \in Sessions :
       \/ SessionStep(s) \/ Authorize(s) \/ HandshakeFails(s)
       \/ Process(s) \/ Break(s)
       \/ \E p \in Partitions : OpenStream(s, p)
       \/ \E i \in Pending(s) : ForwarderTimeout(s, i)
  \/ \E c \in Calls : CallStep(c) \/ CallTimeout(c)
  \/ \E p \in Partitions : Expire(p)
  \/ Drain \/ Revoke

Spec == Init /\ [][Next]_vars

(* Tasks run, timers fire, the sweep runs.  Nobody has to connect, and a     *)
(* processor need not answer.                                                *)
FairSpec ==
  /\ Spec
  /\ \A s \in Sessions :
       /\ WF_vars(SessionStep(s))
       /\ WF_vars(\E i \in Pending(s) : ForwarderTimeout(s, i))
  /\ \A c \in Calls : SF_vars(CallStep(c)) /\ WF_vars(CallTimeout(c))
  /\ \A p \in Partitions : WF_vars(Expire(p))
---------------------------------------------------------------------------
(* Properties.                                                               *)

\* Types of the host's state.
TypeOK ==
  /\ \A s \in Sessions :
       /\ sess[s].pc \in Stages /\ sess[s].conn \in {"none", "up", "broken", "down"}
       /\ \A i \in Pending(s) : i < sess[s].next /\ sess[s].pending[i] \in Calls
       /\ sess[s].req \cup sess[s].ans \subseteq [id : Nat, of : Calls]
  /\ count \in 0 .. MaxSessions /\ revoked \in BOOLEAN
  /\ route \in [Partitions -> 0 .. MaxSessions]
  /\ stream \in [Partitions -> 0 .. MaxSessions]
  /\ \A c \in Calls : call[c].pc \in {"new", "routed", "sending", "waiting"} \cup Done

\* "When the response arrives, the transport calls complete_batch to resolve
\* the waiting caller" (session.rs): what a caller gets are the outputs of
\* its own batch, although batch ids start over on every session and a
\* replayed batch changes its id.
AnswerIsOwn == \A c \in Calls : call[c].got \subseteq {c}

\* "The semaphore bounds the number of concurrently outstanding batches per
\* session" (session.rs), the stashed ones it still pays for included.
InflightBounded ==
  \A s \in Sessions : Cardinality(Pending(s)) + Cardinality(Stashed(s)) <= Cap

\* "the original pipeline callers remain parked on their oneshot receivers
\* and get the replayed response transparently" (session.rs): whoever waits
\* is held by exactly one entry, on a session, in the stash or about to be
\* submitted again, however often the processor reconnects.
Holders(c) ==
  LET In(q) == {k \in DOMAIN q : q[k].of = c} IN
  (UNION {{<<0, p, k>> : k \in In(bucket[p])} : p \in Partitions})
    \cup (UNION {{<<s, p, k>> : k \in In(sess[s].todo[p])} :
                  s \in Sessions, p \in Partitions})
    \cup (UNION {{<<s, i>> : i \in {j \in Pending(s) : sess[s].pending[j] = c}} :
                  s \in Sessions})
WaiterHeld ==
  \A c \in Calls : call[c].pc \in {"sending", "waiting"} => Cardinality(Holders(c)) = 1

\* The connections counted against max_instances are the sessions between
\* acceptance and clean-up, so that none is counted for ever.
CountExact ==
  count = Cardinality({s \in Sessions : sess[s].pc \in {"replay", "read", "stashed"}})

\* What the callers of the WebSocket host rely on.
CallersServed == AnswerIsOwn /\ InflightBounded /\ WaiterHeld /\ CountExact

\* "current connected instances < identity.max_instances" on every new
\* connection (docs/FOUR-TIER-PROCESSORS.md).
InstanceLimit == count <= MaxInstances

\* "Kill T3/T4 processor, verify reconnection and resume": a partition whose
\* processor is connected and being read can be called.
Reachable ==
  \A s \in Sessions :
    sess[s].pc = "read" /\ sess[s].conn = "up" =>
      \A p \in Partitions : route[p] # 0

\* The host "stashes in-flight batches on disconnect and replays them if a
\* matching identity reconnects": nothing waits in the stash for a processor
\* that has already reconnected and been replayed to.
NotStranded ==
  \A p \in Partitions :
    bucket[p] # <<>> =>
      ~\E s \in Sessions : sess[s].pc = "read" /\ sess[s].conn = "up" /\ p \notin sess[s].left

\* "Graceful drain - stop accepting new batches, flush in-flight work"
\* (ProcessorTransport::drain): a drain fails no caller.
DrainFlushes ==
  [][budget'.drains < budget.drains =>
       \A c \in Calls : call[c].pc = "waiting" => call'[c].pc # "err"]_vars

\* Callers "get their response transparently" from a replay: the replay never
\* waits for a permit that only answers already received can free.
ReplayNotBlocked ==
  \A s \in Sessions :
    ~(/\ sess[s].pc = "replay" /\ \E p \in Partitions : sess[s].todo[p] # <<>>
      /\ Permits(s) = 0 /\ Pending(s) # {}
      /\ Pending(s) \subseteq {r.id : r \in sess[s].ans})

\* "replay preserves original submission order": a batch is not submitted
\* again behind one that was submitted after it.
ReplayInOrder ==
  [][\A s \in Sessions, p \in Partitions :
       sess'[s].todo[p] # sess[s].todo[p] /\ sess[s].todo[p] # <<>> =>
         LET c == Head(sess[s].todo[p]).of IN
         \A i \in Pending(s) : PartOf[sess[s].pending[i]] = p
                                 => call[sess[s].pending[i]].nr < call[c].nr]_vars

\* "Active connections using the revoked key are terminated immediately"
\* (docs/FOUR-TIER-PROCESSORS.md).
RevokedDisconnected ==
  revoked ~> \A s \in Sessions : sess[s].pc # "read" \/ sess[s].closed

\* start_batch "suspends until an earlier batch completes", and a processor
\* that is gone does not park a caller for ever: every call returns.
CallReturns == \A c \in Calls : (call[c].pc # "new") ~> (call[c].pc \in Done)
=============================================================================
