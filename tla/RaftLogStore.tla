---------------------------- MODULE RaftLogStore ----------------------------
(***************************************************************************)
(* L3RaftLogStore (aeon-cluster/src/log_store.rs): the vote, the markers   *)
(* and the log entries in an L3 store, with a cache of the markers and of  *)
(* the last log id in front of it.  Every operation writes the L3 store    *)
(* and then updates the cache; a crash, or a storage error, which openraft *)
(* answers by stopping the node, may come between any two steps, and open  *)
(* rebuilds the cache.                                                     *)
(*                                                                         *)
(* openraft calls one operation at a time, with arguments it derives from  *)
(* what the store told it, that is from the cache.                         *)
(***************************************************************************)
EXTENDS LogIds

CONSTANT PurgeAll  \* TRUE: a snapshot from the leader may purge the whole log

ASSUME StoreAssumption == PurgeAll \in BOOLEAN

VARIABLES
  dVote, dCommitted, dPurged, dLog,   \* the keys of the L3 store
  cVote, cCommitted, cPurged, cLast,  \* Cache
  open,                               \* the store is open
  op                                  \* the operation under way

disk == <<dVote, dCommitted, dPurged, dLog>>
cache == <<cVote, cCommitted, cPurged, cLast>>
vars == <<dVote, dCommitted, dPurged, dLog, cVote, cCommitted, cPurged, cLast, open, op>>

NoOp == [kind |-> "none", at |-> "none", id |-> NoLogId]
Kinds == {"none", "vote", "committed", "append", "truncate", "purge"}
Places == {"none", "write", "cache", "look", "locked"}

TypeOK ==
  /\ dVote \in 0 .. MaxTerm /\ cVote \in 0 .. MaxTerm
  /\ dCommitted \in LogIds /\ cCommitted \in LogIds
  /\ dPurged \in LogIds /\ cPurged \in LogIds
  /\ dLog \in Logs /\ cLast \in LogIds
  /\ open \in BOOLEAN
  /\ op \in [kind : Kinds, at : Places, id : LogIds]

Init ==
  /\ dVote = 0 /\ dCommitted = NoLogId /\ dPurged = NoLogId
  /\ dLog = [i \in Index |-> 0]
  /\ cVote = 0 /\ cCommitted = NoLogId /\ cPurged = NoLogId /\ cLast = NoLogId
  /\ open = TRUE /\ op = NoOp

---------------------------------------------------------------------------
(* The calls openraft makes.                                                *)

Idle == open /\ op = NoOp
Begins(kind, id) ==
  op' = [kind |-> kind, at |-> "write", id |-> id] /\ UNCHANGED <<disk, cache, open>>
InStep(kind, at) == open /\ op.kind = kind /\ op.at = at
Then(at) == op' = [op EXCEPT !.at = at]

\* get_log_state
LastLogId == LogEnd(cLast, cPurged)

VoteBegin(v) ==
  /\ Idle /\ v >= cVote
  /\ Begins("vote", [index |-> 0, term |-> v])

CommittedBegin(c) ==
  /\ Idle /\ c.index \in cCommitted.index .. LastLogId.index
  /\ c.index = 0 => c = NoLogId
  /\ Begins("committed", c)

AppendBegin(l) ==
  /\ Idle /\ l.index > LastLogId.index /\ l.term >= LastLogId.term /\ l.term # 0
  /\ Begins("append", l)

TruncateBegin(k) ==
  /\ Idle /\ k > cCommitted.index /\ k <= cLast.index
  /\ Begins("truncate", [index |-> k, term |-> 0])

\* Below the last entry after a snapshot of one's own; anything after one
\* received from the leader.
PurgeBegin(l) ==
  /\ Idle /\ l.index > cPurged.index /\ l.term # 0
  /\ \/ l.index < cLast.index /\ l.index <= cCommitted.index /\ l.term = dLog[l.index]
     \/ PurgeAll /\ l.term >= LastLogId.term
  /\ Begins("purge", l)

---------------------------------------------------------------------------
(* save_vote, save_committed, append, truncate, purge.                      *)

VoteWrite ==
  /\ InStep("vote", "write") /\ Then("cache")
  /\ dVote' = op.id.term
  /\ UNCHANGED <<dCommitted, dPurged, dLog, cache, open>>

VoteCached ==
  /\ InStep("vote", "cache") /\ op' = NoOp
  /\ cVote' = op.id.term
  /\ UNCHANGED <<disk, cCommitted, cPurged, cLast, open>>

CommittedWrite ==
  /\ InStep("committed", "write") /\ Then("cache")
  /\ dCommitted' = op.id
  /\ UNCHANGED <<dVote, dPurged, dLog, cache, open>>

CommittedCached ==
  /\ InStep("committed", "cache") /\ op' = NoOp
  /\ cCommitted' = op.id
  /\ UNCHANGED <<disk, cVote, cPurged, cLast, open>>

\* The whole batch of entries is one write_batch.
AppendWrite ==
  /\ InStep("append", "write") /\ Then("cache")
  /\ dLog' = Extended(dLog, LastLogId, op.id)
  /\ UNCHANGED <<dVote, dCommitted, dPurged, cache, open>>

AppendCached ==
  /\ InStep("append", "cache") /\ op' = NoOp
  /\ cLast' = IF cLast.index >= op.id.index THEN cLast ELSE op.id
  /\ UNCHANGED <<disk, cVote, cCommitted, cPurged, open>>

\* Mutant of TruncateWrite: the entry before is dropped too.
TruncateWriteBefore ==
  /\ InStep("truncate", "write") /\ Then("cache")
  /\ dLog' = CutFrom(dLog, op.id.index - 1)
  /\ UNCHANGED <<dVote, dCommitted, dPurged, cache, open>>

TruncateWrite ==
  /\ InStep("truncate", "write") /\ Then("cache")
  /\ dLog' = CutFrom(dLog, op.id.index)
  /\ UNCHANGED <<dVote, dCommitted, dPurged, cache, open>>

\* The last log id is taken from a scan of what remains.
TruncateCached ==
  /\ InStep("truncate", "cache") /\ op' = NoOp
  /\ cLast' \in {l \in LogIds : IsLast(l, dLog)}
  /\ UNCHANGED <<disk, cVote, cCommitted, cPurged, open>>

\* Mutant of PurgeWrite: the marker is not in the batch.
PurgeWriteNoMarker ==
  /\ InStep("purge", "write") /\ Then("cache")
  /\ dLog' = PurgedTo(dLog, op.id)
  /\ UNCHANGED <<dVote, dCommitted, dPurged, cache, open>>

\* The deletions and the marker are one write_batch.
PurgeWrite ==
  /\ InStep("purge", "write") /\ Then("cache")
  /\ dLog' = PurgedTo(dLog, op.id)
  /\ dPurged' = op.id
  /\ UNCHANGED <<dVote, dCommitted, cache, open>>

PurgeCached ==
  /\ InStep("purge", "cache") /\ Then("look")
  /\ cPurged' = op.id
  /\ UNCHANGED <<disk, cVote, cCommitted, cLast, open>>

\* Mutant of PurgeLook: the write lock is asked for whatever was purged.
PurgeLookAny ==
  /\ InStep("purge", "look")
  /\ \/ cLast.index = 0 /\ op' = NoOp
     \/ cLast.index # 0 /\ Then("locked")
  /\ UNCHANGED <<disk, cache, open>>

\* When the log is empty now the cached last log id is to be cleared: purge
\* asks for the write lock inside an if-let that still holds the read guard,
\* so it waits for itself.
PurgeLook ==
  /\ InStep("purge", "look")
  /\ \/ (cLast.index = 0 \/ cLast.index > op.id.index) /\ op' = NoOp
     \/ cLast.index # 0 /\ cLast.index <= op.id.index /\ Then("locked")
  /\ UNCHANGED <<disk, cache, open>>

---------------------------------------------------------------------------

Crash ==
  /\ open
  /\ open' = FALSE /\ op' = NoOp
  /\ cVote' = 0 /\ cCommitted' = NoLogId /\ cPurged' = NoLogId /\ cLast' = NoLogId
  /\ UNCHANGED disk

Open ==
  /\ ~open /\ open' = TRUE
  /\ cVote' = dVote /\ cCommitted' = dCommitted /\ cPurged' = dPurged
  /\ cLast' \in {l \in LogIds : IsLast(l, dLog)}
  /\ UNCHANGED <<disk, op>>

Step ==
  \/ VoteWrite \/ VoteCached \/ CommittedWrite \/ CommittedCached
  \/ AppendWrite \/ AppendCached \/ TruncateWrite \/ TruncateCached
  \/ PurgeWrite \/ PurgeCached \/ PurgeLook

Next ==
  \/ \E v \in 0 .. MaxTerm : VoteBegin(v)
  \/ \E l \in LogIds : CommittedBegin(l) \/ AppendBegin(l) \/ PurgeBegin(l)
  \/ \E k \in Index : TruncateBegin(k)
  \/ Step \/ Crash \/ Open

Spec == Init /\ [][Next]_vars

\* An operation under way is polled.
FairSpec == Spec /\ WF_vars(Step)

---------------------------------------------------------------------------
(* Properties.                                                              *)

\* "All writes update both the L3 backend and this cache": between two
\* operations the cache says what the L3 store holds.
Coherent ==
  Idle => /\ cVote = dVote /\ cCommitted = dCommitted /\ cPurged = dPurged
          /\ IsLast(cLast, dLog)

\* The entries are exactly those from the purge marker to the last one,
\* through truncations, purges and crashes between two writes.
NoGap ==
  \A i, j \in Index :
    (i <= j /\ dLog[j] # 0) => (dLog[i] # 0 <=> i > dPurged.index)

\* A vote that was saved is never replaced by an older one, across restarts.
VoteNeverRegresses == [][dVote' >= dVote]_vars

\* A committed entry changes only by being purged.
CommittedKept ==
  [][\A i \in Index : i <= dCommitted.index => (dLog'[i] = dLog[i] \/ i <= dPurged'.index)]_vars

\* The store does what the in-memory store does, one step per operation.
MemLog == INSTANCE RaftLog
            WITH vote <- dVote, committed <- dCommitted, purged <- dPurged, log <- dLog
Implements == MemLog!Spec

\* Every operation returns, or the node stops.
Returns == (op.kind # "none") ~> (op.kind = "none")
=============================================================================
