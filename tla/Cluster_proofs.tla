--------------------------- MODULE Cluster_proofs ---------------------------
(***************************************************************************)
(* What the cluster's nodes keep and agree on, each component for every    *)
(* value of its constants: the L3 log store, the bulk sync of a            *)
(* partition's segments, the drains and rebalances of the partition table, *)
(* joins and removals, and the replicated registry of pipelines.           *)
(*                                                                         *)
(* The L3 log store comes first, for any bound on indices and terms: its   *)
(* invariants, what its steps never do, and that it implements the         *)
(* in-memory store.                                                        *)
(***************************************************************************)
EXTENDS RaftLogStore, Sequences, WellFoundedInduction, TLAPS

CONSTANTS
  \* SegmentTransfer
  Nodes, NoNode, Encrypted, SegmentRecs, ChunkLen, MaxSeq, MaxTransfers, MaxFails, MaxGcs,
  MaxRestarts,
  \* BulkTransfer
  Partitions, Requests, MaxChanges,
  \* ClusterMembership
  InitialMembers, Joiner, Seeds, KeepsState, Slots, Asked, MaxOps, MaxElections, MaxLog,
  \* RegistryReplication
  Processors, Steps, First, Commands, MayFail, MayEnd

VARIABLES
  owner, files, metas, store, writer, drive, budget,
  table, members, job, drives, changes, fails,
  voters, learners, leader, log, applied, ops, join, removed, failed,
  purged, has, snap, slot, busy, pipe, task, meta, restarts, strayed, parted

Seg == INSTANCE SegmentTransfer
Bulk == INSTANCE BulkTransfer
Mem == INSTANCE ClusterMembership WITH Kinds <- Asked
Reg == INSTANCE RegistryReplication

\* A cached value lags the disk only while the operation that wrote it is at
\* its cache update.
CacheFollows ==
  open =>
    /\ IF InStep("vote", "cache") THEN dVote = op.id.term ELSE cVote = dVote
    /\ IF InStep("committed", "cache") THEN dCommitted = op.id ELSE cCommitted = dCommitted
    /\ IF InStep("purge", "cache") THEN dPurged = op.id ELSE cPurged = dPurged
    /\ CASE InStep("append", "cache") -> IsLast(op.id, dLog) /\ cLast.index < op.id.index
         [] InStep("truncate", "cache") -> TRUE
         [] op.kind = "purge" /\ op.at # "write" ->
              (cLast.index = 0 \/ cLast.index > op.id.index) => IsLast(cLast, dLog)
         [] OTHER -> IsLast(cLast, dLog)

\* The arguments openraft gave still fit when they are written.
ArgumentsFit ==
  /\ ~open => op = NoOp
  /\ InStep("vote", "write") => op.id.term >= dVote
  /\ InStep("committed", "write") =>
       op.id.index >= dCommitted.index /\ op.id.index <= LastLogId.index
  /\ InStep("append", "write") => op.id.index > LastLogId.index /\ op.id.term # 0
  /\ InStep("truncate", "write") => op.id.index > dCommitted.index
  /\ InStep("purge", "write") => op.id.index > dPurged.index

\* The last committed entry is in the log or purged.
CommittedHeld == dCommitted.index <= dPurged.index \/ dLog[dCommitted.index] # 0

IInv == TypeOK /\ CacheFollows /\ ArgumentsFit /\ CommittedHeld /\ NoGap

-----------------------------------------------------------------------------
(* Lemmas.                                                                  *)

USE LogIdsAssumption, StoreAssumption

\* The empty log id is one, and the idle operation is an operation.
LEMMA NoneType == NoLogId \in LogIds /\ NoOp \in [kind : Kinds, at : Places, id : LogIds]
<1>1. NoLogId \in LogIds
  BY DEF NoLogId, LogIds
<1> QED  BY <1>1 DEF NoOp, Kinds, Places

\* Cutting a log leaves a log.
LEMMA CutType ==
  ASSUME NEW lg \in Logs, NEW k, NEW l
  PROVE  CutFrom(lg, k) \in Logs /\ PurgedTo(lg, l) \in Logs
  BY DEF CutFrom, PurgedTo, Logs

\* Type correctness is inductive by itself.
LEMMA TypeStep == TypeOK /\ [Next]_vars => TypeOK'
<1> SUFFICES ASSUME TypeOK, [Next]_vars PROVE TypeOK'
  OBVIOUS
<1>1. CASE \E v \in 0 .. MaxTerm : VoteBegin(v)
  BY <1>1 DEF VoteBegin, TypeOK, Idle, Begins, LogIds, Logs, Kinds, Places, NoOp, disk,
        cache, Index, NoLogId
<1>2. CASE \E l \in LogIds : CommittedBegin(l)
  BY <1>2 DEF CommittedBegin, TypeOK, Idle, LastLogId, NoLogId, Begins, LogIds, Logs,
        Kinds, Places, NoOp, LogEnd, disk, cache, Index
<1>3. CASE \E l \in LogIds : AppendBegin(l)
  BY <1>3 DEF AppendBegin, TypeOK, Idle, LastLogId, Begins, LogIds, Logs, Kinds, Places,
        NoOp, LogEnd, disk, cache, Index, NoLogId
<1>4. CASE \E l \in LogIds : PurgeBegin(l)
  BY <1>4 DEF PurgeBegin, TypeOK, Idle, LastLogId, Begins, LogIds, Logs, Kinds, Places,
        NoOp, LogEnd, disk, cache, Index, NoLogId
<1>5. CASE \E k \in Index : TruncateBegin(k)
  BY <1>5 DEF TruncateBegin, TypeOK, Idle, Begins, LogIds, Logs, Kinds, Places, NoOp,
        disk, cache, Index, NoLogId
<1>6. CASE VoteWrite
  BY <1>6 DEF VoteWrite, TypeOK, InStep, Then, cache, LogIds, Logs, Kinds, Places, Index
<1>7. CASE VoteCached
  BY <1>7 DEF VoteCached, TypeOK, InStep, NoOp, disk, LogIds, Logs, Kinds, Places,
        NoLogId, Index
<1>8. CASE CommittedWrite
  BY <1>8 DEF CommittedWrite, TypeOK, InStep, Then, cache, LogIds, Logs, Kinds, Places,
        Index
<1>9. CASE CommittedCached
  BY <1>9 DEF CommittedCached, TypeOK, InStep, NoOp, disk, LogIds, Logs, Kinds, Places,
        NoLogId, Index
<1>10. CASE AppendWrite
  BY <1>10 DEF AppendWrite, TypeOK, InStep, Then, Extended, LastLogId, cache, LogIds,
        Logs, Kinds, Places, Index, LogEnd
<1>11. CASE AppendCached
  BY <1>11 DEF AppendCached, TypeOK, InStep, NoOp, disk, LogIds, Logs, Kinds, Places,
        NoLogId, Index
<1>12. CASE TruncateWrite
  BY <1>12, CutType DEF TruncateWrite, InStep, Then, Places, TypeOK, cache
<1>13. CASE TruncateCached
  BY <1>13 DEF TruncateCached, TypeOK, InStep, NoOp, LogIds, IsLast, disk, Logs, Kinds,
        Places, NoLogId, Index
<1>14. CASE PurgeWrite
  BY <1>14, CutType DEF PurgeWrite, InStep, Then, Places, TypeOK, cache
<1>15. CASE PurgeCached
  BY <1>15 DEF PurgeCached, TypeOK, InStep, Then, disk, LogIds, Logs, Kinds, Places, Index
<1>16. CASE PurgeLook
  <2>1. op' \in [kind : Kinds, at : Places, id : LogIds]
    BY <1>16, NoneType DEF PurgeLook, Then, Places, TypeOK
  <2> QED  BY <1>16, <2>1 DEF PurgeLook, TypeOK, disk, cache
<1>17. CASE Crash
  <2>1. 0 \in 0 .. MaxTerm
    OBVIOUS
  <2>2. open' \in BOOLEAN /\ op' \in [kind : Kinds, at : Places, id : LogIds]
    BY <1>17, NoneType DEF Crash
  <2> QED  BY <1>17, <2>1, <2>2, NoneType DEF Crash, TypeOK, disk
<1>18. CASE Open
  BY <1>18 DEF Open, TypeOK, LogIds, IsLast, disk, Logs, Kinds, Places, NoLogId, Index
<1>19. CASE UNCHANGED vars
  BY <1>19 DEF vars, TypeOK, LogIds, Logs, Kinds, Places, Index
<1> QED  BY <1>1, <1>2, <1>3, <1>4, <1>5, <1>6, <1>7, <1>8, <1>9, <1>10, <1>11, <1>12, <1>13, <1>14, <1>15, <1>16, <1>17, <1>18, <1>19 DEF Next, Step

\* The cache follows the disk, and the arguments fit, after every step.
LEMMA CacheStep == IInv /\ [Next]_vars => CacheFollows' /\ ArgumentsFit'
<1> SUFFICES ASSUME IInv, [Next]_vars PROVE CacheFollows' /\ ArgumentsFit'
  OBVIOUS
<1> USE DEF IInv
<1>1. CASE \E v \in 0 .. MaxTerm : VoteBegin(v)
  BY <1>1 DEF VoteBegin, CacheFollows, ArgumentsFit, TypeOK, Idle, Begins, InStep, IsLast,
        NoOp, LastLogId, LogIds, Logs, Kinds, Places, disk, cache, NoLogId, Index, LogEnd
<1>2. CASE \E l \in LogIds : CommittedBegin(l)
  BY <1>2 DEF CommittedBegin, CacheFollows, ArgumentsFit, TypeOK, Idle, LastLogId,
        NoLogId, Begins, InStep, IsLast, NoOp, LogIds, Logs, Kinds, Places, LogEnd, disk,
        cache, Index
<1>3. CASE \E l \in LogIds : AppendBegin(l)
  BY <1>3 DEF AppendBegin, CacheFollows, ArgumentsFit, TypeOK, Idle, LastLogId, Begins,
        InStep, IsLast, NoOp, LogIds, Logs, Kinds, Places, LogEnd, disk, cache, NoLogId,
        Index
<1>4. CASE \E l \in LogIds : PurgeBegin(l)
  BY <1>4 DEF PurgeBegin, CacheFollows, ArgumentsFit, TypeOK, Idle, LastLogId, Begins,
        InStep, IsLast, NoOp, LogIds, Logs, Kinds, Places, LogEnd, disk, cache, NoLogId,
        Index
<1>5. CASE \E k \in Index : TruncateBegin(k)
  BY <1>5 DEF TruncateBegin, CacheFollows, ArgumentsFit, TypeOK, Idle, Begins, InStep,
        IsLast, NoOp, LastLogId, LogIds, Logs, Kinds, Places, disk, cache, NoLogId, Index,
        LogEnd
<1>6. CASE VoteWrite
  BY <1>6 DEF VoteWrite, CacheFollows, ArgumentsFit, TypeOK, InStep, Then, cache, IsLast,
        NoOp, LastLogId, LogIds, Logs, Kinds, Places, NoLogId, Index, LogEnd
<1>7. CASE VoteCached
  BY <1>7 DEF VoteCached, CacheFollows, ArgumentsFit, TypeOK, InStep, NoOp, disk, IsLast,
        LastLogId, LogIds, Logs, Kinds, Places, NoLogId, Index, LogEnd
<1>8. CASE CommittedWrite
  BY <1>8 DEF CommittedWrite, CacheFollows, ArgumentsFit, TypeOK, InStep, Then, cache,
        IsLast, NoOp, LastLogId, LogIds, Logs, Kinds, Places, NoLogId, Index, LogEnd
<1>9. CASE CommittedCached
  BY <1>9 DEF CommittedCached, CacheFollows, ArgumentsFit, TypeOK, InStep, NoOp, disk,
        IsLast, LastLogId, LogIds, Logs, Kinds, Places, NoLogId, Index, LogEnd
<1>10. CASE AppendWrite
  BY <1>10 DEF AppendWrite, CacheFollows, ArgumentsFit, TypeOK, InStep, Then, Extended,
        LastLogId, cache, IsLast, NoOp, LogIds, Logs, Kinds, Places, Index, LogEnd,
        NoLogId
<1>11. CASE AppendCached
  BY <1>11 DEF AppendCached, CacheFollows, ArgumentsFit, TypeOK, InStep, NoOp, disk,
        IsLast, LastLogId, LogIds, Logs, Kinds, Places, NoLogId, Index, LogEnd
<1>12. CASE TruncateWrite
  BY <1>12 DEF TruncateWrite, CacheFollows, ArgumentsFit, TypeOK, InStep, Then, CutFrom,
        cache, IsLast, NoOp, LastLogId, LogIds, Logs, Kinds, Places, Index, NoLogId,
        LogEnd
<1>13. CASE TruncateCached
  BY <1>13 DEF TruncateCached, CacheFollows, ArgumentsFit, TypeOK, InStep, NoOp, LogIds,
        IsLast, disk, LastLogId, Logs, Kinds, Places, NoLogId, Index, LogEnd
<1>14. CASE PurgeWrite
  BY <1>14 DEF PurgeWrite, CacheFollows, ArgumentsFit, TypeOK, InStep, Then, PurgedTo,
        cache, IsLast, NoOp, LastLogId, LogIds, Logs, Kinds, Places, Index, NoLogId,
        LogEnd
<1>15. CASE PurgeCached
  BY <1>15 DEF PurgeCached, CacheFollows, ArgumentsFit, TypeOK, InStep, Then, disk,
        IsLast, NoOp, LastLogId, LogIds, Logs, Kinds, Places, NoLogId, Index, LogEnd
<1>16. CASE PurgeLook
  BY <1>16 DEF PurgeLook, CacheFollows, ArgumentsFit, TypeOK, InStep, NoOp, Then, disk,
        cache, IsLast, LastLogId, LogIds, Logs, Kinds, Places, NoLogId, Index, LogEnd
<1>17. CASE Crash
  BY <1>17 DEF Crash, CacheFollows, ArgumentsFit, TypeOK, NoOp, NoLogId, disk, InStep,
        IsLast, LastLogId, LogIds, Logs, Kinds, Places, Index, LogEnd
<1>18. CASE Open
  BY <1>18 DEF Open, CacheFollows, ArgumentsFit, TypeOK, LogIds, IsLast, disk, InStep,
        NoOp, LastLogId, Logs, Kinds, Places, NoLogId, Index, LogEnd
<1>19. CASE UNCHANGED vars
  BY <1>19 DEF vars, CacheFollows, ArgumentsFit, TypeOK, InStep, IsLast, NoOp, LastLogId,
        LogIds, Logs, Kinds, Places, NoLogId, Index, LogEnd
<1> QED  BY <1>1, <1>2, <1>3, <1>4, <1>5, <1>6, <1>7, <1>8, <1>9, <1>10, <1>11, <1>12, <1>13, <1>14, <1>15, <1>16, <1>17, <1>18, <1>19 DEF Next, Step

\* Entries appended after the last one, or cut off, leave no gap.
LEMMA AppendKeeps ==
  ASSUME IInv, AppendWrite
  PROVE  /\ NoGap' /\ CommittedHeld'
         /\ \A i \in Index : i <= dCommitted.index => (dLog'[i] = dLog[i] \/ i <= dPurged'.index)
<1>1. cPurged = dPurged /\ IsLast(cLast, dLog) /\ op.id.index > LastLogId.index /\ op.id.term # 0
  BY DEF IInv, CacheFollows, ArgumentsFit, AppendWrite, InStep
<1>2. \A i \in Index : i > LastLogId.index => dLog[i] = 0
  BY <1>1 DEF LastLogId, LogEnd, IsLast, IInv, TypeOK, LogIds, Index
<1>3. \A i \in Index : i <= LastLogId.index => (dLog[i] # 0 <=> i > dPurged.index)
  BY <1>1 DEF LastLogId, LogEnd, IsLast, IInv, TypeOK, LogIds, Index, NoGap
<1>4. LastLogId.index >= dPurged.index /\ LastLogId.index \in Nat
  BY <1>1 DEF LastLogId, LogEnd, IsLast, IInv, TypeOK, LogIds, Index, NoGap
<1>5. \A i \in Index : dLog'[i] = IF i > LastLogId.index /\ i <= op.id.index THEN op.id.term ELSE dLog[i]
  BY DEF AppendWrite, Extended
<1>6. dPurged' = dPurged /\ dCommitted' = dCommitted
  BY DEF AppendWrite
<1>7. NoGap'
  BY <1>1, <1>2, <1>3, <1>4, <1>5, <1>6 DEF NoGap, IInv, TypeOK, LogIds, Index
<1>8. dCommitted.index <= dPurged.index \/ dCommitted.index <= LastLogId.index
  BY <1>2, <1>4 DEF IInv, CommittedHeld, TypeOK, LogIds, Index
<1> QED  BY <1>4, <1>5, <1>6, <1>7, <1>8 DEF IInv, CommittedHeld, TypeOK, LogIds, Index

\* A truncate leaves no gap and no committed entry out.
LEMMA TruncateKeeps ==
  ASSUME IInv, TruncateWrite
  PROVE  /\ NoGap' /\ CommittedHeld'
         /\ \A i \in Index : i <= dCommitted.index => (dLog'[i] = dLog[i] \/ i <= dPurged'.index)
<1>1. op.id.index > dCommitted.index
  BY DEF IInv, ArgumentsFit, TruncateWrite
<1>2. \A i \in Index : dLog'[i] = IF i >= op.id.index THEN 0 ELSE dLog[i]
  BY DEF TruncateWrite, CutFrom
<1>3. dPurged' = dPurged /\ dCommitted' = dCommitted
  BY DEF TruncateWrite
<1> QED  BY <1>1, <1>2, <1>3 DEF NoGap, CommittedHeld, IInv, TypeOK, LogIds, Index

\* A purge moves the marker with what it drops.
LEMMA PurgeKeeps ==
  ASSUME IInv, PurgeWrite
  PROVE  /\ NoGap' /\ CommittedHeld'
         /\ \A i \in Index : i <= dCommitted.index => (dLog'[i] = dLog[i] \/ i <= dPurged'.index)
<1>1. op.id.index > dPurged.index
  BY DEF IInv, ArgumentsFit, PurgeWrite
<1>2. \A i \in Index : dLog'[i] = IF i <= op.id.index THEN 0 ELSE dLog[i]
  BY DEF PurgeWrite, PurgedTo
<1>3. dPurged' = op.id /\ dCommitted' = dCommitted
  BY DEF PurgeWrite
<1> QED  BY <1>1, <1>2, <1>3 DEF NoGap, CommittedHeld, IInv, TypeOK, LogIds, Index

\* A commit marker is within the log.
LEMMA CommittedWithin ==
  ASSUME IInv, CommittedWrite
  PROVE  NoGap' /\ CommittedHeld'
<1>1. cPurged = dPurged /\ IsLast(cLast, dLog) /\ op.id.index <= LastLogId.index
  BY DEF IInv, CacheFollows, ArgumentsFit, CommittedWrite, InStep
<1>2. dCommitted' = op.id /\ dPurged' = dPurged /\ dLog' = dLog
  BY DEF CommittedWrite
<1> QED  BY <1>1, <1>2 DEF LastLogId, LogEnd, IsLast, NoGap, CommittedHeld, IInv, TypeOK, LogIds, Index

\* The other steps leave the disk alone.
LEMMA OtherSteps ==
  ASSUME [Next]_vars
  PROVE  \/ UNCHANGED disk
         \/ VoteWrite \/ CommittedWrite \/ AppendWrite \/ TruncateWrite \/ PurgeWrite
  BY DEF Next, Step, vars, disk, Begins, VoteBegin, CommittedBegin, AppendBegin, TruncateBegin,
         PurgeBegin, VoteCached, CommittedCached, AppendCached, TruncateCached, PurgeCached,
         PurgeLook, Crash, Open

-----------------------------------------------------------------------------
(* Theorems.                                                                *)

\* What makes the invariants inductive holds in every reachable state.
LEMMA Invariant == Spec => []IInv
<1>1. Init => IInv
  BY DEF Init, IInv, TypeOK, CacheFollows, ArgumentsFit, CommittedHeld, NoGap, IsLast, InStep, NoOp,
         NoLogId, LogIds, Logs, Index, Kinds, Places
<1>2. IInv /\ [Next]_vars => IInv'
  <2> SUFFICES ASSUME IInv, [Next]_vars PROVE IInv'
    OBVIOUS
  <2>1. TypeOK' /\ CacheFollows' /\ ArgumentsFit'
    BY TypeStep, CacheStep DEF IInv
  <2>2. NoGap' /\ CommittedHeld'
    <3>1. CASE UNCHANGED disk
      BY <3>1 DEF IInv, disk, NoGap, CommittedHeld
    <3>2. CASE VoteWrite
      BY <3>2 DEF IInv, VoteWrite, NoGap, CommittedHeld
    <3> QED  BY <3>1, <3>2, OtherSteps, AppendKeeps, TruncateKeeps, PurgeKeeps, CommittedWithin
  <2> QED  BY <2>1, <2>2 DEF IInv
<1> QED  BY <1>1, <1>2, PTL DEF Spec

\* The store's state is well formed after any calls, crashes and restarts.
THEOREM TypeCorrect == Spec => []TypeOK
<1>1. IInv => TypeOK
  BY DEF IInv
<1> QED  BY <1>1, Invariant, PTL

\* Between two operations the cache of L3RaftLogStore says what the disk holds.
THEOREM CacheCoherent == Spec => []Coherent
<1>1. IInv => Coherent
  BY DEF IInv, CacheFollows, Coherent, Idle, InStep, NoOp
<1> QED  BY <1>1, Invariant, PTL

\* The log on disk has no hole, whatever was truncated, purged or cut by a crash.
THEOREM LogWithoutGap == Spec => []NoGap
<1>1. IInv => NoGap
  BY DEF IInv
<1> QED  BY <1>1, Invariant, PTL

\* The vote on disk never goes back, across restarts.
THEOREM VoteKept == Spec => VoteNeverRegresses
<1>1. IInv /\ [Next]_vars => [dVote' >= dVote]_vars
  <2> SUFFICES ASSUME IInv, [Next]_vars PROVE dVote' >= dVote
    OBVIOUS
  <2>1. CASE VoteWrite
    BY <2>1 DEF VoteWrite, IInv, ArgumentsFit
  <2>2. CASE dVote' = dVote
    BY <2>2 DEF IInv, TypeOK
  <2> QED  BY <2>1, <2>2, OtherSteps DEF disk, CommittedWrite, AppendWrite, TruncateWrite, PurgeWrite
<1> QED  BY <1>1, Invariant, PTL DEF Spec, VoteNeverRegresses

\* A committed entry is never overwritten or truncated, only purged.
THEOREM CommittedEntriesKept == Spec => CommittedKept
<1> DEFINE Kept == \A i \in Index : i <= dCommitted.index => (dLog'[i] = dLog[i] \/ i <= dPurged'.index)
<1>1. IInv /\ [Next]_vars => [Kept]_vars
  <2> SUFFICES ASSUME IInv, [Next]_vars PROVE Kept
    OBVIOUS
  <2>1. CASE UNCHANGED dLog
    BY <2>1
  <2> QED  BY <2>1, OtherSteps, AppendKeeps, TruncateKeeps, PurgeKeeps DEF disk, VoteWrite, CommittedWrite
<1> QED  BY <1>1, Invariant, PTL DEF Spec, CommittedKept

\* L3RaftLogStore implements MemLogStore: every write is one operation of the
\* in-memory store, and no other step, crash or restart changes what it holds.
THEOREM StoreImplements == Spec => Implements
<1>1. Init => MemLog!Init
  BY DEF Init, MemLog!Init, MemLog!Index, Index, MemLog!NoLogId, NoLogId
<1>2. IInv /\ [Next]_vars => [MemLog!Next]_<<dVote, dCommitted, dPurged, dLog>>
  <2> SUFFICES ASSUME IInv, [Next]_vars
               PROVE  MemLog!Next \/ UNCHANGED disk
    BY DEF disk
  <2>1. CASE VoteWrite
    <3>1. MemLog!SaveVote(op.id.term)
      BY <2>1 DEF VoteWrite, MemLog!SaveVote, IInv, ArgumentsFit
    <3> QED  BY <3>1 DEF MemLog!Next, IInv, TypeOK, LogIds
  <2>2. CASE CommittedWrite
    <3>1. MemLog!SaveCommitted(op.id)
      BY <2>2 DEF CommittedWrite, MemLog!SaveCommitted, IInv, ArgumentsFit
    <3> QED  BY <3>1 DEF MemLog!Next, IInv, TypeOK, MemLog!LogIds, LogIds
  <2>3. CASE AppendWrite
    <3>1. cPurged = dPurged /\ IsLast(cLast, dLog) /\ op.id.index > LastLogId.index
      BY <2>3 DEF IInv, CacheFollows, ArgumentsFit, AppendWrite, InStep
    <3>2. MemLog!AppendEntries(op.id)
      BY <2>3, <3>1 DEF AppendWrite, MemLog!AppendEntries, LastLogId, IInv, TypeOK,
             MemLog!LogIds, LogIds, MemLog!IsLast, IsLast, MemLog!LogEnd, LogEnd, MemLog!Extended, Extended,
             MemLog!Index, Index, MemLog!NoLogId, NoLogId
    <3> QED  BY <3>2 DEF MemLog!Next, IInv, TypeOK, MemLog!LogIds, LogIds
  <2>4. CASE TruncateWrite
    <3>1. MemLog!Truncate(op.id.index)
      BY <2>4 DEF TruncateWrite, MemLog!Truncate, IInv, ArgumentsFit,
             MemLog!CutFrom, CutFrom, MemLog!Index, Index
    <3>2. op.id.index \in Index
      BY <2>4 DEF TruncateWrite, IInv, ArgumentsFit, TypeOK, LogIds, Index
    <3> QED  BY <3>1, <3>2 DEF MemLog!Next, MemLog!Index, Index
  <2>5. CASE PurgeWrite
    <3>1. MemLog!Purge(op.id)
      BY <2>5 DEF PurgeWrite, MemLog!Purge, IInv, ArgumentsFit,
             MemLog!PurgedTo, PurgedTo, MemLog!Index, Index
    <3> QED  BY <3>1 DEF MemLog!Next, IInv, TypeOK, MemLog!LogIds, LogIds
  <2> QED  BY <2>1, <2>2, <2>3, <2>4, <2>5, OtherSteps
<1> QED  BY <1>1, <1>2, Invariant, PTL DEF Spec, Implements, MemLog!Spec

---------------------------------------------------------------------------
(* The bulk sync of a transfer, for any nodes, stores, chunks, failures and  *)
(* restarts.                                                                 *)

\* The bounds and the placeholder of no target.
SegSized ==
  /\ MaxSeq \in Nat /\ MaxTransfers \in Nat /\ MaxFails \in Nat /\ MaxGcs \in Nat
  /\ MaxRestarts \in Nat /\ NoNode \notin Nodes

\* What the state is made of.
SegShape ==
  /\ owner \in Nodes
  /\ files = [n \in Nodes |-> files[n]] /\ metas = [n \in Nodes |-> metas[n]]
  /\ writer = [n \in Nodes |-> [on |-> writer[n].on, manifest |-> writer[n].manifest,
                                finalized |-> writer[n].finalized]]
  /\ drive = [phase |-> drive.phase, target |-> drive.target, todo |-> drive.todo,
              stat |-> drive.stat, manifest |-> drive.manifest, seg |-> drive.seg,
              data |-> drive.data, off |-> drive.off]
  /\ budget \in [{"transfers", "fails", "gcs", "restarts"} -> Nat]

\* A drive is between two nodes, and lists segments by their numbers.
DriveApart ==
  /\ drive.phase # "idle" => drive.target \in Nodes /\ drive.target # owner
  /\ DOMAIN drive.manifest \subseteq Seg!Seqs
  /\ drive.phase = "crc" => drive.seg \in Seg!Seqs

\* The owner has no writer, and the target's follows the drive: a segment is
\* to be read, being read or received, and only one of them.
WriterFollows ==
  LET w == writer[drive.target] IN
  /\ writer[owner] = Seg!NoWriter
  /\ drive.phase \in {"open", "stream"} =>
       /\ w.manifest = drive.manifest
       /\ drive.todo \subseteq DOMAIN drive.manifest /\ drive.todo \cap w.finalized = {}
  /\ drive.phase = "stream" =>
       drive.seg \in DOMAIN drive.manifest /\ drive.seg \notin drive.todo \cup w.finalized
  /\ drive.phase = "cutover" => w = Seg!NoWriter

\* What is received is there.
ReceivedThere ==
  \A n \in Nodes : \A s \in writer[n].finalized :
    s \in DOMAIN files[n] /\ files[n][s] = writer[n].manifest[s].crc

SegInv == SegShape /\ DriveApart /\ WriterFollows /\ ReceivedThere

LEMMA SegInit == SegSized /\ Seg!Init => SegInv
<1> SUFFICES ASSUME SegSized, Seg!Init PROVE SegInv
  OBVIOUS
<1>1. SegShape
  BY DEF SegSized, SegShape, Seg!Init, Seg!NoWriter, Seg!NoDrive
<1>2. DriveApart
  BY DEF DriveApart, Seg!Init, Seg!NoDrive, Seg!NoManifest
<1>3. WriterFollows /\ ReceivedThere
  BY DEF WriterFollows, ReceivedThere, Seg!Init, Seg!NoDrive, Seg!NoWriter
<1> QED BY <1>1, <1>2, <1>3 DEF SegInv

\* A budget that is spent stays one.
LEMMA SpendKeeps ==
  ASSUME SegShape, NEW what \in {"transfers", "fails", "gcs", "restarts"}, Seg!Spend(what)
  PROVE  /\ budget' \in [{"transfers", "fails", "gcs", "restarts"} -> Nat]
         /\ budget["gcs"] = 0 => budget'["gcs"] = 0
BY DEF SegShape, Seg!Spend

\* The steps of the node's own store.
LEMMA StoreKeeps ==
  ASSUME SegSized, SegInv, NEW n \in Nodes,
         Seg!OpenStore(n) \/ Seg!AppendRecord(n) \/ Seg!Gc(n)
  PROVE  /\ SegInv' /\ UNCHANGED <<owner, writer, drive>>
         /\ \A m \in Nodes \ {owner} : files'[m] = files[m]
         /\ ~Seg!Gc(n) => DOMAIN files[owner] \subseteq DOMAIN files'[owner]
<1>1. /\ UNCHANGED <<owner, writer, drive>>
      /\ files' = [m \in Nodes |-> files'[m]] /\ metas' = [m \in Nodes |-> metas'[m]]
      /\ \A m \in Nodes \ {owner} : files'[m] = files[m]
      /\ budget' \in [{"transfers", "fails", "gcs", "restarts"} -> Nat]
  <2>1. CASE Seg!OpenStore(n)
    BY <2>1 DEF Seg!OpenStore, SegInv, SegShape
  <2>2. CASE Seg!AppendRecord(n)
    BY <2>2 DEF Seg!AppendRecord, SegInv, SegShape
  <2>3. CASE Seg!Gc(n)
    BY <2>3, SpendKeeps DEF Seg!Gc, SegInv, SegShape
  <2> QED BY <2>1, <2>2, <2>3
<1>2. ~Seg!Gc(n) => DOMAIN files[owner] \subseteq DOMAIN files'[owner]
  <2>1. CASE Seg!OpenStore(n)
    BY <2>1 DEF Seg!OpenStore
  <2>2. CASE Seg!AppendRecord(n)
    BY <2>2 DEF Seg!AppendRecord, Seg!With, SegInv, SegShape
  <2> QED BY <2>1, <2>2
<1>3. SegShape'
  BY <1>1 DEF SegInv, SegShape
<1>4. DriveApart' /\ WriterFollows'
  BY <1>1 DEF SegInv, DriveApart, WriterFollows
<1>5. ReceivedThere'
  BY <1>1 DEF SegInv, ReceivedThere, WriterFollows, Seg!NoWriter
<1> QED BY <1>1, <1>2, <1>3, <1>4, <1>5 DEF SegInv

\* The steps of a drive that leave the files and the writers alone.
LEMMA ListKeeps ==
  ASSUME SegSized, SegInv,
         \/ \E n \in Nodes : Seg!Request(n)
         \/ Seg!Break \/ (\E s \in Seg!Seqs : Seg!ListStat(s)) \/ Seg!ListCrc
  PROVE  /\ SegInv' /\ UNCHANGED <<owner, files>>
         /\ drive'.phase # "cutover"
         /\ drive'.phase # "idle" =>
              DOMAIN drive'.manifest \subseteq DOMAIN drive.manifest \cup DOMAIN files[owner]
         /\ budget["gcs"] = 0 => budget'["gcs"] = 0
         /\ drive.phase = "idle" => drive'.manifest = Seg!NoManifest
<1> USE DEF SegInv
<1>1. UNCHANGED <<owner, files, metas, store, writer>>
  BY DEF Seg!Request, Seg!Break, Seg!ListStat, Seg!ListCrc
<1>2. /\ budget' \in [{"transfers", "fails", "gcs", "restarts"} -> Nat]
      /\ budget["gcs"] = 0 => budget'["gcs"] = 0
  BY SpendKeeps DEF Seg!Request, Seg!Break, Seg!ListStat, Seg!ListCrc, SegShape
<1>3. CASE \E n \in Nodes : Seg!Request(n)
  <2>1. PICK n \in Nodes : Seg!Request(n)
    BY <1>3
  <2>2. /\ drive.phase = "idle" /\ n # owner
        /\ drive' = [phase |-> "list", target |-> n, todo |-> DOMAIN files[owner], stat |-> 0,
                     manifest |-> Seg!NoManifest, seg |-> 0, data |-> <<>>, off |-> 0]
    BY <2>1 DEF Seg!Request, Seg!NoDrive
  <2>3. SegShape' /\ DriveApart'
    BY <1>1, <1>2, <2>2 DEF SegShape, DriveApart, Seg!NoManifest
  <2>4. WriterFollows' /\ ReceivedThere'
    BY <1>1, <2>2 DEF WriterFollows, ReceivedThere
  <2> QED BY <1>1, <1>2, <2>2, <2>3, <2>4 DEF Seg!NoManifest
<1>4. CASE drive' = Seg!NoDrive
  <2>1. SegShape' /\ DriveApart'
    BY <1>1, <1>2, <1>4 DEF SegShape, DriveApart, Seg!NoDrive, Seg!NoManifest
  <2>2. WriterFollows' /\ ReceivedThere'
    BY <1>1, <1>4 DEF WriterFollows, ReceivedThere, Seg!NoDrive
  <2> QED BY <1>1, <1>2, <1>4, <2>1, <2>2 DEF Seg!NoDrive, Seg!NoManifest
<1>5. CASE \E s \in Seg!Seqs : Seg!ListStat(s) /\ drive' # Seg!NoDrive
  <2>1. PICK s \in Seg!Seqs : Seg!ListStat(s) /\ drive' # Seg!NoDrive
    BY <1>5
  <2>2. /\ drive.phase = "list"
        /\ drive' = [drive EXCEPT !.phase = "crc", !.seg = s, !.stat = Seg!Len(files[owner][s])]
    BY <2>1 DEF Seg!ListStat
  <2>3. SegShape' /\ DriveApart'
    BY <1>1, <1>2, <2>2 DEF SegShape, DriveApart
  <2>4. WriterFollows' /\ ReceivedThere'
    BY <1>1, <2>2 DEF SegShape, WriterFollows, ReceivedThere
  <2> QED BY <1>1, <1>2, <2>2, <2>3, <2>4 DEF SegShape
<1>6. CASE Seg!ListCrc /\ drive' # Seg!NoDrive
  <2> DEFINE s == drive.seg
             entry == [size |-> drive.stat, crc |-> files[owner][s]]
  <2>2. /\ drive.phase = "crc" /\ s \in DOMAIN files[owner]
        /\ drive' = [drive EXCEPT !.phase = "list", !.todo = @ \ {s}, !.seg = 0,
                                  !.manifest = Seg!With(@, s, entry)]
    BY <1>6 DEF Seg!ListCrc
  <2>3. DOMAIN drive'.manifest = DOMAIN drive.manifest \cup {s}
    BY <2>2 DEF SegShape, Seg!With
  <2>4. SegShape' /\ DriveApart'
    BY <1>1, <1>2, <2>2, <2>3 DEF SegShape, DriveApart
  <2>5. WriterFollows' /\ ReceivedThere'
    BY <1>1, <2>2 DEF SegShape, WriterFollows, ReceivedThere
  <2> QED BY <1>1, <1>2, <2>2, <2>3, <2>4, <2>5 DEF SegShape
<1> QED BY <1>3, <1>4, <1>5, <1>6 DEF Seg!Break

\* A manifest's numbers have a least one.
LEMMA LeastSeq ==
  ASSUME SegSized, NEW S \in SUBSET Seg!Seqs, S # {}
  PROVE  Seg!Min(S) \in S
<1>1. S \subseteq Nat
  BY DEF SegSized, Seg!Seqs
<1> DEFINE R == {yx \in Nat \X Nat : yx[1] < yx[2]}
<1>2. IsWellFoundedOn(R, Nat)
  BY NatLessThanWellFounded, Zenon DEF OpToRel
<1>3. \E x \in S : \A y \in S : <<y, x>> \notin R
  BY <1>1, <1>2, WFMin, Zenon
<1>4. \A y, x \in Nat : y < x => <<y, x>> \in R
  OBVIOUS
<1> HIDE DEF R
<1>5. PICK x \in S : \A y \in S : <<y, x>> \notin R
  BY <1>3
<1>6. ASSUME NEW y \in S PROVE x <= y
  <2>1. y \in Nat /\ x \in Nat
    BY <1>1
  <2>2. ~(y < x)
    BY <1>4, <1>5, <2>1
  <2> QED BY <2>1, <2>2
<1> QED BY <1>6 DEF Seg!Min

\* The writer on the target opens, and the reader opens the next segment.
LEMMA OpenKeeps ==
  ASSUME SegSized, SegInv, Seg!Begin \/ Seg!OpenReader
  PROVE  /\ SegInv' /\ UNCHANGED <<owner, files, budget>> /\ drive'.phase # "cutover"
         /\ drive'.phase # "idle" => drive'.manifest = drive.manifest /\ drive.phase # "idle"
<1> USE DEF SegInv
<1>1. UNCHANGED <<owner, files, metas, store, budget>>
  BY DEF Seg!Begin, Seg!OpenReader
<1>2. CASE Seg!Begin /\ drive' = Seg!NoDrive
  <2>0. drive.phase = "list" /\ drive' = Seg!NoDrive
    BY <1>2 DEF Seg!Begin
  <2>a. drive'.phase = "idle"
    BY <2>0 DEF Seg!NoDrive
  <2>b. [drive EXCEPT !.phase = "open", !.todo = DOMAIN drive.manifest].phase = "open"
    BY DEF SegShape
  <2>1. UNCHANGED writer
    BY <1>2, <2>a, <2>b DEF Seg!Begin
  <2>2. SegShape' /\ DriveApart'
    BY <1>1, <2>0, <2>1 DEF SegShape, DriveApart, Seg!NoDrive, Seg!NoManifest
  <2>3. WriterFollows' /\ ReceivedThere'
    BY <1>1, <2>0, <2>1 DEF WriterFollows, ReceivedThere, Seg!NoDrive
  <2> QED BY <1>1, <2>0, <2>2, <2>3 DEF Seg!NoDrive
<1>3. CASE Seg!Begin /\ drive' # Seg!NoDrive
  <2> DEFINE t == drive.target
  <2>1. /\ drive.phase = "list" /\ t \in Nodes /\ t # owner
        /\ drive' = [drive EXCEPT !.phase = "open", !.todo = DOMAIN drive.manifest]
        /\ writer' = [writer EXCEPT ![t] = [on |-> TRUE, manifest |-> drive.manifest,
                                            finalized |-> {}]]
    BY <1>3 DEF Seg!Begin, DriveApart
  <2>2. SegShape' /\ DriveApart'
    BY <1>1, <2>1 DEF SegShape, DriveApart
  <2>3. /\ \A n \in Nodes : writer'[n] = IF n = t THEN [on |-> TRUE, manifest |-> drive.manifest,
                                                       finalized |-> {}] ELSE writer[n]
        /\ drive'.phase = "open" /\ drive'.todo = DOMAIN drive.manifest /\ drive'.target = t
        /\ drive'.manifest = drive.manifest
    BY <2>1 DEF SegShape
  <2>4. WriterFollows'
    BY <1>1, <2>1, <2>3 DEF SegShape, WriterFollows
  <2>5. ReceivedThere'
    BY <1>1, <2>3 DEF ReceivedThere
  <2> QED BY <1>1, <2>1, <2>2, <2>3, <2>4, <2>5
<1>4. CASE Seg!OpenReader
  <2> DEFINE s == Seg!Min(drive.todo)
  <2>1. /\ drive.phase = "open" /\ drive.todo # {} /\ UNCHANGED writer
        /\ drive' = [drive EXCEPT !.phase = "stream", !.todo = @ \ {s}, !.seg = s,
                                  !.data = files[owner][s], !.off = 0]
    BY <1>4 DEF Seg!OpenReader
  <2>2. s \in drive.todo
    BY <2>1, LeastSeq DEF WriterFollows, DriveApart
  <2>3. SegShape' /\ DriveApart'
    BY <1>1, <2>1 DEF SegShape, DriveApart
  <2>4. /\ drive'.phase = "stream" /\ drive'.todo = drive.todo \ {s} /\ drive'.seg = s
        /\ drive'.target = drive.target /\ drive'.manifest = drive.manifest
    BY <2>1 DEF SegShape
  <2> HIDE DEF s
  <2>5. WriterFollows'
    BY <1>1, <2>1, <2>2, <2>4 DEF WriterFollows
  <2>6. ReceivedThere'
    BY <1>1, <2>1 DEF ReceivedThere
  <2> QED BY <1>1, <2>1, <2>3, <2>4, <2>5, <2>6
<1> QED BY <1>2, <1>3, <1>4

\* A chunk arrives: it is of the segment being read, which is not received
\* yet, and what is counted as received compares equal to the manifest.
LEMMA ChunkKeeps ==
  ASSUME SegSized, SegInv, Seg!Chunk
  PROVE  /\ SegInv' /\ UNCHANGED <<owner, budget>> /\ files'[owner] = files[owner]
         /\ drive.phase # "idle" /\ drive'.phase # "cutover"
         /\ drive'.phase # "idle" => drive'.manifest = drive.manifest
<1> USE DEF SegInv
<1> DEFINE t == drive.target
           s == drive.seg
           w == writer[t]
<1>1. /\ drive.phase = "stream" /\ t \in Nodes /\ t # owner /\ owner \in Nodes
      /\ UNCHANGED <<owner, metas, store, budget>>
      /\ w.manifest = drive.manifest
      /\ drive.todo \subseteq DOMAIN drive.manifest /\ drive.todo \cap w.finalized = {}
      /\ s \in DOMAIN drive.manifest /\ s \notin drive.todo \cup w.finalized
  BY DEF Seg!Chunk, SegShape, DriveApart, WriterFollows
<1>2. PICK content :
        /\ files' = [files EXCEPT ![t] = Seg!With(@, s, content)]
        /\ \/ drive' = Seg!NoDrive /\ UNCHANGED writer
           \/ /\ drive' = [drive EXCEPT !.phase = "open", !.seg = 0, !.data = <<>>, !.off = 0]
              /\ writer' = [writer EXCEPT ![t].finalized = @ \cup {s}]
              /\ content = w.manifest[s].crc
           \/ \E upTo : drive' = [drive EXCEPT !.off = upTo] /\ UNCHANGED writer
  <2> DEFINE upTo == Seg!Min({drive.off + ChunkLen, Seg!Len(drive.data)})
             data == Seg!SubSeq(drive.data, drive.off + 1, upTo)
             file == (IF drive.off = 0 THEN <<>> ELSE files[t][s]) \o data
             last == upTo = Seg!Len(drive.data)
             fits == upTo <= w.manifest[s].size
             whole == upTo = w.manifest[s].size /\ file = w.manifest[s].crc
             content == IF fits THEN file ELSE IF drive.off = 0 THEN <<>> ELSE files[t][s]
  <2>1. files' = [files EXCEPT ![t] = Seg!With(@, s, content)]
    BY <1>1 DEF Seg!Chunk, SegShape
  <2>2. /\ drive' = CASE ~fits \/ (last /\ ~whole) -> Seg!NoDrive
                    [] fits /\ last /\ whole ->
                         [drive EXCEPT !.phase = "open", !.seg = 0, !.data = <<>>, !.off = 0]
                    [] OTHER -> [drive EXCEPT !.off = upTo]
        /\ writer' = IF fits /\ last /\ whole THEN [writer EXCEPT ![t].finalized = @ \cup {s}]
                                             ELSE writer
    BY DEF Seg!Chunk
  <2> HIDE DEF upTo, last
  <2>3. CASE ~fits \/ (last /\ ~whole)
    <3> HIDE DEF fits, whole, content
    <3>1. drive' = Seg!NoDrive /\ UNCHANGED writer
      BY <2>2, <2>3
    <3> QED BY <2>1, <3>1
  <2>4. CASE fits /\ last /\ whole
    <3>1. content = w.manifest[s].crc
      BY <2>4
    <3> QED BY <2>1, <2>2, <2>4, <3>1
  <2>5. CASE fits /\ ~last
    BY <2>1, <2>2, <2>5
  <2> QED BY <2>3, <2>4, <2>5
<1>3. /\ \A n \in Nodes : n # t => files'[n] = files[n]
      /\ s \in DOMAIN files'[t] /\ files'[t][s] = content
      /\ DOMAIN files'[t] = DOMAIN files[t] \cup {s}
      /\ \A r \in DOMAIN files[t] : r # s => files'[t][r] = files[t][r]
      /\ files' = [n \in Nodes |-> files'[n]]
  BY <1>1, <1>2 DEF SegShape, Seg!With
<1>4. CASE drive' = Seg!NoDrive /\ UNCHANGED writer
  <2>1. SegShape' /\ DriveApart'
    BY <1>1, <1>3, <1>4 DEF SegShape, DriveApart, Seg!NoDrive, Seg!NoManifest
  <2>2. WriterFollows'
    BY <1>1, <1>4 DEF WriterFollows, Seg!NoDrive
  <2>3. ReceivedThere'
    BY <1>1, <1>3, <1>4 DEF ReceivedThere
  <2> QED BY <1>1, <1>3, <1>4, <2>1, <2>2, <2>3 DEF Seg!NoDrive
<1>5. CASE /\ drive' = [drive EXCEPT !.phase = "open", !.seg = 0, !.data = <<>>, !.off = 0]
           /\ writer' = [writer EXCEPT ![t].finalized = @ \cup {s}]
           /\ content = w.manifest[s].crc
  <2>1. /\ drive'.phase = "open" /\ drive'.todo = drive.todo /\ drive'.target = t
        /\ drive'.manifest = drive.manifest
    BY <1>5 DEF SegShape
  <2>0. DOMAIN writer = Nodes /\ w = [on |-> w.on, manifest |-> w.manifest, finalized |-> w.finalized]
    BY <1>1 DEF SegShape
  <2> DEFINE v == [on |-> w.on, manifest |-> w.manifest, finalized |-> w.finalized \cup {s}]
  <2>a. [w EXCEPT !.finalized = @ \cup {s}] = v
    BY <2>0
  <2>2. writer' = [n \in Nodes |-> IF n = t THEN v ELSE writer[n]]
    BY <1>1, <1>5, <2>0, <2>a DEF SegShape
  <2>3. SegShape' /\ DriveApart'
    <3>1. writer' = [n \in Nodes |-> [on |-> writer'[n].on, manifest |-> writer'[n].manifest,
                                      finalized |-> writer'[n].finalized]]
      BY <2>2 DEF SegShape
    <3> QED BY <1>1, <1>3, <1>5, <2>1, <3>1 DEF SegShape, DriveApart
  <2>4. WriterFollows'
    BY <1>1, <2>1, <2>2 DEF WriterFollows, SegShape
  <2>5. ReceivedThere'
    BY <1>1, <1>3, <1>5, <2>2 DEF ReceivedThere
  <2> QED BY <1>1, <1>3, <2>1, <2>3, <2>4, <2>5
<1>6. CASE \E upTo : drive' = [drive EXCEPT !.off = upTo] /\ UNCHANGED writer
  <2>1. /\ drive'.phase = "stream" /\ drive'.todo = drive.todo /\ drive'.target = t
        /\ drive'.manifest = drive.manifest /\ drive'.seg = s
    BY <1>1, <1>6 DEF SegShape
  <2>2. SegShape' /\ DriveApart'
    BY <1>1, <1>3, <1>6, <2>1 DEF SegShape, DriveApart
  <2>3. WriterFollows'
    BY <1>1, <1>6, <2>1 DEF WriterFollows
  <2>4. ReceivedThere'
    BY <1>1, <1>3, <1>6 DEF ReceivedThere
  <2> QED BY <1>1, <1>3, <2>1, <2>2, <2>3, <2>4
<1> QED BY <1>2, <1>4, <1>5, <1>6

\* The end frame says failure.
LEMMA FailureKeeps ==
  ASSUME SegSized, SegInv, Seg!ReportFailure
  PROVE  /\ SegInv' /\ UNCHANGED <<owner, budget>>
         /\ drive.phase = "open" /\ drive.todo # {} /\ Seg!Min(drive.todo) \notin DOMAIN files[owner]
<1> USE DEF SegInv
<1> DEFINE t == drive.target
<1>1. /\ drive.phase = "open" /\ t \in Nodes /\ t # owner
      /\ UNCHANGED <<owner, store, budget>>
      /\ drive' = [drive EXCEPT !.phase = "cutover"]
      /\ writer' = [writer EXCEPT ![t] = Seg!NoWriter]
      /\ files' = [files EXCEPT ![t] = [x \in {} |-> <<>>]]
      /\ metas' = [metas EXCEPT ![t] = {}]
  BY DEF Seg!ReportFailure, Seg!Goes, DriveApart
<1>2. SegShape' /\ DriveApart'
  BY <1>1 DEF SegShape, DriveApart, Seg!NoWriter
<1>3. /\ drive'.phase = "cutover" /\ drive'.target = t
      /\ \A n \in Nodes : writer'[n] = IF n = t THEN Seg!NoWriter ELSE writer[n]
      /\ \A n \in Nodes : n # t => files'[n] = files[n]
  BY <1>1 DEF SegShape
<1>4. WriterFollows'
  BY <1>1, <1>3 DEF WriterFollows, SegShape
<1>5. ReceivedThere'
  BY <1>3 DEF ReceivedThere, Seg!NoWriter
<1> QED BY <1>1, <1>2, <1>4, <1>5 DEF Seg!ReportFailure

\* The end frame says success, and finish finds every segment received.
LEMMA FinishKeeps ==
  ASSUME SegSized, SegInv, Seg!Finish
  PROVE  /\ SegInv' /\ UNCHANGED <<owner, files, budget>>
         /\ drive'.phase # "idle" => drive.phase # "idle" /\ drive'.manifest = drive.manifest
         /\ drive'.phase = "cutover" =>
              /\ drive'.target = drive.target
              /\ \A s \in DOMAIN drive.manifest :
                   /\ s \in DOMAIN files[drive.target]
                   /\ files[drive.target][s] = drive.manifest[s].crc
<1> USE DEF SegInv
<1> DEFINE t == drive.target
<1>1. /\ drive.phase = "open" /\ t \in Nodes /\ t # owner
      /\ UNCHANGED <<owner, files, metas, store, budget>>
      /\ writer' = [writer EXCEPT ![t] = Seg!NoWriter]
      /\ writer[t].manifest = drive.manifest
      /\ \/ drive' = Seg!NoDrive
         \/ /\ drive' = [drive EXCEPT !.phase = "cutover"]
            /\ DOMAIN drive.manifest = writer[t].finalized
  BY DEF Seg!Finish, Seg!Goes, DriveApart, WriterFollows
<1>2. \A n \in Nodes : writer'[n] = IF n = t THEN Seg!NoWriter ELSE writer[n]
  BY <1>1 DEF SegShape
<1>3. ReceivedThere'
  BY <1>1, <1>2 DEF ReceivedThere, Seg!NoWriter
<1>4. CASE drive' = Seg!NoDrive
  <2>1. SegShape' /\ DriveApart'
    BY <1>1, <1>4 DEF SegShape, DriveApart, Seg!NoDrive, Seg!NoManifest, Seg!NoWriter
  <2>2. WriterFollows'
    BY <1>1, <1>2, <1>4 DEF WriterFollows, SegShape, Seg!NoDrive
  <2> QED BY <1>1, <1>3, <1>4, <2>1, <2>2 DEF Seg!NoDrive
<1>5. CASE /\ drive' = [drive EXCEPT !.phase = "cutover"]
           /\ DOMAIN drive.manifest = writer[t].finalized
  <2>1. SegShape' /\ DriveApart'
    BY <1>1, <1>5 DEF SegShape, DriveApart, Seg!NoWriter
  <2>2. drive'.phase = "cutover" /\ drive'.target = t /\ drive'.manifest = drive.manifest
    BY <1>5 DEF SegShape
  <2>3. WriterFollows'
    BY <1>1, <1>2, <2>2 DEF WriterFollows, SegShape
  <2>4. \A s \in DOMAIN drive.manifest :
          s \in DOMAIN files[t] /\ files[t][s] = drive.manifest[s].crc
    BY <1>1, <1>5 DEF ReceivedThere
  <2> QED BY <1>1, <1>3, <2>1, <2>2, <2>3, <2>4
<1> QED BY <1>1, <1>4, <1>5

\* The rest of the handover, and a process that ends.
LEMMA EndKeeps ==
  ASSUME SegSized, SegInv, Seg!Complete \/ \E n \in Nodes : Seg!Restart(n)
  PROVE  /\ SegInv' /\ UNCHANGED files /\ (budget["gcs"] = 0 => budget'["gcs"] = 0)
         /\ drive' = Seg!NoDrive \/ (drive' = drive /\ owner' = owner)
<1> USE DEF SegInv
<1>1. CASE Seg!Complete
  <2>1. /\ drive.phase = "cutover" /\ owner' = drive.target /\ drive' = Seg!NoDrive
        /\ UNCHANGED <<files, metas, store, writer, budget>> /\ drive.target \in Nodes
        /\ writer[drive.target] = Seg!NoWriter
    BY <1>1 DEF Seg!Complete, DriveApart, WriterFollows
  <2>2. SegShape' /\ DriveApart'
    BY <2>1 DEF SegShape, DriveApart, Seg!NoDrive, Seg!NoManifest
  <2>3. WriterFollows' /\ ReceivedThere'
    BY <2>1 DEF WriterFollows, ReceivedThere, Seg!NoDrive
  <2> QED BY <2>1, <2>2, <2>3
<1>2. CASE \E n \in Nodes : Seg!Restart(n)
  <2>1. PICK n \in Nodes : Seg!Restart(n)
    BY <1>2
  <2>2. /\ UNCHANGED <<owner, files, metas>> /\ Seg!Spend("restarts")
        /\ writer' = [writer EXCEPT ![n] = Seg!NoWriter]
        /\ drive' = IF n \in {owner, drive.target} THEN Seg!NoDrive ELSE drive
    BY <2>1 DEF Seg!Restart
  <2>3. /\ budget' \in [{"transfers", "fails", "gcs", "restarts"} -> Nat]
        /\ budget["gcs"] = 0 => budget'["gcs"] = 0
    BY <2>2, SpendKeeps
  <2>4. /\ \A m \in Nodes : writer'[m] = IF m = n THEN Seg!NoWriter ELSE writer[m]
        /\ writer' = [m \in Nodes |-> [on |-> writer'[m].on, manifest |-> writer'[m].manifest,
                                       finalized |-> writer'[m].finalized]]
    BY <2>2 DEF SegShape, Seg!NoWriter
  <2>5. ReceivedThere'
    BY <2>2, <2>4 DEF ReceivedThere, Seg!NoWriter
  <2>6. CASE n \in {owner, drive.target}
    <3>1. SegShape' /\ DriveApart'
      BY <2>2, <2>3, <2>4, <2>6 DEF SegShape, DriveApart, Seg!NoDrive, Seg!NoManifest
    <3>2. WriterFollows'
      BY <2>2, <2>4, <2>6 DEF WriterFollows, SegShape, Seg!NoDrive
    <3> QED BY <2>2, <2>3, <2>5, <2>6, <3>1, <3>2
  <2>7. CASE n \notin {owner, drive.target}
    <3>1. SegShape' /\ DriveApart'
      BY <2>2, <2>3, <2>4, <2>7 DEF SegShape, DriveApart
    <3>2. WriterFollows'
      BY <2>2, <2>4, <2>7 DEF WriterFollows, SegShape, DriveApart
    <3> QED BY <2>2, <2>3, <2>5, <2>7, <3>1, <3>2
  <2> QED BY <2>6, <2>7
<1> QED BY <1>1, <1>2


\* No step of the bulk sync disturbs the invariant.
LEMMA SegStep == SegSized /\ SegInv /\ [Seg!Next]_Seg!vars => SegInv'
<1> SUFFICES ASSUME SegSized, SegInv, [Seg!Next]_Seg!vars PROVE SegInv'
  OBVIOUS
<1>1. CASE \E n \in Nodes : Seg!OpenStore(n) \/ Seg!AppendRecord(n) \/ Seg!Gc(n)
  BY <1>1, StoreKeeps
<1>2. CASE \/ \E n \in Nodes : Seg!Request(n)
           \/ Seg!Break \/ (\E s \in Seg!Seqs : Seg!ListStat(s)) \/ Seg!ListCrc
  BY <1>2, ListKeeps
<1>3. CASE Seg!Begin \/ Seg!OpenReader
  BY <1>3, OpenKeeps
<1>4. CASE Seg!Chunk \/ Seg!ReportFailure \/ Seg!Finish
  BY <1>4, ChunkKeeps, FailureKeeps, FinishKeeps
<1>5. CASE Seg!Complete \/ \E n \in Nodes : Seg!Restart(n)
  BY <1>5, EndKeeps
<1>6. CASE UNCHANGED Seg!vars
  BY <1>6 DEF Seg!vars, SegInv, SegShape, DriveApart, WriterFollows, ReceivedThere
<1> QED BY <1>1, <1>2, <1>3, <1>4, <1>5, <1>6 DEF Seg!Next, Seg!DriveStep

\* A segment SegmentWriter::apply_chunk counts as received is, for as long as
\* the writer lives, byte for byte what the manifest's CRC was taken of,
\* although the source's store appends to the file between the stat, the CRC
\* and the read, and whatever breaks or restarts.
THEOREM SegmentsReceivedWhole == SegSized => (Seg!Spec => []Seg!ReceivedWhole)
<1> SUFFICES ASSUME SegSized PROVE Seg!Spec => []Seg!ReceivedWhole
  OBVIOUS
<1>1. Seg!Init => SegInv
  BY SegInit
<1>2. SegInv /\ [Seg!Next]_Seg!vars => SegInv'
  BY SegStep
<1>3. SegInv => Seg!ReceivedWhole
  BY DEF SegInv, ReceivedThere, Seg!ReceivedWhole
<1> QED BY <1>1, <1>2, <1>3, PTL DEF Seg!Spec

\* While nothing is collected, the source keeps what the manifest names, and a
\* bulk sync that is over has it installed.
Uncollected ==
  /\ budget["gcs"] = 0
  /\ drive.phase # "idle" => DOMAIN drive.manifest \subseteq DOMAIN files[owner]
  /\ Seg!BulkInstalled

LEMMA UncollectedStep ==
  ASSUME SegSized, SegInv, Uncollected, [Seg!Next]_Seg!vars
  PROVE  Uncollected'
<1> USE DEF Uncollected
<1>1. CASE \E n \in Nodes : Seg!OpenStore(n) \/ Seg!AppendRecord(n) \/ Seg!Gc(n)
  <2>1. PICK n \in Nodes : Seg!OpenStore(n) \/ Seg!AppendRecord(n) \/ Seg!Gc(n)
    BY <1>1
  <2>0. ~Seg!Gc(n)
    BY DEF Seg!Gc, Seg!Spend
  <2>2. ~Seg!Gc(n) /\ UNCHANGED budget
    BY <2>0, <2>1 DEF Seg!OpenStore, Seg!AppendRecord
  <2>3. /\ UNCHANGED <<owner, writer, drive>> /\ DOMAIN files[owner] \subseteq DOMAIN files'[owner]
        /\ \A m \in Nodes \ {owner} : files'[m] = files[m]
    BY <2>1, <2>2, StoreKeeps
  <2>4. drive.phase = "cutover" => files'[drive.target] = files[drive.target]
    BY <2>3 DEF SegInv, DriveApart
  <2> QED BY <2>2, <2>3, <2>4 DEF Seg!BulkInstalled
<1>2. CASE \/ \E n \in Nodes : Seg!Request(n)
           \/ Seg!Break \/ (\E s \in Seg!Seqs : Seg!ListStat(s)) \/ Seg!ListCrc
  <2>1. /\ UNCHANGED <<owner, files>> /\ drive'.phase # "cutover" /\ budget'["gcs"] = 0
        /\ drive'.phase # "idle" =>
              DOMAIN drive'.manifest \subseteq DOMAIN drive.manifest \cup DOMAIN files[owner]
        /\ drive.phase = "idle" => drive'.manifest = Seg!NoManifest
    BY <1>2, ListKeeps
  <2> QED BY <2>1 DEF Seg!BulkInstalled, Seg!NoManifest
<1>3. CASE Seg!Begin \/ Seg!OpenReader
  BY <1>3, OpenKeeps DEF Seg!BulkInstalled
<1>4. CASE Seg!Chunk
  BY <1>4, ChunkKeeps DEF Seg!BulkInstalled
<1>5. CASE Seg!ReportFailure
  <2>1. /\ drive.phase = "open" /\ drive.todo # {} /\ Seg!Min(drive.todo) \notin DOMAIN files[owner]
    BY <1>5, FailureKeeps
  <2>2. drive.todo \in SUBSET Seg!Seqs /\ drive.todo \subseteq DOMAIN files[owner]
    BY <2>1 DEF SegInv, WriterFollows, DriveApart
  <2>3. Seg!Min(drive.todo) \in drive.todo
    BY <2>1, <2>2, LeastSeq
  <2> QED BY <2>1, <2>2, <2>3
<1>6. CASE Seg!Finish
  BY <1>6, FinishKeeps DEF Seg!BulkInstalled
<1>7. CASE Seg!Complete \/ \E n \in Nodes : Seg!Restart(n)
  BY <1>7, EndKeeps DEF Seg!BulkInstalled, Seg!NoDrive
<1>8. CASE UNCHANGED Seg!vars
  BY <1>8 DEF Seg!vars, Seg!BulkInstalled
<1> QED BY <1>1, <1>2, <1>3, <1>4, <1>5, <1>6, <1>7, <1>8 DEF Seg!Next, Seg!DriveStep

\* A bulk sync the driver takes for finished has installed every segment of
\* the manifest with the content its CRC was taken of, as long as the source
\* collects nothing; with gc_up_to in the way the end frame's failure is taken
\* for success (README, further disagreements, segments_collected).
THEOREM BulkIsInstalled == SegSized /\ MaxGcs = 0 => (Seg!Spec => []Seg!BulkInstalled)
<1> SUFFICES ASSUME SegSized, MaxGcs = 0 PROVE Seg!Spec => []Seg!BulkInstalled
  OBVIOUS
<1>1. Seg!Init => SegInv /\ Uncollected
  BY SegInit DEF Uncollected, Seg!Init, Seg!NoDrive, Seg!BulkInstalled
<1>2. SegInv /\ Uncollected /\ [Seg!Next]_Seg!vars => SegInv' /\ Uncollected'
  BY SegStep, UncollectedStep
<1>3. SegInv /\ Uncollected => Seg!BulkInstalled
  BY DEF Uncollected
<1> QED BY <1>1, <1>2, <1>3, PTL DEF Seg!Spec

---------------------------------------------------------------------------
(* Drains, rebalances, drivers and membership changes on one table, for any  *)
(* nodes, partitions and requests.                                           *)

\* The table has an entry for every partition, and the changes are counted.
TableKept == table = [p \in Partitions |-> table[p]] /\ changes \in Nat

\* A step honours the transfers under way.
Honours ==
  \A p \in Partitions :
    table[p].kind = "Transferring" /\ changes' = changes =>
      table'[p] = table[p] \/ table'[p] \in Bulk!Outcomes(p)

\* An entry of the Raft log that is not a RebalancePartitions entry changes one
\* partition.
LEMMA ApplyKeeps ==
  ASSUME TableKept, NEW r, table' = Bulk!ApplyRequest(table, r)
  PROVE  /\ table' = [p \in Partitions |-> table'[p]]
         /\ \A p \in Partitions : p # r.part \/ ~Bulk!Accepts(table, r) => table'[p] = table[p]
         /\ r.part \in Partitions /\ r.op # "Begin" /\ Bulk!Accepts(table, r)
              => table'[r.part] = Bulk!Owned(r.node)
BY DEF Bulk!ApplyRequest, TableKept

\* A step of a request that commits nothing, and the start of a drive.
LEMMA RequestKeeps ==
  ASSUME TableKept,
         \/ \E r \in Requests :
              \/ \E n \in Nodes : Bulk!StartDrain(r, n)
              \/ Bulk!StartRebalance(r) \/ Bulk!ReadOwner(r) \/ Bulk!JobDone(r)
              \/ Bulk!LoseLeadership(r)
         \/ \E p \in Partitions : Bulk!StartDrive(p)
  PROVE  UNCHANGED <<table, changes>>
BY DEF Bulk!StartDrain, Bulk!StartRebalance, Bulk!StartJob, Bulk!ReadOwner, Bulk!JobDone,
       Bulk!LoseLeadership, Bulk!StartDrive

\* A BeginTransfer, however stale, is accepted only where nothing is under way.
LEMMA BeginHonours ==
  ASSUME TableKept, NEW b, changes' = changes,
         table' = Bulk!ApplyRequest(table, Bulk!BeginReq(b.part, b.node, b.target))
  PROVE  TableKept' /\ Honours
<1> DEFINE q == Bulk!BeginReq(b.part, b.node, b.target)
<1>1. q.part = b.part /\ q.op = "Begin" /\ q.node = b.node
  BY DEF Bulk!BeginReq
<1>2. Bulk!Accepts(table, q) => table[q.part].kind = "Owned"
  BY <1>1 DEF Bulk!Accepts, Bulk!Owned
<1> HIDE DEF q
<1>3. /\ table' = [p \in Partitions |-> table'[p]]
      /\ \A p \in Partitions : p # q.part \/ ~Bulk!Accepts(table, q) => table'[p] = table[p]
  BY ApplyKeeps DEF q
<1> QED BY <1>2, <1>3 DEF Honours, TableKept

\* A CompleteTransfer, however late, ends only a transfer to its own target.
LEMMA CompleteHonours ==
  ASSUME TableKept, NEW d, changes' = changes,
         table' = Bulk!ApplyRequest(table, Bulk!CompleteReq(d.part, d.target))
  PROVE  TableKept' /\ Honours
<1> DEFINE q == Bulk!CompleteReq(d.part, d.target)
<1>1. q.part = d.part /\ q.op = "Complete" /\ q.node = d.target
  BY DEF Bulk!CompleteReq
<1>2. Bulk!Accepts(table, q) /\ table[q.part].kind = "Transferring"
        => table[q.part].target = q.node
  BY <1>1 DEF Bulk!Accepts, Bulk!Owned
<1> HIDE DEF q
<1>3. /\ table' = [p \in Partitions |-> table'[p]]
      /\ \A p \in Partitions : p # q.part \/ ~Bulk!Accepts(table, q) => table'[p] = table[p]
      /\ q.part \in Partitions /\ q.op # "Begin" /\ Bulk!Accepts(table, q)
           => table'[q.part] = Bulk!Owned(q.node)
  BY ApplyKeeps DEF q
<1> QED BY <1>1, <1>2, <1>3 DEF Honours, TableKept, Bulk!Outcomes

LEMMA BulkStep ==
  ASSUME TableKept, [Bulk!Next]_Bulk!vars
  PROVE  TableKept' /\ Honours
<1>1. CASE UNCHANGED <<table, changes>>
  BY <1>1 DEF Honours, TableKept
<1>2. ASSUME NEW r \in Requests, Bulk!CommitBegin(r) \/ Bulk!ProposalFails(r)
      PROVE  TableKept' /\ Honours
  <2> DEFINE b == job[r].read
  <2>1. /\ changes' = changes
        /\ \/ table' = table
           \/ table' = Bulk!ApplyRequest(table, Bulk!BeginReq(b.part, b.node, b.target))
    BY <1>2 DEF Bulk!CommitBegin, Bulk!ProposalFails
  <2> QED BY <1>1, <2>1, BeginHonours
<1>3. ASSUME NEW d \in drives, Bulk!CompleteTransfer(d) \/ Bulk!DriveFails(d)
      PROVE  TableKept' /\ Honours
  <2>1. /\ changes' = changes
        /\ \/ table' = table
           \/ table' = Bulk!ApplyRequest(table, Bulk!CompleteReq(d.part, d.target))
    BY <1>3 DEF Bulk!CompleteTransfer, Bulk!DriveFails
  <2> QED BY <1>1, <2>1, CompleteHonours
<1>4. ASSUME NEW d \in drives, Bulk!AbortTransfer(d) PROVE TableKept' /\ Honours
  <2> DEFINE q == Bulk!AbortReq(d.part, d.node)
  <2>1. /\ changes' = changes /\ d.aborts
        /\ table' = table \/ table' = Bulk!ApplyRequest(table, q)
    BY <1>4 DEF Bulk!AbortTransfer
  <2>2. q.part = d.part /\ q.op = "Abort" /\ q.node = d.node
    BY DEF Bulk!AbortReq
  <2> HIDE DEF q
  <2>3. ASSUME table' = Bulk!ApplyRequest(table, q) PROVE TableKept' /\ Honours
    <3>1. /\ table' = [x \in Partitions |-> table'[x]]
          /\ \A x \in Partitions : x # q.part \/ ~Bulk!Accepts(table, q) => table'[x] = table[x]
          /\ q.part \in Partitions /\ q.op # "Begin" /\ Bulk!Accepts(table, q)
                => table'[q.part] = Bulk!Owned(q.node)
      BY <2>3, ApplyKeeps
    <3>2. Bulk!Owned(q.node) \in Bulk!Outcomes(q.part)
      BY <2>1, <2>2 DEF Bulk!Outcomes
    <3> QED BY <2>1, <2>2, <3>1, <3>2 DEF Honours, TableKept
  <2> QED BY <1>1, <2>1, <2>3
<1>5. ASSUME NEW m, Bulk!ChangeMembers(m) PROVE TableKept' /\ Honours
  <2>1. changes' = changes + 1 /\ table' \in Bulk!Rebalanced(table, m)
    BY <1>5 DEF Bulk!ChangeMembers
  <2>2. changes' \in Nat /\ changes' # changes
    BY <2>1 DEF TableKept
  <2>3. PICK moves : table' = Bulk!ApplyMoves(table, moves)
    BY <2>1 DEF Bulk!Rebalanced
  <2>4. table' = [p \in Partitions |-> table'[p]]
    BY <2>3 DEF Bulk!ApplyMoves
  <2> QED BY <2>2, <2>4 DEF Honours, TableKept
<1>6. CASE Bulk!Finished \/ UNCHANGED Bulk!vars
  BY <1>1, <1>6 DEF Bulk!Finished, Bulk!vars
<1> QED BY <1>1, <1>2, <1>3, <1>4, <1>5, <1>6, RequestKeeps DEF Bulk!Next

\* "the in-flight transfer is honoured rather than fought": whatever drains and
\* rebalances propose from stale plans, and whatever proposals fail or are
\* committed unseen, a transfer that has begun is ended by the drives of its
\* partition alone: it goes to its own target, or to the source of a drive
\* that gave up, unless a membership change's RebalancePartitions entry
\* assigns the partition directly.
THEOREM TransfersHonoured == Bulk!Spec => Bulk!TransferHonoured
<1>1. Bulk!Init => TableKept
  BY DEF Bulk!Init, TableKept
<1>2. TableKept /\ [Bulk!Next]_Bulk!vars => TableKept' /\ [Honours]_Bulk!vars
  BY BulkStep
<1> QED BY <1>1, <1>2, PTL DEF Bulk!Spec, Bulk!TransferHonoured, Honours

---------------------------------------------------------------------------
(* Joins, removals and elections, for any nodes, seeds, calls and bounds.    *)

\* What the calls in progress and the join are made of.
CallShape ==
  /\ ops = [s \in Slots |-> [kind |-> ops[s].kind, node |-> ops[s].node, at |-> ops[s].at,
                             stage |-> ops[s].stage, nodes |-> ops[s].nodes]]
  /\ join = [state |-> join.state, seed |-> join.seed, slot |-> join.slot, hint |-> join.hint]

\* A call that is about to demote its node is not running on it, and somebody
\* asked for the node's removal.
RemovalsAsked ==
  \A s \in Slots :
    /\ ops[s].stage = "demote" => ops[s].node # ops[s].at
    /\ ops[s].stage \in {"demote", "drop"} => ops[s].node \in removed

\* The handler the joining node waits for adds it, and is done when it is a
\* voter.
JoinServed ==
  join.state = "wait" =>
    /\ join.slot \in Slots
    /\ ops[join.slot].kind = "join" /\ ops[join.slot].node = Joiner
    /\ ops[join.slot].stage \in {"learner", "promote", "done", "failed"}
    /\ ops[join.slot].stage = "done" /\ Joiner \notin removed => Joiner \in voters

MemInv == CallShape /\ RemovalsAsked /\ JoinServed /\ Mem!LeaderIsVoter /\ Mem!JoinedIsVoter

LEMMA MemInit == Mem!Init => MemInv
BY DEF Mem!Init, Mem!NoOp, MemInv, CallShape, RemovalsAsked, JoinServed, Mem!LeaderIsVoter,
       Mem!JoinedIsVoter

\* A call goes to another stage; only one that is no removal's and that serves
\* no join, or the next of a removal, is left open here.
LEMMA StageKeeps ==
  ASSUME MemInv, NEW s \in Slots, NEW st,
         Mem!Stage(s, st),
         st # "demote", st = "drop" => ops[s].stage = "demote", UNCHANGED <<removed, join>>
  PROVE  /\ CallShape' /\ RemovalsAsked'
         /\ \A r \in Slots : /\ ops'[r].kind = ops[r].kind /\ ops'[r].node = ops[r].node
                             /\ ops'[r].stage = IF r = s THEN st ELSE ops[r].stage
<1> USE DEF MemInv
<1>1. \A r \in Slots : /\ ops'[r].kind = ops[r].kind /\ ops'[r].node = ops[r].node
                       /\ ops'[r].at = ops[r].at /\ ops'[r].nodes = ops[r].nodes
                       /\ ops'[r].stage = IF r = s THEN st ELSE ops[r].stage
  BY DEF CallShape, Mem!Stage, Mem!SetOp
<1>2. CallShape'
  BY DEF CallShape, Mem!Stage, Mem!SetOp
<1>3. RemovalsAsked'
  BY <1>1 DEF RemovalsAsked
<1> QED BY <1>1, <1>2, <1>3

\* The steps of a call on the leader.
LEMMA OpStepKeeps ==
  ASSUME MemInv, NEW s \in Slots, Mem!OpStep(s)
  PROVE  MemInv'
<1> USE DEF MemInv
<1>1. CASE Mem!AddLearner(s)
  <2>1. /\ UNCHANGED <<voters, leader, join, removed>> /\ ops[s].stage = "learner"
        /\ Mem!Stage(s, "promote")
    BY <1>1 DEF Mem!AddLearner, Mem!OnLeader
  <2>2. /\ CallShape' /\ RemovalsAsked'
        /\ \A r \in Slots : /\ ops'[r].kind = ops[r].kind /\ ops'[r].node = ops[r].node
                            /\ ops'[r].stage = IF r = s THEN "promote" ELSE ops[r].stage
    BY <2>1, StageKeeps
  <2>3. JoinServed' /\ Mem!LeaderIsVoter' /\ Mem!JoinedIsVoter'
    BY <2>1, <2>2 DEF JoinServed, Mem!LeaderIsVoter, Mem!JoinedIsVoter
  <2> QED BY <2>2, <2>3
<1>2. CASE Mem!Promote(s)
  <2>1. /\ UNCHANGED <<leader, join, removed>> /\ ops[s].stage = "promote"
        /\ voters \subseteq voters'
    BY <1>2 DEF Mem!Promote, Mem!OnLeader
  <2>2. PICK st \in {"read", "done", "failed"} :
          /\ Mem!Stage(s, st)
          /\ st = "done" => ops[s].node \in voters'
          /\ st = "read" => ops[s].kind = "add"
    BY <1>2 DEF Mem!Promote
  <2>3. /\ CallShape' /\ RemovalsAsked'
        /\ \A r \in Slots : /\ ops'[r].kind = ops[r].kind /\ ops'[r].node = ops[r].node
                            /\ ops'[r].stage = IF r = s THEN st ELSE ops[r].stage
    BY <2>1, <2>2, StageKeeps
  <2>4. JoinServed' /\ Mem!LeaderIsVoter' /\ Mem!JoinedIsVoter'
    BY <2>1, <2>2, <2>3 DEF JoinServed, Mem!LeaderIsVoter, Mem!JoinedIsVoter
  <2> QED BY <2>3, <2>4
<1>3. CASE Mem!Demote(s)
  <2>1. /\ UNCHANGED <<leader, join, removed>> /\ ops[s].stage = "demote" /\ ops[s].at = leader
        /\ voters' = voters \ {ops[s].node}
        /\ Mem!Stage(s, "drop")
    BY <1>3 DEF Mem!Demote, Mem!OnLeader
  <2>2. /\ CallShape' /\ RemovalsAsked'
        /\ \A r \in Slots : /\ ops'[r].kind = ops[r].kind /\ ops'[r].node = ops[r].node
                            /\ ops'[r].stage = IF r = s THEN "drop" ELSE ops[r].stage
    BY <2>1, StageKeeps
  <2>3. ops[s].node # leader /\ ops[s].node \in removed
    BY <2>1 DEF RemovalsAsked
  <2>4. JoinServed' /\ Mem!LeaderIsVoter' /\ Mem!JoinedIsVoter'
    BY <2>1, <2>2, <2>3 DEF JoinServed, Mem!LeaderIsVoter, Mem!JoinedIsVoter
  <2> QED BY <2>2, <2>4
<1>4. CASE Mem!DropNode(s) \/ Mem!ProposeRebalance(s) \/ Mem!StepFails(s)
  <2>1. PICK st \in {"read", "done", "failed"} :
          Mem!Stage(s, st) /\ (st = "failed" \/ ops[s].stage \in {"drop", "propose"})
    BY <1>4 DEF Mem!DropNode, Mem!ProposeRebalance, Mem!StepFails, Mem!OnLeader
  <2>2. UNCHANGED <<voters, leader, join, removed>>
    BY <1>4 DEF Mem!DropNode, Mem!ProposeRebalance, Mem!StepFails, Mem!raft
  <2>3. /\ CallShape' /\ RemovalsAsked'
        /\ \A r \in Slots : /\ ops'[r].kind = ops[r].kind /\ ops'[r].node = ops[r].node
                            /\ ops'[r].stage = IF r = s THEN st ELSE ops[r].stage
    BY <2>1, <2>2, StageKeeps
  <2>4. JoinServed' /\ Mem!LeaderIsVoter' /\ Mem!JoinedIsVoter'
    BY <2>1, <2>2, <2>3 DEF JoinServed, Mem!LeaderIsVoter, Mem!JoinedIsVoter
  <2> QED BY <2>3, <2>4
<1>5. CASE Mem!ReadMembers(s)
  <2>1. /\ UNCHANGED <<voters, leader, join, removed>> /\ ops[s].stage = "read"
        /\ ops' = [ops EXCEPT ![s] = [ops[s] EXCEPT !.nodes = Mem!Members, !.stage = "propose"]]
    BY <1>5 DEF Mem!ReadMembers, Mem!SetOp, Mem!raft
  <2> DEFINE v == [kind |-> ops[s].kind, node |-> ops[s].node, at |-> ops[s].at,
                   stage |-> "propose", nodes |-> Mem!Members]
  <2>b. [ops[s] EXCEPT !.nodes = Mem!Members, !.stage = "propose"] = v
    <3>1. ops[s] = [kind |-> ops[s].kind, node |-> ops[s].node, at |-> ops[s].at,
                    stage |-> ops[s].stage, nodes |-> ops[s].nodes]
      BY DEF CallShape
    <3>2. PICK q : q = [ops[s] EXCEPT !.nodes = Mem!Members, !.stage = "propose"]
      OBVIOUS
    <3>3. q = v
      BY <3>1, <3>2
    <3> QED BY <3>2, <3>3
  <2>a. ops' = [r \in Slots |-> IF r = s THEN v ELSE ops[r]]
    BY <2>1, <2>b DEF CallShape
  <2>2. \A r \in Slots : /\ ops'[r].kind = ops[r].kind /\ ops'[r].node = ops[r].node
                         /\ ops'[r].at = ops[r].at
                         /\ ops'[r].stage = IF r = s THEN "propose" ELSE ops[r].stage
    BY <2>a
  <2>3. CallShape'
    BY <2>1, <2>a DEF CallShape
  <2>4. RemovalsAsked'
    BY <2>1, <2>2 DEF RemovalsAsked
  <2>5. JoinServed' /\ Mem!LeaderIsVoter' /\ Mem!JoinedIsVoter'
    BY <2>1, <2>2 DEF JoinServed, Mem!LeaderIsVoter, Mem!JoinedIsVoter
  <2> QED BY <2>3, <2>4, <2>5
<1> QED BY <1>1, <1>2, <1>3, <1>4, <1>5 DEF Mem!OpStep

\* A call begins, in a slot the join is not waiting for.
LEMMA BeginKeeps ==
  ASSUME MemInv, NEW s \in Slots, NEW n \in Nodes,
         \/ \E l \in voters : Mem!AddNode(s, n, l) \/ Mem!RemoveNode(s, n, l)
         \/ Mem!Leave(s, n)
  PROVE  MemInv'
<1> USE DEF MemInv
<1>1. PICK k, l, st :
        /\ ops' = [ops EXCEPT ![s] = [kind |-> k, node |-> n, at |-> l, stage |-> st,
                                      nodes |-> {}]]
        /\ UNCHANGED <<voters, leader, join>> /\ join.slot # s
        /\ \/ st = "learner" /\ removed' = removed
           \/ st = "demote" /\ n # l /\ removed' = removed \cup {n}
  BY DEF Mem!AddNode, Mem!RemoveNode, Mem!Leave, Mem!Begin, Mem!SetOp, Mem!raft
<1>2. /\ \A r \in Slots : r # s => ops'[r] = ops[r]
      /\ ops'[s].node = n /\ ops'[s].at = l /\ ops'[s].stage = st
  BY <1>1 DEF CallShape
<1>3. CallShape'
  BY <1>1 DEF CallShape
<1>4. RemovalsAsked'
  BY <1>1, <1>2 DEF RemovalsAsked
<1>5. JoinServed' /\ Mem!LeaderIsVoter' /\ Mem!JoinedIsVoter'
  BY <1>1, <1>2 DEF JoinServed, Mem!LeaderIsVoter, Mem!JoinedIsVoter
<1> QED BY <1>3, <1>4, <1>5

\* The joining node asks, is answered, or loses the connection.
LEMMA JoinKeeps ==
  ASSUME MemInv, Mem!StartJoin \/ Mem!JoinStep \/ Mem!JoinLost
  PROVE  MemInv'
<1> USE DEF MemInv
<1>1. UNCHANGED <<voters, leader, removed>>
  BY DEF Mem!StartJoin, Mem!JoinStep, Mem!JoinLost, Mem!SeedRejects, Mem!JoinAnswer,
         Mem!SeedAccepts, Mem!raft
<1>0. Mem!LeaderIsVoter'
  BY <1>1 DEF Mem!LeaderIsVoter
<1>2. CASE \E s \in Slots : Mem!SeedAccepts(s)
  <2>1. PICK s \in Slots : Mem!SeedAccepts(s)
    BY <1>2
  <2>2. /\ join' = [join EXCEPT !.state = "wait", !.slot = s]
        /\ ops' = [ops EXCEPT ![s] = [kind |-> "join", node |-> Joiner, at |-> leader,
                                      stage |-> "learner", nodes |-> {}]]
    BY <2>1 DEF Mem!SeedAccepts, Mem!SetOp, Mem!JoinOp
  <2>3. /\ \A r \in Slots : r # s => ops'[r] = ops[r]
        /\ ops'[s].kind = "join" /\ ops'[s].node = Joiner /\ ops'[s].stage = "learner"
        /\ join'.state = "wait" /\ join'.slot = s
    BY <2>2 DEF CallShape
  <2>4. CallShape'
    BY <2>2 DEF CallShape
  <2>5. RemovalsAsked'
    BY <1>1, <2>3 DEF RemovalsAsked
  <2>6. JoinServed' /\ Mem!JoinedIsVoter'
    BY <1>1, <2>3 DEF JoinServed, Mem!JoinedIsVoter
  <2> QED BY <1>0, <2>4, <2>5, <2>6
<1>3. CASE Mem!StartJoin \/ Mem!SeedRejects \/ Mem!JoinAnswer \/ Mem!JoinLost
  <2>1. UNCHANGED ops
    BY <1>3 DEF Mem!StartJoin, Mem!SeedRejects, Mem!JoinAnswer, Mem!JoinLost
  <2>2. CallShape' /\ join'.state \in {"ask", "failed", "joined"}
    BY <1>3, <2>1 DEF Mem!StartJoin, Mem!SeedRejects, Mem!JoinAnswer, Mem!JoinLost, Mem!NextSeed,
                      CallShape
  <2>3. join'.state = "joined" => join.state = "wait" /\ ops[join.slot].stage = "done"
    BY <1>3 DEF Mem!StartJoin, Mem!SeedRejects, Mem!JoinAnswer, Mem!JoinLost, Mem!NextSeed,
                CallShape
  <2>4. RemovalsAsked'
    BY <1>1, <2>1 DEF RemovalsAsked
  <2>5. JoinServed' /\ Mem!JoinedIsVoter'
    BY <1>1, <2>2, <2>3 DEF JoinServed, Mem!JoinedIsVoter
  <2> QED BY <1>0, <2>2, <2>4, <2>5
<1> QED BY <1>2, <1>3 DEF Mem!JoinStep

LEMMA MemStep == MemInv /\ [Mem!Next]_Mem!vars => MemInv'
<1> SUFFICES ASSUME MemInv, [Mem!Next]_Mem!vars PROVE MemInv'
  OBVIOUS
<1>1. CASE /\ UNCHANGED <<voters, ops, join, removed>>
           /\ leader' \in voters
  BY <1>1 DEF MemInv, CallShape, RemovalsAsked, JoinServed, Mem!LeaderIsVoter, Mem!JoinedIsVoter
<1>2. CASE \/ \E n \in Nodes : Mem!Elect(n) \/ Mem!ApplyNext(n)
           \/ Mem!AssignAgain \/ UNCHANGED Mem!vars
  BY <1>1, <1>2 DEF Mem!Elect, Mem!ApplyNext, Mem!AssignAgain, Mem!vars, Mem!raft, MemInv,
                    Mem!LeaderIsVoter
<1>3. CASE \E s \in Slots : Mem!OpStep(s)
  BY <1>3, OpStepKeeps
<1>4. CASE \E s \in Slots : \E n \in Nodes :
             \/ \E l \in voters : Mem!AddNode(s, n, l) \/ Mem!RemoveNode(s, n, l)
             \/ Mem!Leave(s, n)
  BY <1>4, BeginKeeps
<1>5. CASE Mem!StartJoin \/ Mem!JoinStep \/ Mem!JoinLost
  BY <1>5, JoinKeeps
<1> QED BY <1>2, <1>3, <1>4, <1>5 DEF Mem!Next

\* "The leader cannot remove itself": no call, on whatever node it runs and
\* however leadership moves during it, takes the leader out of the voters.
THEOREM LeaderStaysVoter == Mem!Spec => []Mem!LeaderIsVoter
<1>1. MemInv => Mem!LeaderIsVoter
  BY DEF MemInv
<1> QED BY <1>1, MemInit, MemStep, PTL DEF Mem!Spec

\* A node whose join() returned Ok is a voter unless somebody asked for its
\* removal, whatever answers were lost, and however often handle_add_node ran.
THEOREM JoinedNodeVotes == Mem!Spec => []Mem!JoinedIsVoter
<1>1. MemInv => Mem!JoinedIsVoter
  BY DEF MemInv
<1> QED BY <1>1, MemInit, MemStep, PTL DEF Mem!Spec

---------------------------------------------------------------------------
(* The replicated registry, for any nodes, commands, restarts and failures. *)

\* h[k] is the definition the first k entries describe.
History(h) ==
  h = [k \in 0 .. Len(log) |-> IF k = 0 THEN Reg!Absent ELSE Reg!Outcome(h[k - 1], log[k]).def]

\* Each entry of the history is the outcome of its command on the one before.
LEMMA HistoryStep ==
  ASSUME Len(log) \in Nat, NEW h, History(h), NEW k \in 1 .. Len(log)
  PROVE  h[k] = Reg!Outcome(h[k - 1], log[k]).def
<1>1. k \in 0 .. Len(log) /\ k # 0
  OBVIOUS
<1> QED BY <1>1 DEF History

\* A local update that is still to come belongs to a committed upgrade, which
\* its node has in its log.
RegShape ==
  /\ log \in Seq(Commands)
  /\ applied \in [Nodes -> Nat] /\ has \in [Nodes -> Nat] /\ snap \in [Nodes -> Nat]
  /\ \A n \in Nodes : snap[n] <= applied[n] /\ applied[n] <= has[n] /\ has[n] <= Len(log)
  /\ purged \in Nat
  /\ \A u \in meta : /\ u.node \in Nodes /\ u.index \in 1 .. Len(log)
                     /\ u.index <= has[u.node] /\ log[u.index].op = "upgrade"
  /\ pipe = [n \in Nodes |-> pipe[n]]

\* Every node that was handed all entries holds the definition of those it has
\* applied.
FollowsLog == \E h : History(h) /\ \A n \in Nodes \ strayed : pipe[n] = h[applied[n]]

RegInv == RegShape /\ FollowsLog

LEMMA RegInit == Reg!Init => RegInv
<1> SUFFICES ASSUME Reg!Init PROVE RegInv
  OBVIOUS
<1>1. log = <<>> /\ Len(log) = 0
  BY DEF Reg!Init
<1>2. RegShape
  BY <1>1 DEF Reg!Init, RegShape
<1>3. FollowsLog
  <2> DEFINE h == [k \in 0 .. 0 |-> Reg!Absent]
  <2>1. History(h)
    BY <1>1 DEF History
  <2>2. \A n \in Nodes \ strayed : pipe[n] = h[applied[n]]
    BY DEF Reg!Init
  <2> QED BY <2>1, <2>2 DEF FollowsLog
<1> QED BY <1>2, <1>3 DEF RegInv

\* A command is committed, and the history is one definition longer.
LEMMA ProposeFollows ==
  ASSUME RegInv, NEW n \in Nodes, NEW c \in Commands, Reg!Propose(n, c)
  PROVE  RegInv'
<1> USE DEF RegInv
<1>1. /\ log' = Append(log, c) /\ has[n] = Len(log) /\ has' = [has EXCEPT ![n] = @ + 1]
      /\ UNCHANGED <<purged, snap, applied, pipe, strayed>>
  BY DEF Reg!Propose
<1>2. /\ log' \in Seq(Commands) /\ Len(log') = Len(log) + 1 /\ Len(log) \in Nat
      /\ \A k \in 1 .. Len(log) : log'[k] = log[k]
      /\ log'[Len(log) + 1] = c
  BY <1>1 DEF RegShape
<1>3. RegShape'
  <2>1. has' \in [Nodes -> Nat] /\ \A m \in Nodes : has[m] <= has'[m] /\ has'[m] <= Len(log')
    BY <1>1, <1>2 DEF RegShape
  <2>2. \A m \in Nodes : applied[m] <= has'[m]
    BY <2>1 DEF RegShape
  <2>3. ASSUME NEW u \in meta'
        PROVE  /\ u.node \in Nodes /\ u.index \in 1 .. Len(log')
               /\ u.index <= has'[u.node] /\ log'[u.index].op = "upgrade"
    <3>1. CASE u \in meta
      <4>1. /\ u.node \in Nodes /\ u.index \in 1 .. Len(log)
            /\ u.index <= has[u.node] /\ log[u.index].op = "upgrade"
        BY <3>1 DEF RegShape
      <4>2. has[u.node] <= has'[u.node] /\ has[u.node] \in Nat /\ has'[u.node] \in Nat
        BY <2>1, <4>1 DEF RegShape
      <4> QED BY <1>2, <4>1, <4>2
    <3>2. CASE u \notin meta
      <4>1. c.op = "upgrade" /\ u = [node |-> n, index |-> Len(log) + 1]
        BY <3>2 DEF Reg!Propose
      <4>2. has'[n] = Len(log) + 1
        BY <1>1 DEF RegShape
      <4> QED BY <1>2, <4>1, <4>2
    <3> QED BY <3>1, <3>2
  <2> QED BY <1>1, <1>2, <2>1, <2>2, <2>3 DEF RegShape
<1>4. PICK h : History(h) /\ \A m \in Nodes \ strayed : pipe[m] = h[applied[m]]
  BY DEF FollowsLog
<1> DEFINE N == Len(log)
<1>a. PICK g : g = [k \in 0 .. N + 1 |-> IF k <= N THEN h[k] ELSE Reg!Outcome(h[N], c).def]
  OBVIOUS
<1>5. /\ h[0] = Reg!Absent
      /\ \A k \in 1 .. N : h[k] = Reg!Outcome(h[k - 1], log[k]).def
  <2>1. History(h) /\ Len(log) \in Nat
    BY <1>2, <1>4
  <2> QED BY <2>1 DEF History
<1>6. ASSUME NEW k \in 0 .. N + 1
      PROVE  g[k] = IF k = 0 THEN Reg!Absent ELSE Reg!Outcome(g[k - 1], log'[k]).def
  <2>1. CASE k = 0
    BY <1>2, <1>5, <1>a, <2>1
  <2>2. CASE k \in 1 .. N
    <3>1. g[k] = h[k] /\ g[k - 1] = h[k - 1] /\ log'[k] = log[k]
      BY <1>2, <1>a, <2>2
    <3> QED BY <1>5, <2>2, <3>1
  <2>3. CASE k = N + 1
    <3>1. g[k] = Reg!Outcome(h[N], c).def /\ g[k - 1] = h[N] /\ log'[k] = c /\ k # 0
      BY <1>2, <1>a, <2>3
    <3> QED BY <3>1
  <2> QED BY <1>2, <2>1, <2>2, <2>3
<1>7. DOMAIN g = 0 .. N + 1 /\ g = [k \in 0 .. N + 1 |-> g[k]]
  BY <1>a
<1>8. ASSUME NEW m \in Nodes \ strayed' PROVE pipe'[m] = g[applied'[m]]
  <2>1. applied'[m] = applied[m] /\ applied[m] \in 0 .. N /\ pipe'[m] = pipe[m]
    BY <1>1, <1>2 DEF RegShape
  <2>2. pipe[m] = h[applied[m]]
    BY <1>1, <1>4
  <2> QED BY <1>2, <1>a, <2>1, <2>2
<1>9. g = [k \in 0 .. N + 1 |-> IF k = 0 THEN Reg!Absent
                                ELSE Reg!Outcome(g[k - 1], log'[k]).def]
  BY <1>6, <1>7
<1>10. History(g)'
  BY <1>2, <1>9 DEF History
<1>11. FollowsLog'
  BY <1>8, <1>10 DEF FollowsLog
<1> QED BY <1>3, <1>11

\* An entry is applied: the node's definition is the next one of the history.
LEMMA ApplyFollows ==
  ASSUME RegInv, NEW n \in Nodes, Reg!ApplyEntry(n)
  PROVE  RegInv'
<1> USE DEF RegInv
<1> DEFINE c == log[applied[n] + 1]
<1>1. /\ UNCHANGED <<log, purged, has, snap, meta, strayed>>
      /\ applied[n] < has[n]
      /\ applied' = [applied EXCEPT ![n] = @ + 1]
      /\ pipe' = [pipe EXCEPT ![n] = Reg!Outcome(pipe[n], c).def]
  BY DEF Reg!ApplyEntry, Reg!ToApply
<1>2. applied[n] + 1 \in 1 .. Len(log) /\ Len(log) \in Nat
  BY <1>1 DEF RegShape
<1>3. RegShape'
  <2>1. applied' \in [Nodes -> Nat]
    BY <1>1 DEF RegShape
  <2>2. \A m \in Nodes : applied'[m] <= has[m] /\ snap[m] <= applied'[m]
    BY <1>1 DEF RegShape
  <2> QED BY <1>1, <2>1, <2>2 DEF RegShape
<1>4. PICK h : History(h) /\ \A m \in Nodes \ strayed : pipe[m] = h[applied[m]]
  BY DEF FollowsLog
<1>5. h[applied[n] + 1] = Reg!Outcome(h[applied[n]], c).def
  <2>1. \A k \in 1 .. Len(log) : h[k] = Reg!Outcome(h[k - 1], log[k]).def
    <3>1. History(h)
      BY <1>4
    <3> QED BY <1>2, <3>1 DEF History
  <2>2. PICK k \in 1 .. Len(log) : k = applied[n] + 1
    BY <1>2
  <2>3. h[k] = Reg!Outcome(h[k - 1], log[k]).def
    BY <2>1
  <2>4. k - 1 = applied[n]
    BY <2>2 DEF RegShape
  <2> QED BY <2>2, <2>3, <2>4
<1>6. ASSUME NEW m \in Nodes \ strayed PROVE pipe'[m] = h[applied'[m]]
  <2>1. CASE m = n
    BY <1>1, <1>4, <1>5, <2>1 DEF RegShape
  <2>2. CASE m # n
    BY <1>1, <1>4, <2>2 DEF RegShape
  <2> QED BY <2>1, <2>2
<1>7. History(h)'
  BY <1>1, <1>4 DEF History
<1>8. FollowsLog'
  BY <1>1, <1>6, <1>7 DEF FollowsLog
<1> QED BY <1>3, <1>8

\* A process ends; unless a snapshot stands for them, the entries are there to
\* be applied again from the first.
LEMMA RestartFollows ==
  ASSUME RegInv, NEW n \in Nodes, Reg!Restart(n)
  PROVE  RegInv'
<1> USE DEF RegInv
<1>1. /\ UNCHANGED <<log, purged, has, snap>> /\ meta' \subseteq meta
      /\ applied' = [applied EXCEPT ![n] = snap[n]]
      /\ pipe' = [pipe EXCEPT ![n] = Reg!Absent]
      /\ \A m \in Nodes \ strayed' : m \notin strayed \/ m = n
      /\ n \notin strayed' => ~(snap[n] > 0)
  BY DEF Reg!Restart
<1>2. RegShape'
  <2>1. applied' \in [Nodes -> Nat]
    BY <1>1 DEF RegShape
  <2>2. \A m \in Nodes : applied'[m] <= has[m] /\ snap[m] <= applied'[m]
    BY <1>1 DEF RegShape
  <2>3. \A u \in meta' : u \in meta
    BY <1>1
  <2> QED BY <1>1, <2>1, <2>2, <2>3 DEF RegShape
<1>3. PICK h : History(h) /\ \A m \in Nodes \ strayed : pipe[m] = h[applied[m]]
  BY DEF FollowsLog
<1>4. h[0] = Reg!Absent
  BY <1>3 DEF History, RegShape
<1>5. ASSUME NEW m \in Nodes \ strayed' PROVE pipe'[m] = h[applied'[m]]
  <2>1. CASE m = n
    <3>1. snap[n] = 0
      BY <1>1, <2>1 DEF RegShape
    <3> QED BY <1>1, <1>4, <2>1, <3>1 DEF RegShape
  <2>2. CASE m # n
    BY <1>1, <1>3, <2>2 DEF RegShape
  <2> QED BY <2>1, <2>2
<1>6. History(h)'
  BY <1>1, <1>3 DEF History
<1> QED BY <1>2, <1>5, <1>6 DEF FollowsLog

\* The local update after an upgrade that nothing has overtaken finds its
\* processor already in the definition.
LEMMA LocalFollows ==
  ASSUME RegInv, NEW u \in meta, Reg!LocalUpgrade(u)
  PROVE  RegInv'
<1> USE DEF RegInv
<1> DEFINE n == u.node
           p == log[u.index].proc
<1>1. /\ UNCHANGED <<log, purged, has, snap, applied>> /\ meta' \subseteq meta
      /\ pipe' = [pipe EXCEPT ![n] = Reg!Upgrade(pipe[n], p).def]
      /\ applied[n] >= u.index /\ strayed \subseteq strayed'
      /\ applied[n] > u.index => n \in strayed'
  BY DEF Reg!LocalUpgrade
<1>2. n \in Nodes /\ u.index \in 1 .. Len(log) /\ log[u.index].op = "upgrade"
  BY DEF RegShape
<1>3. RegShape'
  <2>1. \A v \in meta' : v \in meta
    BY <1>1
  <2> QED BY <1>1, <2>1 DEF RegShape
<1>4. PICK h : History(h) /\ \A m \in Nodes \ strayed : pipe[m] = h[applied[m]]
  BY DEF FollowsLog
<1>5. ASSUME NEW m \in Nodes \ strayed' PROVE pipe'[m] = h[applied'[m]]
  <2>1. CASE m = n
    <3>1. applied[n] = u.index /\ u.index - 1 \in 0 .. Len(log)
      BY <1>1, <1>2, <2>1 DEF RegShape
    <3>2. pipe[n] = Reg!ApplyUpgrade(h[u.index - 1], p).def
      <4>1. h[u.index] = Reg!Outcome(h[u.index - 1], log[u.index]).def
        <5>1. Len(log) \in Nat
          BY DEF RegShape
        <5>2. u.index \in 1 .. Len(log) /\ History(h)
          BY <1>2, <1>4
        <5> QED BY <5>1, <5>2, HistoryStep
      <4>2. Reg!Outcome(h[u.index - 1], log[u.index]) = Reg!ApplyUpgrade(h[u.index - 1], p)
        BY <1>2 DEF Reg!Outcome
      <4> QED BY <1>1, <1>4, <2>1, <3>1, <4>1, <4>2
    <3>3. Reg!Upgrade(pipe[n], p).def = pipe[n]
      <4> DEFINE d == h[u.index - 1]
      <4>1. CASE d.state = "absent"
        BY <3>2, <4>1 DEF Reg!ApplyUpgrade, Reg!Upgrade, Reg!Err
      <4>2. CASE d.state # "absent"
        <5>1. pipe[n] = [d EXCEPT !.proc = p]
          BY <3>2, <4>2 DEF Reg!ApplyUpgrade, Reg!Ok
        <5>2. [pipe[n] EXCEPT !.proc = p] = pipe[n]
          BY <5>1
        <5> QED BY <5>2 DEF Reg!Upgrade, Reg!Ok, Reg!Err
      <4> QED BY <4>1, <4>2
    <3> QED BY <1>1, <1>4, <2>1, <3>3 DEF RegShape
  <2>2. CASE m # n
    BY <1>1, <1>4, <2>2 DEF RegShape
  <2> QED BY <2>1, <2>2
<1>6. History(h)'
  BY <1>1, <1>4 DEF History
<1> QED BY <1>3, <1>5, <1>6 DEF FollowsLog

\* An entry is passed over, alone or for a snapshot.
LEMMA PassedOver ==
  ASSUME RegInv, NEW n \in Nodes, NEW m \in Nodes,
         Reg!SkipEntry(n) \/ Reg!InstallSnapshot(n, m)
  PROVE  RegInv'
<1> USE DEF RegInv
<1>1. UNCHANGED <<log, purged, meta, pipe>> /\ strayed' = strayed \cup {n}
  BY DEF Reg!SkipEntry, Reg!InstallSnapshot
<1>a. Len(log) \in Nat
  BY DEF RegShape
<1>2. /\ has' \in [Nodes -> Nat] /\ applied' \in [Nodes -> Nat] /\ snap' \in [Nodes -> Nat]
      /\ \A w \in Nodes \ {n} : has'[w] = has[w] /\ applied'[w] = applied[w] /\ snap'[w] = snap[w]
      /\ snap'[n] <= applied'[n] /\ applied'[n] <= has'[n]
      /\ has[n] <= has'[n] /\ has'[n] <= Len(log)
  <2>1. CASE Reg!SkipEntry(n)
    <3>1. /\ applied' = [applied EXCEPT ![n] = applied[n] + 1] /\ applied[n] < has[n]
          /\ UNCHANGED <<has, snap>>
      BY <2>1 DEF Reg!SkipEntry, Reg!ToApply
    <3> QED BY <1>a, <3>1 DEF RegShape
  <2>2. CASE Reg!InstallSnapshot(n, m)
    <3>1. PICK i \in {snap[m], applied[m]} :
            /\ has' = [has EXCEPT ![n] = i] /\ applied' = [applied EXCEPT ![n] = i]
            /\ snap' = [snap EXCEPT ![n] = i]
      BY <2>2 DEF Reg!InstallSnapshot
    <3>2. i \in Nat /\ i >= snap[m] /\ i <= Len(log)
      BY <1>a DEF RegShape
    <3>3. has[n] <= i
      BY <2>2, <3>2 DEF Reg!InstallSnapshot, RegShape
    <3> QED BY <3>1, <3>2, <3>3 DEF RegShape
  <2> QED BY <2>1, <2>2
<1>3. RegShape'
  <2>1. has' \in [Nodes -> Nat] /\ applied' \in [Nodes -> Nat] /\ snap' \in [Nodes -> Nat]
    BY <1>2
  <2>2. ASSUME NEW w \in Nodes
        PROVE  /\ snap'[w] <= applied'[w] /\ applied'[w] <= has'[w]
               /\ has'[w] <= Len(log) /\ has[w] <= has'[w]
    <3>1. CASE w = n
      BY <1>2, <3>1
    <3>2. CASE w # n
      BY <1>2, <3>2 DEF RegShape
    <3> QED BY <3>1, <3>2
  <2>3. ASSUME NEW u \in meta PROVE u.index <= has'[u.node]
    <3>1. u.node \in Nodes /\ u.index \in Nat /\ u.index <= has[u.node]
      BY DEF RegShape
    <3>2. has[u.node] <= has'[u.node] /\ has[u.node] \in Nat /\ has'[u.node] \in Nat
      BY <2>1, <2>2, <3>1 DEF RegShape
    <3> QED BY <3>1, <3>2
  <2> QED BY <1>1, <2>1, <2>2, <2>3 DEF RegShape
<1>4. PICK h : History(h) /\ \A w \in Nodes \ strayed : pipe[w] = h[applied[w]]
  BY DEF FollowsLog
<1>5. \A w \in Nodes \ strayed' : pipe'[w] = h[applied'[w]]
  BY <1>1, <1>2, <1>4 DEF RegShape
<1>6. History(h)'
  BY <1>1, <1>4 DEF History
<1> QED BY <1>3, <1>5, <1>6 DEF FollowsLog

LEMMA RegStep == RegInv /\ [Reg!Next]_Reg!vars => RegInv'
<1> SUFFICES ASSUME RegInv, [Reg!Next]_Reg!vars PROVE RegInv'
  OBVIOUS
<1> USE DEF RegInv
<1>1. CASE /\ UNCHANGED <<log, applied, pipe, meta, strayed>>
           /\ purged' \in Nat /\ has' \in [Nodes -> Nat] /\ snap' \in [Nodes -> Nat]
           /\ \A n \in Nodes : /\ has[n] <= has'[n] /\ has'[n] <= Len(log)
                               /\ snap'[n] <= applied[n]
  <2>1. RegShape'
    BY <1>1 DEF RegShape
  <2>2. \A h : History(h) => History(h)'
    BY <1>1 DEF History
  <2> QED BY <1>1, <2>1, <2>2 DEF FollowsLog
<1>2. CASE UNCHANGED <<log, purged, has, snap, applied, pipe, meta, strayed>>
  BY <1>1, <1>2 DEF RegShape
<1>3. ASSUME NEW n \in Nodes, Reg!Receive(n) PROVE RegInv'
  <2>1. has[n] < Len(log) /\ has' = [has EXCEPT ![n] = @ + 1]
        /\ UNCHANGED <<log, purged, snap, applied, pipe, meta, strayed>>
    BY <1>3 DEF Reg!Receive
  <2>2. has' \in [Nodes -> Nat] /\ \A m \in Nodes : has[m] <= has'[m] /\ has'[m] <= Len(log)
    BY <2>1 DEF RegShape
  <2> QED BY <1>1, <2>1, <2>2 DEF RegShape
<1>5. ASSUME NEW n \in Nodes, Reg!BuildSnapshot(n) PROVE RegInv'
  <2>1. snap' = [snap EXCEPT ![n] = applied[n]]
        /\ UNCHANGED <<log, purged, has, applied, pipe, meta, strayed>>
    BY <1>5 DEF Reg!BuildSnapshot
  <2>2. snap' \in [Nodes -> Nat] /\ \A m \in Nodes : snap'[m] <= applied[m]
    BY <2>1 DEF RegShape
  <2> QED BY <1>1, <2>1, <2>2 DEF RegShape
<1>7. ASSUME NEW n \in Nodes, Reg!Purge(n) PROVE RegInv'
  <2>1. purged' = snap[n] /\ UNCHANGED <<log, has, snap, applied, pipe, meta, strayed>>
    BY <1>7 DEF Reg!Purge
  <2> QED BY <1>1, <2>1 DEF RegShape
<1>4. ASSUME NEW n \in Nodes,
             \/ Reg!InstallApplier(n) \/ Reg!TaskEnds(n)
      PROVE  RegInv'
  BY <1>2, <1>4 DEF Reg!InstallApplier, Reg!TaskEnds
<1>6. CASE UNCHANGED Reg!vars
  BY <1>2, <1>6 DEF Reg!vars
<1> QED BY <1>3, <1>4, <1>5, <1>6, <1>7, ProposeFollows, ApplyFollows, RestartFollows, LocalFollows,
           PassedOver DEF Reg!Next

\* Two histories of one log are the same: the first place where they differ
\* would follow from one where they agree.
LEMMA HistoryUnique ==
  ASSUME Len(log) \in Nat, NEW g, NEW h, History(g), History(h), NEW k \in 0 .. Len(log)
  PROVE  g[k] = h[k]
<1> DEFINE S == {i \in 0 .. Len(log) : g[i] # h[i]}
           R == {yx \in Nat \X Nat : yx[1] < yx[2]}
<1>1. S \subseteq Nat
  OBVIOUS
<1>2. IsWellFoundedOn(R, Nat)
  BY NatLessThanWellFounded, Zenon DEF OpToRel
<1>3. S # {} => \E x \in S : \A y \in S : <<y, x>> \notin R
  BY <1>1, <1>2, WFMin, Zenon
<1>4. \A y, x \in Nat : y < x => <<y, x>> \in R
  OBVIOUS
<1> HIDE DEF R
<1>5. SUFFICES ASSUME S # {} PROVE FALSE
  BY DEF S
<1>6. PICK x \in S : \A y \in S : <<y, x>> \notin R
  BY <1>3, <1>5
<1>7. x \in 0 .. Len(log) /\ g[x] # h[x] /\ g[0] = h[0] /\ x # 0 /\ x - 1 \in 0 .. Len(log)
  BY DEF History
<1>8. x - 1 \notin S
  <2>1. x \in Nat /\ x - 1 \in Nat /\ x - 1 < x
    BY <1>7
  <2>2. <<x - 1, x>> \in R
    BY <1>4, <2>1
  <2> QED BY <1>6, <2>2
<1>9. g[x - 1] = h[x - 1]
  BY <1>7, <1>8
<1>10. /\ g[x] = Reg!Outcome(g[x - 1], log[x]).def
       /\ h[x] = Reg!Outcome(h[x - 1], log[x]).def
  BY <1>7 DEF History
<1> QED BY <1>7, <1>9, <1>10

\* What the log describes.
LEMMA ReplayedIs ==
  ASSUME Len(log) \in Nat, NEW h, History(h), NEW k \in 0 .. Len(log)
  PROVE  Reg!Replayed(k) = h[k]
<1> DEFINE d == CHOOSE f : f = [i \in 0 .. Len(log) |->
                  IF i = 0 THEN Reg!Absent ELSE Reg!Outcome(f[i - 1], log[i]).def]
<1>1. Reg!Replayed(k) = d[k]
  BY DEF Reg!Replayed
<1>2. History(d)
  BY DEF History
<1> HIDE DEF d
<1>3. d[k] = h[k]
  BY <1>2, HistoryUnique
<1> QED BY <1>1, <1>3

\* "every node converges on the same local view of pipelines": a node that was
\* handed every entry holds the definition that the entries it has applied
\* describe, through refused commands, failed builds, calls that hang, restarts
\* and the local update that follows an upgrade.
THEOREM RegistryIsReplayed == Reg!Spec => []Reg!SameView
<1>1. RegInv => Reg!SameView
  <2> SUFFICES ASSUME RegInv, NEW n \in Nodes \ strayed
               PROVE  pipe[n] = Reg!Replayed(applied[n])
    BY DEF Reg!SameView
  <2>1. PICK h : History(h) /\ \A m \in Nodes \ strayed : pipe[m] = h[applied[m]]
    BY DEF RegInv, FollowsLog
  <2>2. Len(log) \in Nat /\ applied[n] \in 0 .. Len(log)
    BY DEF RegInv, RegShape
  <2> QED BY <2>1, <2>2, ReplayedIs
<1>2. Reg!Init => RegInv
  BY RegInit
<1>3. RegInv /\ [Reg!Next]_Reg!vars => RegInv'
  BY RegStep
<1> QED BY <1>1, <1>2, <1>3, PTL DEF Reg!Spec

\* The operations of the two lanes: swaps at once, and upgrades in two steps
\* that are cut over or rolled back.
SwapOps == {"create", "run", "stop", "delete", "upgrade"}
BlueGreenOps == {"create", "run", "blueGreen", "cutover", "rollback"}

\* Pipelines are upgraded in one of the two ways.
OneLane ==
  /\ Commands \subseteq Reg!AllCommands /\ Reg!None \notin Processors
  /\ \/ \A c \in Commands : c.op \in SwapOps
     \/ \A c \in Commands : c.op \in BlueGreenOps

\* Definition d and supervisor entry t agree: a task is there exactly while
\* the definition runs, it serves the declared processor, and an upgrade in two
\* steps has its green processor.
Agree(d, t) ==
  /\ d = [state |-> d.state, proc |-> d.proc, up |-> d.up, conf |-> d.conf]
  /\ \/ t = Reg!NoTask
     \/ /\ t.at = "live"
        /\ t = [at |-> "live", run |-> [proc |-> t.run.proc, green |-> t.run.green,
                                        canary |-> Reg!None, pct |-> 0, conf |-> t.run.conf]]
        /\ t.run.proc = d.proc
  /\ t.at = "live" <=> d.state \in {"running", "upgrading"}
  /\ \/ d.up.kind = "none" /\ d.state # "upgrading"
     \/ /\ d.up.kind = "blueGreen" /\ t.at = "live" /\ d.up.from = d.proc
        /\ t.run.green = d.up.to /\ d.up.to # Reg!None
        /\ \E c \in Commands : c.op = "blueGreen"

LEMMA AgreeShares ==
  ASSUME NEW d, NEW t, Agree(d, t)
  PROVE  /\ t.at = "live" <=> d.state \in {"running", "upgrading"}
         /\ t.at = "live" => Reg!RoutedShare(t.run) = Reg!DeclaredShare(d)
<1>1. t.at = "live" => t.run.canary = Reg!None /\ t.run.proc = d.proc
  BY DEF Agree, Reg!NoTask
<1>2. Reg!DeclaredShare(d) = {d.proc}
  BY DEF Agree, Reg!DeclaredShare
<1>3. t.at = "live" => Reg!RoutedShare(t.run) = {d.proc}
  BY <1>1 DEF Reg!RoutedShare
<1> QED BY <1>2, <1>3 DEF Agree

LEMMA AgreeInit == Agree(Reg!Absent, Reg!NoTask)
BY DEF Agree, Reg!Absent, Reg!NoTask, Reg!NoUpgrade

\* What the calls of PipelineControl leave of a task without a canary.
LEMMA TaskAfter ==
  ASSUME NEW r, r = [proc |-> r.proc, green |-> r.green, canary |-> Reg!None, pct |-> 0,
                     conf |-> r.conf], NEW p
  PROVE  /\ Reg!Swapped(r, p) = [proc |-> p, green |-> r.green, canary |-> Reg!None, pct |-> 0,
                                 conf |-> r.conf]
         /\ Reg!WithGreen(r, p) = [proc |-> r.proc, green |-> p, canary |-> Reg!None, pct |-> 0,
                                   conf |-> r.conf]
         /\ r.green # Reg!None =>
              Reg!CutOver(r) = [proc |-> r.green, green |-> Reg!None, canary |-> Reg!None,
                                pct |-> 0, conf |-> r.conf]
         /\ Reg!RolledBack(r) = [proc |-> r.proc, green |-> Reg!None, canary |-> Reg!None,
                                 pct |-> 0, conf |-> r.conf]
<1>1. PICK q : q = Reg!CutOver(r)
  OBVIOUS
<1>2. r.green # Reg!None => q = [proc |-> r.green, green |-> Reg!None, canary |-> Reg!None,
                                 pct |-> 0, conf |-> r.conf]
  <2> SUFFICES ASSUME r.green # Reg!None
               PROVE  q = [proc |-> r.green, green |-> Reg!None, canary |-> Reg!None,
                           pct |-> 0, conf |-> r.conf]
    OBVIOUS
  <2>1. q = [r EXCEPT !.proc = r.green, !.green = Reg!None]
    BY <1>1 DEF Reg!CutOver
  <2>2. PICK a, g, f : r = [proc |-> a, green |-> g, canary |-> Reg!None, pct |-> 0, conf |-> f]
    OBVIOUS
  <2>3. r.green = g /\ r.conf = f
    BY <2>2
  <2>4. q = [r EXCEPT !.proc = g, !.green = Reg!None]
    BY <2>1, <2>3
  <2>5. q = [proc |-> g, green |-> Reg!None, canary |-> Reg!None, pct |-> 0, conf |-> f]
    BY <2>2, <2>4
  <2> QED BY <2>3, <2>5
<1>3. PICK u : u = Reg!RolledBack(r)
  OBVIOUS
<1>4. u = [proc |-> r.proc, green |-> Reg!None, canary |-> Reg!None, pct |-> 0, conf |-> r.conf]
  BY <1>3 DEF Reg!RolledBack
<1>5. PICK v : v = Reg!Swapped(r, p)
  OBVIOUS
<1>6. v = [proc |-> p, green |-> r.green, canary |-> Reg!None, pct |-> 0, conf |-> r.conf]
  BY <1>5 DEF Reg!Swapped
<1>7. PICK w : w = Reg!WithGreen(r, p)
  OBVIOUS
<1>8. w = [proc |-> r.proc, green |-> p, canary |-> Reg!None, pct |-> 0, conf |-> r.conf]
  BY <1>7 DEF Reg!WithGreen
<1> QED BY <1>1, <1>2, <1>3, <1>4, <1>5, <1>6, <1>7, <1>8

\* A task built from a definition has its processor alone.
LEMMA BuiltIs ==
  ASSUME NEW d
  PROVE  Reg!Built(d) = [proc |-> d.proc, green |-> Reg!None, canary |-> Reg!None, pct |-> 0,
                         conf |-> d.conf]
<1>1. PICK q : q = Reg!Built(d)
  OBVIOUS
<1>2. q = [proc |-> d.proc, green |-> Reg!None, canary |-> Reg!None, pct |-> 0, conf |-> d.conf]
  BY <1>1 DEF Reg!Built, Reg!NoProcessors
<1> QED BY <1>1, <1>2

\* What the operations of the two lanes make of definition d: outcome o of
\* command c.
Became(d, c, o) ==
  \/ o.ok = FALSE /\ o.def = d /\ (c.op = "delete" => d.state = "absent")
  \/ /\ o.ok = TRUE
     /\ \/ /\ c.op = "create" /\ d.state = "absent"
           /\ o.def = [state |-> "created", proc |-> First, up |-> Reg!NoUpgrade, conf |-> 0]
        \/ /\ c.op = "run" /\ d.state # "absent"
           /\ o.def = [state |-> "running", proc |-> d.proc, up |-> d.up, conf |-> d.conf]
        \/ /\ c.op = "stop"
           /\ o.def = [state |-> "stopped", proc |-> d.proc, up |-> d.up, conf |-> d.conf]
        \/ c.op = "delete" /\ o.def = Reg!Absent
        \/ /\ c.op = "upgrade"
           /\ o.def = [state |-> d.state, proc |-> c.proc, up |-> d.up, conf |-> d.conf]
        \/ /\ c.op = "blueGreen" /\ d.state = "running" /\ d.up.kind = "none"
           /\ o.def = [state |-> "upgrading", proc |-> d.proc, conf |-> d.conf,
                       up |-> [kind |-> "blueGreen", from |-> d.proc, to |-> c.proc,
                               step |-> 0]]
        \/ /\ c.op = "cutover" /\ d.up.kind = "blueGreen"
           /\ o.def = [state |-> "running", proc |-> d.up.to, up |-> Reg!NoUpgrade,
                       conf |-> d.conf]
        \/ /\ c.op = "rollback" /\ d.up.kind = "blueGreen"
           /\ o.def = [state |-> "running", proc |-> d.up.from, up |-> Reg!NoUpgrade,
                       conf |-> d.conf]

LEMMA DefinitionAfter ==
  ASSUME NEW d, d = [state |-> d.state, proc |-> d.proc, up |-> d.up, conf |-> d.conf],
         d.up.kind \in {"none", "blueGreen"}, NEW c, c.op \in SwapOps \cup BlueGreenOps,
         NEW o, o = Reg!Outcome(d, c)
  PROVE  Became(d, c, o)
<1> USE DEF Reg!Ok, Reg!Err, Became
<1>1. CASE c.op = "create"
  BY <1>1 DEF Reg!Outcome, Reg!Create, Reg!New
<1>2. CASE c.op \in {"run", "stop"}
  <2>1. PICK s \in {"running", "stopped"} :
          o = Reg!ApplySetState(d, s) /\ (s = "running" <=> c.op = "run")
    BY <1>2 DEF Reg!Outcome
  <2>2. PICK q : q = [d EXCEPT !.state = s]
    OBVIOUS
  <2>3. q = [state |-> s, proc |-> d.proc, up |-> d.up, conf |-> d.conf]
    BY <2>2
  <2> QED BY <1>2, <2>1, <2>2, <2>3 DEF Reg!ApplySetState
<1>3. CASE c.op = "delete"
  BY <1>3 DEF Reg!Outcome, Reg!ApplyDelete
<1>4. CASE c.op = "upgrade"
  <2>1. PICK q : q = [d EXCEPT !.proc = c.proc]
    OBVIOUS
  <2>2. q = [state |-> d.state, proc |-> c.proc, up |-> d.up, conf |-> d.conf]
    BY <2>1
  <2>3. o = IF d.state = "absent" THEN Reg!Err(d) ELSE Reg!Ok(q, <<>>)
    BY <1>4, <2>1 DEF Reg!Outcome, Reg!ApplyUpgrade
  <2> QED BY <1>4, <2>2, <2>3
<1>5. CASE c.op = "blueGreen"
  <2> DEFINE up == [kind |-> "blueGreen", from |-> d.proc, to |-> c.proc, step |-> 0]
  <2>1. PICK q : q = [d EXCEPT !.state = "upgrading", !.up = up]
    OBVIOUS
  <2>2. q = [state |-> "upgrading", proc |-> d.proc, conf |-> d.conf, up |-> up]
    BY <2>1
  <2>3. o = IF d.state = "running" /\ d.up.kind = "none"
            THEN Reg!Ok(q, <<Reg!Went("running", "upgrading")>>) ELSE Reg!Err(d)
    BY <1>5, <2>1 DEF Reg!Outcome, Reg!BlueGreen, Reg!Begin
  <2> QED BY <1>5, <2>2, <2>3
<1>6. CASE c.op = "cutover"
  <2>1. PICK q : q = [d EXCEPT !.state = "running", !.proc = d.up.to, !.up = Reg!NoUpgrade]
    OBVIOUS
  <2>2. q = [state |-> "running", proc |-> d.up.to, up |-> Reg!NoUpgrade, conf |-> d.conf]
    BY <2>1
  <2>3. o = IF d.up.kind = "blueGreen"
            THEN Reg!Ok(q, <<Reg!Went("upgrading", "running")>>) ELSE Reg!Err(d)
    BY <1>6, <2>1 DEF Reg!Outcome, Reg!Cutover
  <2> QED BY <1>6, <2>2, <2>3
<1>7. CASE c.op = "rollback"
  <2>1. PICK q : q = [d EXCEPT !.state = "running", !.proc = d.up.from, !.up = Reg!NoUpgrade]
    OBVIOUS
  <2>2. q = [state |-> "running", proc |-> d.up.from, up |-> Reg!NoUpgrade, conf |-> d.conf]
    BY <2>1
  <2>3. o = IF d.up.kind # "none"
            THEN Reg!Ok(q, <<Reg!Went("upgrading", "running")>>) ELSE Reg!Err(d)
    BY <1>7, <2>1 DEF Reg!Outcome, Reg!Rollback
  <2> QED BY <1>7, <2>2, <2>3
<1> QED BY <1>1, <1>2, <1>3, <1>4, <1>5, <1>6, <1>7 DEF SwapOps, BlueGreenOps

\* A command leaves them agreeing, whether it is refused or not, and never
\* waits for a task that is gone.
LEMMA CommandAgrees ==
  ASSUME OneLane, NEW n, Agree(pipe[n], task[n]), NEW c \in Commands, NEW o,
         o = Reg!Outcome(pipe[n], c)
  PROVE  /\ ~Reg!Hangs(n, c)
         /\ IF o.ok \/ c.op = "delete"
            THEN Agree(o.def, Reg!Runtime(n, c, o))
            ELSE Agree(o.def, task[n])
<1> DEFINE d == pipe[n]
           r == task[n].run
<1>1. task[n].at \in {"none", "live"} /\ ~Reg!Hangs(n, c)
  BY DEF Agree, Reg!NoTask, Reg!Hangs
<1>2. /\ c.op \in SwapOps \cup BlueGreenOps
      /\ c.op \in SwapOps \ BlueGreenOps => d.up.kind = "none"
      /\ c.op = "blueGreen" => c.proc # Reg!None
  <2>1. c.op = "blueGreen" => c.proc \in Processors
    BY DEF OneLane, Reg!AllCommands
  <2> QED BY <2>1 DEF OneLane, Agree, SwapOps, BlueGreenOps
<1>3. /\ d = [state |-> d.state, proc |-> d.proc, up |-> d.up, conf |-> d.conf]
      /\ d.up.kind \in {"none", "blueGreen"}
      /\ task[n].at # "live" => task[n] = Reg!NoTask
      /\ task[n].at = "live" =>
           /\ task[n] = [at |-> "live", run |-> r] /\ r.proc = d.proc
           /\ r = [proc |-> r.proc, green |-> r.green, canary |-> Reg!None, pct |-> 0,
                   conf |-> r.conf]
  <2>1. CASE task[n] = Reg!NoTask
    BY <2>1 DEF Agree, Reg!NoTask
  <2>2. CASE task[n] # Reg!NoTask
    <3>1. /\ task[n] = [at |-> "live", run |-> [proc |-> r.proc, green |-> r.green,
                                                canary |-> Reg!None, pct |-> 0, conf |-> r.conf]]
          /\ task[n].at = "live" /\ r.proc = d.proc
      BY <2>2 DEF Agree
    <3>2. r = [proc |-> r.proc, green |-> r.green, canary |-> Reg!None, pct |-> 0,
               conf |-> r.conf]
      BY <3>1
    <3> QED BY <3>1, <3>2 DEF Agree
  <2> QED BY <2>1, <2>2
<1>4. CASE o.ok = FALSE /\ o.def = d /\ (c.op = "delete" => d.state = "absent")
  <2>1. CASE c.op = "delete"
    <3>1. Reg!Runtime(n, c, o) = Reg!NoTask
      BY <2>1 DEF Reg!Runtime, Reg!Calls
    <3>2. task[n] = Reg!NoTask
      BY <1>3, <1>4, <2>1 DEF Agree
    <3> QED BY <1>1, <1>4, <2>1, <3>1, <3>2
  <2> QED BY <1>1, <1>4, <2>1
<1>5. CASE /\ o.ok = TRUE /\ c.op = "create" /\ d.state = "absent"
           /\ o.def = [state |-> "created", proc |-> First, up |-> Reg!NoUpgrade, conf |-> 0]
  <2>1. Reg!Runtime(n, c, o) = task[n]
    BY <1>5 DEF Reg!Runtime, Reg!Calls
  <2>2. Agree(o.def, task[n])
    BY <1>3, <1>5 DEF Agree, Reg!NoUpgrade, Reg!NoTask
  <2> QED BY <1>1, <1>5, <2>1, <2>2
<1>6. CASE /\ o.ok = TRUE /\ c.op = "run" /\ d.state # "absent"
           /\ o.def = [state |-> "running", proc |-> d.proc, up |-> d.up, conf |-> d.conf]
  <2>1. CASE task[n].at = "live"
    <3>1. Reg!Runtime(n, c, o) = task[n]
      BY <1>6, <2>1 DEF Reg!Runtime, Reg!Calls
    <3>2. Agree(o.def, task[n])
      BY <1>3, <1>6, <2>1 DEF Agree
    <3> QED BY <1>1, <1>6, <3>1, <3>2
  <2>2. CASE task[n].at = "none"
    <3> DEFINE b == [at |-> "live", run |-> Reg!Built(o.def)]
    <3>1. Reg!Runtime(n, c, o) = b
      BY <1>2, <1>6, <2>2 DEF Reg!Runtime
    <3>2. /\ b.at = "live"
          /\ b.run = [proc |-> d.proc, green |-> Reg!None, canary |-> Reg!None, pct |-> 0,
                      conf |-> d.conf]
      BY <1>6, BuiltIs
    <3>3. d.up.kind = "none"
      BY <2>2 DEF Agree
    <3> HIDE DEF b
    <3>4. b = [at |-> "live", run |-> b.run]
      BY DEF b
    <3>5. Agree(o.def, b)
      BY <1>6, <3>2, <3>3, <3>4 DEF Agree
    <3> QED BY <1>1, <1>6, <3>1, <3>5
  <2> QED BY <1>1, <2>1, <2>2
<1>7. CASE /\ o.ok = TRUE /\ c.op = "stop"
           /\ o.def = [state |-> "stopped", proc |-> d.proc, up |-> d.up, conf |-> d.conf]
  <2>1. Reg!Runtime(n, c, o) = Reg!NoTask
    BY <1>7 DEF Reg!Runtime, Reg!Calls
  <2>2. Agree(o.def, Reg!NoTask)
    BY <1>2, <1>7 DEF Agree, Reg!NoTask, SwapOps, BlueGreenOps
  <2> QED BY <1>1, <1>7, <2>1, <2>2
<1>8. CASE o.ok = TRUE /\ c.op = "delete" /\ o.def = Reg!Absent
  <2>1. Reg!Runtime(n, c, o) = Reg!NoTask
    BY <1>8 DEF Reg!Runtime, Reg!Calls
  <2> QED BY <1>1, <1>8, <2>1, AgreeInit
<1>9. CASE /\ o.ok = TRUE /\ c.op = "upgrade"
           /\ o.def = [state |-> d.state, proc |-> c.proc, up |-> d.up, conf |-> d.conf]
  <2>1. d.up.kind = "none"
    BY <1>2, <1>9 DEF SwapOps, BlueGreenOps
  <2>2. CASE task[n].at = "live"
    <3> DEFINE u == [proc |-> c.proc, green |-> r.green, canary |-> Reg!None, pct |-> 0,
                     conf |-> r.conf]
    <3>1. [task[n] EXCEPT !.run = Reg!Swapped(@, c.proc)] = [at |-> "live", run |-> u]
      BY <1>3, <2>2, TaskAfter
    <3>2. Reg!Runtime(n, c, o) = [at |-> "live", run |-> u]
      BY <1>2, <1>9, <2>2, <3>1 DEF Reg!Runtime, Reg!Calls, Reg!CallEffect
    <3>3. Agree(o.def, [at |-> "live", run |-> u])
      BY <1>9, <2>1, <2>2 DEF Agree
    <3> QED BY <1>1, <1>9, <3>2, <3>3
  <2>3. CASE task[n].at = "none"
    <3>1. Reg!Runtime(n, c, o) = task[n]
      BY <1>9, <2>3 DEF Reg!Runtime, Reg!Calls
    <3>2. Agree(o.def, task[n])
      BY <1>3, <1>9, <2>1, <2>3 DEF Agree
    <3> QED BY <1>1, <1>9, <3>1, <3>2
  <2> QED BY <1>1, <2>2, <2>3
<1>10. CASE /\ o.ok = TRUE /\ c.op = "blueGreen" /\ d.state = "running" /\ d.up.kind = "none"
            /\ o.def = [state |-> "upgrading", proc |-> d.proc, conf |-> d.conf,
                        up |-> [kind |-> "blueGreen", from |-> d.proc, to |-> c.proc,
                                step |-> 0]]
  <2>1. task[n].at = "live"
    BY <1>10 DEF Agree
  <2> DEFINE u == [proc |-> r.proc, green |-> c.proc, canary |-> Reg!None, pct |-> 0,
                   conf |-> r.conf]
  <2>2. [task[n] EXCEPT !.run = Reg!WithGreen(@, c.proc)] = [at |-> "live", run |-> u]
    BY <1>3, <2>1, TaskAfter
  <2>3. Reg!Runtime(n, c, o) = [at |-> "live", run |-> u]
    BY <1>2, <1>10, <2>1, <2>2 DEF Reg!Runtime, Reg!Calls, Reg!CallEffect
  <2>4. Agree(o.def, [at |-> "live", run |-> u])
    BY <1>2, <1>3, <1>10, <2>1 DEF Agree
  <2> QED BY <1>1, <1>10, <2>3, <2>4
<1>11. CASE /\ o.ok = TRUE /\ c.op = "cutover" /\ d.up.kind = "blueGreen"
            /\ o.def = [state |-> "running", proc |-> d.up.to, up |-> Reg!NoUpgrade,
                        conf |-> d.conf]
  <2>1. task[n].at = "live" /\ r.green = d.up.to /\ d.up.to # Reg!None
    BY <1>11 DEF Agree
  <2> DEFINE u == [proc |-> r.green, green |-> Reg!None, canary |-> Reg!None, pct |-> 0,
                   conf |-> r.conf]
  <2>2. [task[n] EXCEPT !.run = Reg!CutOver(@)] = [at |-> "live", run |-> u]
    BY <1>3, <2>1, TaskAfter
  <2>3. Reg!Runtime(n, c, o) = [at |-> "live", run |-> u]
    BY <1>2, <1>11, <2>1, <2>2 DEF Reg!Runtime, Reg!Calls, Reg!CallEffect
  <2>4. Agree(o.def, [at |-> "live", run |-> u])
    BY <1>11, <2>1 DEF Agree, Reg!NoUpgrade
  <2> QED BY <1>1, <1>11, <2>3, <2>4
<1>12. CASE /\ o.ok = TRUE /\ c.op = "rollback" /\ d.up.kind = "blueGreen"
            /\ o.def = [state |-> "running", proc |-> d.up.from, up |-> Reg!NoUpgrade,
                        conf |-> d.conf]
  <2>1. task[n].at = "live" /\ d.up.from = d.proc
    BY <1>12 DEF Agree
  <2> DEFINE u == [proc |-> r.proc, green |-> Reg!None, canary |-> Reg!None, pct |-> 0,
                   conf |-> r.conf]
  <2>2. [task[n] EXCEPT !.run = Reg!RolledBack(@)] = [at |-> "live", run |-> u]
    BY <1>3, <2>1, TaskAfter
  <2>3. Reg!Runtime(n, c, o) = [at |-> "live", run |-> u]
    BY <1>2, <1>12, <2>1, <2>2 DEF Reg!Runtime, Reg!Calls, Reg!CallEffect
  <2>4. Agree(o.def, [at |-> "live", run |-> u])
    BY <1>3, <1>12, <2>1 DEF Agree, Reg!NoUpgrade
  <2> QED BY <1>1, <1>12, <2>3, <2>4
<1>13. Became(d, c, o)
  BY <1>2, <1>3, DefinitionAfter
<1> QED BY <1>4, <1>5, <1>6, <1>7, <1>8, <1>9, <1>10, <1>11, <1>12, <1>13 DEF Became

\* What every definition looks like, whether its task follows it or not.
Shaped(d) ==
  /\ d = [state |-> d.state, proc |-> d.proc, up |-> d.up, conf |-> d.conf]
  /\ \/ d.up.kind = "none" /\ d.state # "upgrading"
     \/ d.up.kind = "blueGreen" /\ \E c \in Commands : c.op = "blueGreen"

\* A command leaves a definition of that shape, and one that stops the pipeline
\* brings definition and task together again.
LEMMA CommandShapes ==
  ASSUME OneLane, NEW d, Shaped(d), NEW c \in Commands, NEW o, o = Reg!Outcome(d, c)
  PROVE  /\ Shaped(o.def)
         /\ c.op \in {"stop", "delete"} /\ (o.ok \/ c.op = "delete") => Agree(o.def, Reg!NoTask)
<1>1. c.op \in SwapOps \cup BlueGreenOps /\ Became(d, c, o)
  BY DefinitionAfter DEF OneLane, Shaped
<1>2. Shaped(o.def)
  BY <1>1 DEF Became, Shaped, Reg!NoUpgrade, Reg!Absent
<1>3. ASSUME c.op \in {"stop", "delete"}, o.ok \/ c.op = "delete"
      PROVE  Agree(o.def, Reg!NoTask)
  <2>1. d.up.kind = "none"
    BY <1>3 DEF OneLane, Shaped, SwapOps, BlueGreenOps
  <2>2. CASE o.ok = FALSE
    BY <1>1, <1>3, <2>1, <2>2 DEF Became, Agree, Shaped, Reg!NoTask
  <2>3. CASE o.ok = TRUE /\ c.op = "stop"
    BY <1>1, <2>1, <2>3 DEF Became, Agree, Reg!NoTask
  <2>4. CASE o.ok = TRUE /\ c.op = "delete"
    BY <1>1, <2>4, AgreeInit DEF Became
  <2> QED BY <1>1, <1>3, <2>2, <2>3, <2>4 DEF Became
<1> QED BY <1>2, <1>3

\* Definition and task agree on every node where they have not parted.  A node
\* without its applier has no definition, and a local update that is still to
\* come and not yet overtaken has nothing to change.
RuntimeInv ==
  /\ RegShape
  /\ task = [n \in Nodes |-> task[n]] /\ slot = [n \in Nodes |-> slot[n]]
  /\ \A n \in Nodes : /\ Shaped(pipe[n])
                      /\ n \notin parted => Agree(pipe[n], task[n])
                      /\ ~slot[n] => pipe[n] = Reg!Absent
  /\ \A u \in meta : applied[u.node] = u.index /\ u.node \notin parted =>
       pipe[u.node].state # "running" \/ pipe[u.node].proc = log[u.index].proc

LEMMA RuntimeInit == Reg!Init => RuntimeInv
<1>1. Shaped(Reg!Absent)
  BY DEF Shaped, Reg!Absent, Reg!NoUpgrade
<1> SUFFICES ASSUME Reg!Init PROVE RuntimeInv
  OBVIOUS
<1>2. RegShape
  BY RegInit DEF RegInv
<1> QED BY <1>1, <1>2, AgreeInit DEF Reg!Init, RuntimeInv

\* An entry is applied.
LEMMA ApplyAgrees ==
  ASSUME OneLane, RuntimeInv, RegShape', NEW n \in Nodes, Reg!ApplyEntry(n)
  PROVE  RuntimeInv'
<1> DEFINE c == log[applied[n] + 1]
           o == Reg!Outcome(pipe[n], c)
           acts == o.ok \/ c.op = "delete"
<1>1. c \in Commands /\ applied[n] \in Nat
  BY DEF Reg!ApplyEntry, Reg!ToApply, RuntimeInv, RegShape
<1>2. /\ pipe' = [pipe EXCEPT ![n] = o.def] /\ applied' = [applied EXCEPT ![n] = @ + 1]
      /\ UNCHANGED <<log, slot, meta>> /\ slot[n]
      /\ \/ acts /\ Reg!Carry(n, c, o)
         \/ ~acts /\ UNCHANGED <<task, parted>>
  BY DEF Reg!ApplyEntry
<1>3. /\ Shaped(o.def)
      /\ c.op \in {"stop", "delete"} /\ acts => Agree(o.def, Reg!NoTask)
  BY <1>1, CommandShapes DEF RuntimeInv
<1>4. n \notin parted =>
        IF acts THEN Agree(o.def, Reg!Runtime(n, c, o)) ELSE Agree(o.def, task[n])
  BY <1>1, CommandAgrees DEF RuntimeInv
<1>5. c.op \in {"stop", "delete"} => Reg!Runtime(n, c, o) = Reg!NoTask
  BY DEF Reg!Runtime, Reg!Calls
<1>6. c.op = "upgrade" => o.def.state # "running" \/ o.def.proc = c.proc
  <2>1. SUFFICES ASSUME c.op = "upgrade" PROVE o.def.state # "running" \/ o.def.proc = c.proc
    OBVIOUS
  <2>2. o = Reg!ApplyUpgrade(pipe[n], c.proc)
    BY <2>1 DEF Reg!Outcome
  <2>3. pipe[n] = [state |-> pipe[n].state, proc |-> pipe[n].proc, up |-> pipe[n].up,
                   conf |-> pipe[n].conf]
    BY DEF RuntimeInv, Shaped
  <2>4. [pipe[n] EXCEPT !.proc = c.proc].proc = c.proc
    BY <2>3
  <2> QED BY <2>2, <2>4 DEF Reg!ApplyUpgrade, Reg!Ok, Reg!Err
<1> HIDE DEF c, o, acts
<1>7. /\ task' = [m \in Nodes |-> task'[m]]
      /\ \A m \in Nodes : m # n => task'[m] = task[m]
      /\ \A m : m # n => (m \in parted' <=> m \in parted)
      /\ n \notin parted' => Agree(o.def, task'[n])
  <2>1. CASE acts /\ task' = [task EXCEPT ![n] = Reg!Runtime(n, c, o)]
             /\ parted' = IF c.op \in {"stop", "delete"} THEN parted \ {n} ELSE parted
    <3>1. task'[n] = Reg!Runtime(n, c, o)
      BY <2>1 DEF RuntimeInv
    <3>2. n \notin parted' => Agree(o.def, task'[n])
      BY <1>3, <1>4, <1>5, <2>1, <3>1
    <3> QED BY <2>1, <3>2 DEF RuntimeInv
  <2>2. CASE acts /\ parted' = parted \cup {n} /\ task' = task
    BY <2>2 DEF RuntimeInv
  <2>3. CASE ~acts /\ UNCHANGED <<task, parted>>
    BY <1>4, <2>3 DEF RuntimeInv
  <2> QED BY <1>2, <2>1, <2>2, <2>3 DEF Reg!Carry
<1>8. \A m \in Nodes : /\ pipe'[m] = IF m = n THEN o.def ELSE pipe[m]
                       /\ applied'[m] = IF m = n THEN applied[n] + 1 ELSE applied[m]
  BY <1>2 DEF RuntimeInv, RegShape
<1>9. ASSUME NEW m \in Nodes
      PROVE  /\ Shaped(pipe'[m]) /\ (m \notin parted' => Agree(pipe'[m], task'[m]))
             /\ ~slot'[m] => pipe'[m] = Reg!Absent
  BY <1>2, <1>3, <1>7, <1>8 DEF RuntimeInv
<1>10. ASSUME NEW u \in meta', applied'[u.node] = u.index, u.node \notin parted'
       PROVE  pipe'[u.node].state # "running" \/ pipe'[u.node].proc = log'[u.index].proc
  <2>1. u \in meta /\ u.node \in Nodes /\ log[u.index].op = "upgrade"
    BY <1>2 DEF RuntimeInv, RegShape
  <2>2. CASE u.node = n
    <3>1. u.index = applied[n] + 1
      BY <1>8, <1>10, <2>2
    <3>2. log[u.index] = c
      BY <3>1 DEF c
    <3> QED BY <1>2, <1>6, <1>8, <2>1, <2>2, <3>2
  <2>3. CASE u.node # n
    BY <1>2, <1>7, <1>8, <1>10, <2>1, <2>3 DEF RuntimeInv
  <2> QED BY <2>2, <2>3
<1>11. slot' = [m \in Nodes |-> slot'[m]]
  BY <1>2 DEF RuntimeInv
<1> QED BY <1>7, <1>9, <1>10, <1>11 DEF RuntimeInv

\* The local update of an upgrade.
LEMMA LocalAgrees ==
  ASSUME OneLane, RuntimeInv, RegShape', NEW u \in meta, Reg!LocalUpgrade(u)
  PROVE  RuntimeInv'
<1> DEFINE n == u.node
           d == pipe[n]
           p == log[u.index].proc
           e == Reg!Upgrade(d, p).def
<1>1. /\ UNCHANGED <<log, applied, slot, task>> /\ meta' \subseteq meta
      /\ pipe' = [pipe EXCEPT ![n] = e]
      /\ applied[n] >= u.index /\ parted \subseteq parted'
      /\ applied[n] > u.index => n \in parted'
  BY DEF Reg!LocalUpgrade
<1>2. n \in Nodes /\ u.index \in Nat /\ applied[n] \in Nat
  BY DEF RuntimeInv, RegShape
<1>3. Shaped(e) /\ (e.state = "running" => e.proc = p) /\ (d = Reg!Absent => e = d)
  <2>1. Shaped(d)
    BY <1>2 DEF RuntimeInv
  <2>2. CASE d.state # "running"
    BY <2>1, <2>2 DEF Reg!Upgrade, Reg!Err, Reg!Absent
  <2>3. CASE d.state = "running"
    <3>1. e = [d EXCEPT !.proc = p]
      BY <2>3 DEF Reg!Upgrade, Reg!Ok
    <3>2. e = [state |-> d.state, proc |-> p, up |-> d.up, conf |-> d.conf]
      BY <2>1, <3>1 DEF Shaped
    <3> HIDE DEF e
    <3> QED BY <2>1, <2>3, <3>2 DEF Shaped, Reg!Absent
  <2> QED BY <2>2, <2>3
<1>4. n \notin parted' => e = d
  <2> SUFFICES ASSUME n \notin parted' PROVE e = d
    OBVIOUS
  <2>1. applied[n] = u.index /\ n \notin parted
    BY <1>1, <1>2
  <2>2. d.state # "running" \/ d.proc = p
    BY <2>1 DEF RuntimeInv
  <2>3. d = [state |-> d.state, proc |-> d.proc, up |-> d.up, conf |-> d.conf]
    BY <1>2 DEF RuntimeInv, Shaped
  <2>4. [d EXCEPT !.proc = d.proc] = d
    BY <2>3
  <2> QED BY <2>2, <2>4 DEF Reg!Upgrade, Reg!Ok, Reg!Err
<1> HIDE DEF e, p, d
<1>5. \A m \in Nodes : pipe'[m] = IF m = n THEN e ELSE pipe[m]
  BY <1>1 DEF RuntimeInv, RegShape
<1>6. ASSUME NEW m \in Nodes
      PROVE  /\ Shaped(pipe'[m]) /\ (m \notin parted' => Agree(pipe'[m], task'[m]))
             /\ ~slot'[m] => pipe'[m] = Reg!Absent
  <2>1. CASE m = n
    BY <1>1, <1>2, <1>3, <1>4, <1>5, <2>1 DEF RuntimeInv, d
  <2>2. CASE m # n
    BY <1>1, <1>5, <2>2 DEF RuntimeInv
  <2> QED BY <2>1, <2>2
<1>7. ASSUME NEW v \in meta', applied'[v.node] = v.index, v.node \notin parted'
      PROVE  pipe'[v.node].state # "running" \/ pipe'[v.node].proc = log'[v.index].proc
  <2>1. v \in meta /\ v.node \in Nodes
    BY <1>1 DEF RuntimeInv, RegShape
  <2>2. CASE v.node = n
    <3>1. v.index = u.index
      BY <1>1, <1>2, <1>7, <2>2
    <3> QED BY <1>1, <1>3, <1>5, <2>1, <2>2, <3>1 DEF p
  <2>3. CASE v.node # n
    BY <1>1, <1>5, <1>7, <2>1, <2>3 DEF RuntimeInv
  <2> QED BY <2>2, <2>3
<1> QED BY <1>1, <1>6, <1>7 DEF RuntimeInv

\* A process ends.
LEMMA RestartAgrees ==
  ASSUME OneLane, RuntimeInv, RegShape', NEW n \in Nodes, Reg!Restart(n)
  PROVE  RuntimeInv'
<1>1. /\ \A m \in Nodes : /\ pipe'[m] = IF m = n THEN Reg!Absent ELSE pipe[m]
                          /\ task'[m] = IF m = n THEN Reg!NoTask ELSE task[m]
                          /\ slot'[m] = IF m = n THEN FALSE ELSE slot[m]
                          /\ applied'[m] = IF m = n THEN snap[n] ELSE applied[m]
      /\ task' = [m \in Nodes |-> task'[m]] /\ slot' = [m \in Nodes |-> slot'[m]]
      /\ parted' = parted \ {n} /\ meta' = {u \in meta : u.node # n} /\ log' = log
  BY DEF Reg!Restart, RuntimeInv, RegShape
<1>2. Shaped(Reg!Absent)
  BY DEF Shaped, Reg!Absent, Reg!NoUpgrade
<1>3. ASSUME NEW m \in Nodes
      PROVE  /\ Shaped(pipe'[m]) /\ (m \notin parted' => Agree(pipe'[m], task'[m]))
             /\ ~slot'[m] => pipe'[m] = Reg!Absent
  BY <1>1, <1>2, AgreeInit DEF RuntimeInv
<1>4. ASSUME NEW u \in meta', applied'[u.node] = u.index, u.node \notin parted'
      PROVE  pipe'[u.node].state # "running" \/ pipe'[u.node].proc = log'[u.index].proc
  <2>1. u \in meta /\ u.node \in Nodes /\ u.node # n
    BY <1>1 DEF RuntimeInv, RegShape
  <2> QED BY <1>1, <1>4, <2>1 DEF RuntimeInv
<1> QED BY <1>1, <1>3, <1>4 DEF RuntimeInv

\* An entry is passed over: neither definition nor task changes.
LEMMA PassedAgrees ==
  ASSUME OneLane, RuntimeInv, RegShape', NEW n \in Nodes, NEW m \in Nodes,
         Reg!SkipEntry(n) \/ Reg!InstallSnapshot(n, m)
  PROVE  RuntimeInv'
<1>1. UNCHANGED <<log, slot, pipe, task, meta, parted>>
  BY DEF Reg!SkipEntry, Reg!InstallSnapshot
<1>2. /\ \A w \in Nodes \ {n} : applied'[w] = applied[w]
      /\ \/ ~slot[n]
         \/ applied'[n] > has[n]
  <2>1. CASE Reg!SkipEntry(n)
    BY <2>1 DEF Reg!SkipEntry, RuntimeInv, RegShape
  <2>2. CASE Reg!InstallSnapshot(n, m)
    <3>1. PICK i \in {snap[m], applied[m]} : applied' = [applied EXCEPT ![n] = i]
      BY <2>2 DEF Reg!InstallSnapshot
    <3>2. i \in Nat /\ i >= snap[m] /\ applied'[n] = i
      BY <3>1 DEF RuntimeInv, RegShape
    <3> QED BY <2>2, <3>1, <3>2 DEF Reg!InstallSnapshot, RuntimeInv, RegShape
  <2> QED BY <2>1, <2>2
<1>3. ASSUME NEW u \in meta, applied'[u.node] = u.index, u.node \notin parted
      PROVE  pipe[u.node].state # "running" \/ pipe[u.node].proc = log[u.index].proc
  <2>1. u.node \in Nodes /\ u.index \in Nat /\ u.index <= has[u.node] /\ has[u.node] \in Nat
    <3>1. u.node \in Nodes /\ u.index \in 1 .. Len(log) /\ u.index <= has[u.node]
      BY DEF RuntimeInv, RegShape
    <3>2. has[u.node] \in Nat
      BY <3>1 DEF RuntimeInv, RegShape
    <3> QED BY <3>1, <3>2
  <2>2. CASE u.node # n
    BY <1>2, <1>3, <2>1, <2>2 DEF RuntimeInv
  <2>3. CASE u.node = n
    <3>1. ~slot[n]
      BY <1>2, <1>3, <2>1, <2>3
    <3> QED BY <2>3, <3>1 DEF RuntimeInv, Reg!Absent
  <2> QED BY <2>2, <2>3
<1> QED BY <1>1, <1>3 DEF RuntimeInv

LEMMA RuntimeStep == OneLane /\ RuntimeInv /\ RegInv /\ [Reg!Next]_Reg!vars => RuntimeInv'
<1> SUFFICES ASSUME OneLane, RuntimeInv, RegInv, [Reg!Next]_Reg!vars PROVE RuntimeInv'
  OBVIOUS
<1>0. RegShape'
  BY RegStep DEF RegInv
<1>1. CASE UNCHANGED <<log, applied, slot, pipe, task, meta, parted>>
  BY <1>0, <1>1 DEF RuntimeInv
<1>2. ASSUME NEW n \in Nodes, NEW c \in Commands, Reg!Propose(n, c) PROVE RuntimeInv'
  <2>1. /\ UNCHANGED <<applied, slot, pipe, task, parted>> /\ log' = Append(log, c)
        /\ \A u \in meta' : u \in meta \/ u = [node |-> n, index |-> Len(log) + 1]
    BY <1>2 DEF Reg!Propose
  <2>2. ASSUME NEW u \in meta', applied[u.node] = u.index, u.node \notin parted
        PROVE  pipe[u.node].state # "running" \/ pipe[u.node].proc = log'[u.index].proc
    <3>1. CASE u \in meta
      <4>1. u.index \in 1 .. Len(log)
        BY <3>1 DEF RuntimeInv, RegShape
      <4>2. log'[u.index] = log[u.index]
        BY <2>1, <4>1 DEF RuntimeInv, RegShape
      <4> QED BY <2>2, <3>1, <4>2 DEF RuntimeInv
    <3>2. CASE u = [node |-> n, index |-> Len(log) + 1]
      <4>1. applied[n] = Len(log) + 1
        BY <2>2, <3>2
      <4>2. applied[n] <= has[n] /\ has[n] <= Len(log) /\ Len(log) \in Nat /\ has[n] \in Nat
        BY DEF RuntimeInv, RegShape
      <4> QED BY <4>1, <4>2
    <3> QED BY <2>1, <3>1, <3>2
  <2> QED BY <1>0, <2>1, <2>2 DEF RuntimeInv
<1>3. ASSUME NEW n \in Nodes, Reg!InstallApplier(n) PROVE RuntimeInv'
  <2>1. /\ UNCHANGED <<log, applied, pipe, task, meta, parted>>
        /\ slot' = [slot EXCEPT ![n] = TRUE]
    BY <1>3 DEF Reg!InstallApplier
  <2>2. /\ slot' = [m \in Nodes |-> slot'[m]]
        /\ \A m \in Nodes : ~slot'[m] => ~slot[m]
    BY <2>1 DEF RuntimeInv
  <2> QED BY <1>0, <2>1, <2>2 DEF RuntimeInv
<1>4. ASSUME NEW n \in Nodes, Reg!TaskEnds(n) PROVE RuntimeInv'
  <2>1. /\ UNCHANGED <<log, applied, slot, pipe, meta>> /\ parted' = parted \cup {n}
        /\ task' = [m \in Nodes |-> task'[m]] /\ \A m \in Nodes \ {n} : task'[m] = task[m]
    BY <1>4 DEF Reg!TaskEnds, RuntimeInv
  <2> QED BY <1>0, <2>1 DEF RuntimeInv
<1>5. ASSUME NEW n \in Nodes, Reg!Receive(n) \/ Reg!BuildSnapshot(n) \/ Reg!Purge(n)
      PROVE  UNCHANGED <<log, applied, slot, pipe, task, meta, parted>>
  BY <1>5 DEF Reg!Receive, Reg!BuildSnapshot, Reg!Purge
<1>6. CASE UNCHANGED Reg!vars
  BY <1>1, <1>6 DEF Reg!vars
<1> QED BY <1>0, <1>1, <1>2, <1>3, <1>4, <1>5, <1>6, ApplyAgrees, LocalAgrees, RestartAgrees,
           PassedAgrees DEF Reg!Next

\* "the running-task set converges with the replicated declarative state on
\* every node": a task runs exactly where the definition is running, and it
\* serves the declared processor, across restarts and on nodes that passed over
\* entries, as long as pipelines are upgraded at once or in two steps; a failed
\* build, or a task that ended, is made good by the next stop.
THEOREM RuntimeFollowsRegistry == OneLane => (Reg!Spec => []Reg!RuntimeFollows)
<1> SUFFICES ASSUME OneLane PROVE Reg!Spec => []Reg!RuntimeFollows
  OBVIOUS
<1>1. Reg!Init => RegInv /\ RuntimeInv
  BY RegInit, RuntimeInit
<1>2. RegInv /\ RuntimeInv /\ [Reg!Next]_Reg!vars => RegInv' /\ RuntimeInv'
  BY RegStep, RuntimeStep
<1>3. RuntimeInv => Reg!RuntimeFollows
  BY AgreeShares DEF RuntimeInv, Reg!RuntimeFollows
<1> QED BY <1>1, <1>2, <1>3, PTL DEF Reg!Spec
=============================================================================
