--------------------------- MODULE CheckpointStore ---------------------------
(***************************************************************************)
(* Where the sink tasks of a node keep their checkpoint records: the L3    *)
(* store under checkpoint/{id}, the append-only WAL file, and the          *)
(* FallbackCheckpointStore that turns from the first to the second when an *)
(* append fails and back when L3 answers again.                            *)
(*                                                                         *)
(* Source:  crates/aeon-engine/src/checkpoint.rs, eo2_recovery.rs,         *)
(*          pipeline.rs (build_sink_task_ctx, write_checkpoint,            *)
(*          load_recovery_plan).                                           *)
(*                                                                         *)
(* Every task of a process opens a store of its own over the same L3       *)
(* handle and the same checkpoint directory; neither the L3 keys nor the   *)
(* file names tell the tasks apart.  A record is the task that wrote it,   *)
(* its number among that task's checkpoints, and the id the store gave it. *)
(* An append is one step: the L3 operations it makes are atomic, and what  *)
(* an error or a crash among them leaves behind is a result of the step.   *)
(***************************************************************************)
EXTENDS Integers, Sequences, FiniteSets

CONSTANTS
  Tasks,       \* sink tasks of the process
  Setups,      \* checkpoint settings a process may be configured with
  MaxCkpt,     \* bound: checkpoints a task writes
  MaxFaults    \* bound: failed operations, crashes and stops

NoLimit == -1

Setup(b, w, k) == [backend |-> b, wrapped |-> w, keep |-> k]

\* The settings of the run: L3 alone with the smallest cap, L3 behind the
\* fallback, the WAL alone.
OneTaskSetups == {Setup("StateStore", FALSE, 1),
                  Setup("StateStore", TRUE, NoLimit),
                  Setup("Wal", FALSE, NoLimit)}

ASSUME StoreAssumption ==
  /\ Setups \subseteq [backend : {"Wal", "StateStore"}, wrapped : BOOLEAN,
                      keep : Nat \cup {NoLimit}]
  /\ \A s \in Setups : s.wrapped => s.backend = "StateStore"
  /\ MaxCkpt \in Nat /\ MaxFaults \in Nat

VARIABLES
  setup,    \* the checkpoint backend, whether durability wraps it, and
            \*   l3_max_records (NoLimit for None)
  l3,       \* the records under checkpoint/
  wal,      \* the WAL file's records in order, Torn where a write was cut
  walFile,  \* "absent", "short" (the header was cut) or "ok"
  state,    \* a task: "down", "blind" (no store), "open", "reprobe"
  next,     \* next_checkpoint_id of the task's L3 store
  side,     \* next_checkpoint_id of the task's open WAL writer, or NoWal
  fallback, \* in_fallback of the task's store
  count,    \* checkpoints the task has tried to write
  acked,    \* the last record whose append returned Ok
  faults    \* faults so far

stores == <<l3, wal, walFile>>
vars == <<setup, l3, wal, walFile, state, next, side, fallback, count, acked,
          faults>>

NoWal == -1
Torn  == [task |-> "torn", n |-> 0, id |-> -1]
NoRec == [task |-> "none", n |-> 0, id |-> -1]

Records == [task : Tasks, n : 1 .. MaxCkpt, id : Nat]

Init ==
  /\ setup \in Setups
  /\ l3 = {} /\ wal = <<>> /\ walFile = "absent"
  /\ state = [t \in Tasks |-> "down"]
  /\ next = [t \in Tasks |-> 0] /\ side = [t \in Tasks |-> NoWal]
  /\ fallback = [t \in Tasks |-> FALSE]
  /\ count = [t \in Tasks |-> 0] /\ acked = [t \in Tasks |-> NoRec]
  /\ faults = 0

\* A fault uses up one of the faults the model allows.
Fault == faults < MaxFaults /\ faults' = faults + 1
FaultUnless(ok) == IF ok THEN UNCHANGED faults ELSE Fault

-----------------------------------------------------------------------------
(* The two stores.                                                         *)

\* L3CheckpointStore::read_last: the record with the highest id.
LastL3 == IF l3 = {} THEN NoRec
          ELSE CHOOSE r \in l3 : \A q \in l3 : q.id <= r.id

\* read_wal_records stops at the first record that was cut.
Readable == {i \in 1 .. Len(wal) : \A j \in 1 .. i : wal[j] # Torn}

\* CheckpointReader::read_last.
LastWal == IF Readable = {} THEN NoRec
           ELSE wal[CHOOSE i \in Readable : \A j \in Readable : j <= i]

Put(r) == {q \in l3 : q.id # r.id} \cup {r}

\* Mutant of Purged: the cap also counts the record to come.
PurgedEarly(recs, nx) ==
  IF setup.keep = NoLimit THEN recs ELSE {r \in recs : r.id > nx - setup.keep}

\* Mutant of Purged: only the record that the newest one pushes out.
PurgedOne(recs, nx) ==
  IF setup.keep = NoLimit THEN recs
  ELSE {r \in recs : r.id # nx - setup.keep - 1}

\* purge_below, with next_checkpoint_id nx.
Purged(recs, nx) ==
  IF setup.keep = NoLimit THEN recs ELSE {r \in recs : r.id >= nx - setup.keep}

\* What L3CheckpointStore::append of the task's n-th checkpoint comes to: an
\* error before the batch, in the flush after it, before or after the deletes
\* of the purge, when the id is used up, or success.
L3Results(t, n) ==
  LET r == [task |-> t, n |-> n, id |-> next[t]]
  IN  { [ok |-> FALSE, recs |-> l3, nx |-> next[t]],
        [ok |-> FALSE, recs |-> Put(r), nx |-> next[t]],
        [ok |-> TRUE, recs |-> Purged(Put(r), next[t] + 1),
         nx |-> next[t] + 1] }
      \cup IF setup.keep = NoLimit \/ next[t] < setup.keep THEN {}
           ELSE {[ok |-> FALSE, recs |-> s, nx |-> next[t] + 1] :
                   s \in {Put(r), Purged(Put(r), next[t] + 1)}}

\* What CheckpointWriter::append at id nx comes to: success, or an error
\* with nothing or with part of the record written.
WalResults(t, n, nx) ==
  { [ok |-> TRUE, nx |-> nx + 1,
     file |-> Append(wal, [task |-> t, n |-> n, id |-> nx])],
    [ok |-> FALSE, nx |-> nx, file |-> wal],
    [ok |-> FALSE, nx |-> nx, file |-> Append(wal, Torn)] }

\* The id after a last record.
NextAfter(r) == r.id + 1

-----------------------------------------------------------------------------
(* A task starts: build_sink_task_ctx, then load_recovery_plan.            *)

\* L3CheckpointStore::open; an error means no checkpoints at all.
OpenStateStore(t) ==
  /\ state[t] = "down" /\ setup.backend = "StateStore"
  /\ \E ok \in BOOLEAN :
       /\ FaultUnless(ok)
       /\ state' = [state EXCEPT ![t] = IF ok THEN "open" ELSE "blind"]
       /\ next' = [next EXCEPT ![t] = IF ok THEN NextAfter(LastL3) ELSE @]
  /\ UNCHANGED <<setup, stores, side, fallback, count, acked>>

\* CheckpointWriter::new: a new file gets its header, whose write may be cut;
\* a file without a whole header is refused.
OpenWal(t) ==
  /\ state[t] = "down" /\ setup.backend = "Wal"
  /\ \E ok \in BOOLEAN :
       /\ walFile # "short" => FaultUnless(ok)
       /\ walFile = "short" => ~ok /\ UNCHANGED faults
       /\ walFile' = IF walFile # "absent" THEN walFile
                     ELSE IF ok THEN "ok" ELSE "short"
       /\ state' = [state EXCEPT ![t] = IF ok THEN "open" ELSE "blind"]
       /\ side' = [side EXCEPT ![t] = IF ok THEN NextAfter(LastWal) ELSE @]
  /\ UNCHANGED <<setup, l3, wal, next, fallback, count, acked>>

\* What load_recovery_plan reads: a fresh FallbackCheckpointStore has no WAL
\* open, so its read_last asks the primary alone.
StartReads == IF setup.backend = "Wal" THEN LastWal ELSE LastL3

-----------------------------------------------------------------------------
(* The sink task's write_checkpoint.                                       *)

\* The n-th checkpoint of t was given id: the task may go on to reprobe L3.
Written(t, n, ok, id) ==
  /\ count' = [count EXCEPT ![t] = n]
  /\ acked' = IF ok THEN [acked EXCEPT ![t] = [task |-> t, n |-> n, id |-> id]]
              ELSE acked
  /\ state' \in {[state EXCEPT ![t] = s] : s \in {"open", "reprobe"}}

\* An append that the L3 store answers.
AppendL3(t) ==
  /\ state[t] = "open" /\ setup.backend = "StateStore" /\ ~fallback[t]
  /\ count[t] < MaxCkpt
  /\ \E res \in L3Results(t, count[t] + 1) :
       /\ res.ok \/ ~setup.wrapped
       /\ FaultUnless(res.ok)
       /\ l3' = res.recs /\ next' = [next EXCEPT ![t] = res.nx]
       /\ Written(t, count[t] + 1, res.ok, next[t])
  /\ UNCHANGED <<setup, wal, walFile, side, fallback>>

\* An append to the WAL, as the backend or in fallback mode.
AppendWal(t) ==
  /\ state[t] = "open" /\ (setup.backend = "Wal" \/ fallback[t])
  /\ count[t] < MaxCkpt
  /\ \E res \in WalResults(t, count[t] + 1, side[t]) :
       /\ FaultUnless(res.ok)
       /\ wal' = res.file /\ side' = [side EXCEPT ![t] = res.nx]
       /\ Written(t, count[t] + 1, res.ok, side[t])
  /\ UNCHANGED <<setup, l3, walFile, next, fallback>>

\* The L3 append fails and engage_fallback opens the WAL, which takes the
\* record; a WAL that cannot be opened is an error of the append.
EngageFallback(t) ==
  /\ state[t] = "open" /\ setup.wrapped /\ ~fallback[t]
  /\ count[t] < MaxCkpt /\ Fault
  /\ \E res \in L3Results(t, count[t] + 1) :
       ~res.ok /\ l3' = res.recs /\ next' = [next EXCEPT ![t] = res.nx]
  /\ \/ /\ walFile' \in IF walFile = "absent" THEN {"absent", "short"}
                        ELSE {walFile}
        /\ Written(t, count[t] + 1, FALSE, NoWal)
        /\ UNCHANGED <<wal, side, fallback>>
     \/ /\ walFile # "short" /\ walFile' = "ok"
        /\ \E res \in WalResults(t, count[t] + 1, NextAfter(LastWal)) :
             /\ wal' = res.file /\ side' = [side EXCEPT ![t] = res.nx]
             /\ Written(t, count[t] + 1, res.ok, NextAfter(LastWal))
        /\ fallback' = [fallback EXCEPT ![t] = TRUE]
  /\ UNCHANGED setup

\* Mutant of WalLeft: the file is deleted once the mode is over.
WalDeleted == <<>>

\* What the end of fallback mode leaves of the WAL file: all of it.
WalLeft == wal

\* try_recover_primary, every so many flushes: nothing to do, or L3 is still
\* broken, or the WAL is no further than L3 by its ids, or its last record
\* is appended to L3.
Reprobe(t) ==
  /\ state[t] = "reprobe"
  /\ state' = [state EXCEPT ![t] = "open"]
  /\ \/ ~fallback[t] /\ UNCHANGED <<l3, wal, next, side, fallback, faults>>
     \/ fallback[t] /\ Fault /\ UNCHANGED <<l3, wal, next, side, fallback>>
     \/ /\ fallback[t] /\ (l3 # {} => LastL3.id >= LastWal.id)
        /\ (l3 = {} => LastWal = NoRec)
        /\ fallback' = [fallback EXCEPT ![t] = FALSE]
        /\ side' = [side EXCEPT ![t] = NoWal] /\ wal' = WalLeft
        /\ UNCHANGED <<l3, next, faults>>
     \/ /\ fallback[t] /\ LastWal # NoRec
        /\ l3 # {} => LastWal.id > LastL3.id
        /\ \E res \in L3Results(t, LastWal.n) :
             /\ FaultUnless(res.ok)
             /\ l3' = res.recs /\ next' = [next EXCEPT ![t] = res.nx]
             /\ fallback' = [fallback EXCEPT ![t] = ~res.ok]
             /\ side' = [side EXCEPT ![t] = IF res.ok THEN NoWal ELSE @]
             /\ wal' = IF res.ok THEN WalLeft ELSE wal
  /\ UNCHANGED <<setup, walFile, count, acked>>

-----------------------------------------------------------------------------
(* Stops and crashes: what is in memory is gone.                           *)

\* The tasks in S end.
End(S) ==
  /\ state' = [t \in Tasks |-> IF t \in S THEN "down" ELSE state[t]]
  /\ side' = [t \in Tasks |-> IF t \in S THEN NoWal ELSE side[t]]
  /\ fallback' = [t \in Tasks |-> t \notin S /\ fallback[t]]
  /\ UNCHANGED <<setup, stores, next, count, acked>>

Stop(t) == state[t] # "down" /\ Fault /\ End({t})

\* The process dies, after whatever result the append it was in came to.
Crash == (\E t \in Tasks : state[t] # "down") /\ Fault /\ End(Tasks)

Next ==
  \/ \E t \in Tasks : \/ OpenStateStore(t) \/ OpenWal(t)
                      \/ AppendL3(t) \/ AppendWal(t) \/ EngageFallback(t)
                      \/ Reprobe(t) \/ Stop(t)
  \/ Crash

Spec == Init /\ [][Next]_vars

-----------------------------------------------------------------------------
(* Properties.                                                             *)

\* Every variable has its type.
TypeOK ==
  /\ setup \in Setups
  /\ l3 \subseteq Records /\ wal \in Seq(Records \cup {Torn})
  /\ walFile \in {"absent", "short", "ok"}
  /\ state \in [Tasks -> {"down", "blind", "open", "reprobe"}]
  /\ next \in [Tasks -> Nat] /\ side \in [Tasks -> Nat \cup {NoWal}]
  /\ fallback \in [Tasks -> BOOLEAN]
  /\ count \in [Tasks -> 0 .. MaxCkpt]
  /\ acked \in [Tasks -> Records \cup {NoRec}]
  /\ faults \in 0 .. MaxFaults

\* A start finds the last checkpoint the task was told is durable, or a
\* later one (read_last after a crash or a stop at any point).
StartFindsLast ==
  \A t \in Tasks :
    acked[t] # NoRec => StartReads.task = t /\ StartReads.n >= acked[t].n

Intact == \A i \in DOMAIN wal : wal[i] # Torn

\* Without the fallback wrapper, and until a WAL write is cut, a start finds
\* the last acknowledged checkpoint, whatever append, flush or purge failed.
RecoversLast == ~setup.wrapped /\ Intact => StartFindsLast

\* Ids of acknowledged checkpoints grow, over failed appends, restarts and
\* purges (CheckpointPersist::append), in the same setting.
IdsGrow ==
  [][\A t \in Tasks : acked'[t] # acked[t] /\ ~setup.wrapped /\ Intact
                        => acked'[t].id > acked[t].id]_vars

\* An acknowledged L3 append leaves at most max_records records, those an
\* earlier purge failed to delete included.
RetentionCapped ==
  [][\A t \in Tasks : acked'[t] # acked[t] /\ next'[t] # next[t]
                      /\ setup.keep # NoLimit /\ ~setup.wrapped
                        => Cardinality(l3') <= setup.keep]_vars

\* With the wrapper too, an acknowledged checkpoint (or a later one) is on
\* disk where a reader of both stores finds it: until a WAL write is cut, if
\* no cap on the records lets a stale record push out a newer one.
AckedIsOnDisk ==
  Intact /\ setup.keep = NoLimit =>
    \A t \in Tasks : acked[t] # NoRec =>
      \/ \E r \in l3 : r.task = t /\ r.n >= acked[t].n
      \/ \E i \in DOMAIN wal : wal[i].task = t /\ wal[i].n >= acked[t].n

=============================================================================
