---------------------------- MODULE L2BodyStore ----------------------------
(* The event-body store of one partition on disk: segment files named after  *)
(* their first sequence number, with a sidecar for the wrapped data key of   *)
(* an encrypted one.  An append is the sequence of its file operations, so   *)
(* that the process can die between any two of them.  A write that fails     *)
(* while the process goes on is not modelled: it leaves a torn record in the *)
(* middle of a segment, as the crashes between header and payload do.        *)
EXTENDS Kek, Integers, Sequences, SequencesExt, FiniteSets

CONSTANTS
    SegmentRecords,  \* records that fill a segment (segment_bytes)
    MaxAppends,      \* bound on the appends
    MaxCrashes,      \* bound on the restarts
    MaxKek,          \* bound on the key rotations
    CrashPoints      \* the file operations before which the process may die

VARIABLES
    files,    \* start_seq -> [header, items]
    metas,    \* start_seq -> wrapped data key: the .l2b.meta sidecars
    store,    \* the open L2BodyStore, or Closed
    handle,   \* the configured key handle
    pc,       \* the file operation the running append is at
    count,    \* appends begun, restarts
    acked,    \* what appends returned Ok for
    floor     \* everything below was released to gc_up_to

vars == <<files, metas, store, handle, pc, count, acked, floor>>

Closed == [segments |-> << >>, next_seq |-> -1]
IsOpen == store.next_seq >= 0
NoSeq  == -1

-----------------------------------------------------------------------------
(* Reading                                                                   *)

\* load_cipher_for: a sidecar needs a key that unwraps it; no sidecar is
\* plaintext, with or without a key.
LoadCipher(start) ==
    IF start \in DOMAIN metas
    THEN [ok |-> Unwraps(handle, metas[start]), dek |-> metas[start].dek]
    ELSE [ok |-> TRUE, dek |-> 0]

\* SegmentRecordIter: the records up to the first that is not whole.
Scan(start) ==
    LET items == files[start].items
        torn  == {i \in DOMAIN items : ~items[i].whole}
    IN  IF torn = {} THEN items
        ELSE SubSeq(items, 1, (CHOOSE i \in torn : \A j \in torn : i <= j) - 1)

\* L2BodySegment::open succeeds.
Opens(start) ==
    /\ files[start].header
    /\ LoadCipher(start).ok
    /\ \A i \in DOMAIN Scan(start) : Scan(start)[i].dek = LoadCipher(start).dek

\* L2BodySegment::open: max_seq from the scan, the length from the file.
Segment(start) ==
    [start   |-> start,
     max_seq |-> IF Scan(start) = << >> THEN NoSeq ELSE Last(Scan(start)).seq,
     size    |-> Len(files[start].items),
     dek     |-> LoadCipher(start).dek]

\* iter_from, as the set of the records it returns.
IterFrom(from) ==
    UNION {{r \in Range(Scan(store.segments[i].start)) : r.seq >= from} :
             i \in {j \in DOMAIN store.segments : store.segments[j].max_seq >= from}}

-----------------------------------------------------------------------------
Init ==
    /\ files = << >>
    /\ metas = << >>
    /\ store = Closed
    /\ handle \in {NoKek, [active |-> 1, previous |-> 0]}
    /\ pc = "idle"
    /\ count = [appends |-> 0, crashes |-> 0]
    /\ acked = {}
    /\ floor = 0

\* The start_seqs read from the directory, sorted.
Ascending(S) ==
    CHOOSE q \in [1 .. Cardinality(S) -> S] : \A i, j \in DOMAIN q : i < j => q[i] < q[j]

\* The store as open finds it: segments by start_seq, and the sequence number
\* behind the highest one.
Recovered(starts) ==
    LET segments == [i \in DOMAIN starts |-> Segment(starts[i])]
    IN  [segments |-> segments,
         next_seq |-> CHOOSE n \in {0} \cup {segments[i].max_seq + 1 : i \in DOMAIN segments} :
                          \A i \in DOMAIN segments : n > segments[i].max_seq]

\* L2BodyStore::open; one segment that does not open fails it.
Open ==
    /\ ~IsOpen
    /\ \A s \in DOMAIN files : Opens(s)
    /\ store' = Recovered(Ascending(DOMAIN files))
    /\ UNCHANGED <<files, metas, handle, pc, count, acked, floor>>

-----------------------------------------------------------------------------
(* append, one file operation at a time                                      *)

Writable == Last(store.segments)

NeedNew == store.segments = << >> \/ Writable.size >= SegmentRecords

BeginAppend ==
    /\ IsOpen /\ pc = "idle"
    /\ count.appends < MaxAppends
    /\ count' = [count EXCEPT !.appends = @ + 1]
    /\ pc' = IF ~NeedNew THEN "record" ELSE IF handle.active # 0 THEN "meta" ELSE "file"
    /\ UNCHANGED <<files, metas, store, handle, acked, floor>>

\* A file written under a name, over the one that may be there.
Put(dir, name, content) ==
    [s \in DOMAIN dir \cup {name} |-> IF s = name THEN content ELSE dir[s]]

\* A fresh data key for the segment, wrapped into its sidecar before the
\* segment exists; numbered like the append it is generated for.
WriteMeta ==
    /\ pc = "meta"
    /\ metas' = Put(metas, store.next_seq, Wrap(handle, count.appends))
    /\ pc' = "file"
    /\ UNCHANGED <<files, store, handle, count, acked, floor>>

\* create_new, which refuses a file that exists: the append fails.
CreateFile ==
    /\ pc = "file"
    /\ IF store.next_seq \in DOMAIN files
       THEN pc' = "idle" /\ UNCHANGED files
       ELSE /\ files' = Put(files, store.next_seq, [header |-> FALSE, items |-> << >>])
            /\ pc' = "header"
    /\ UNCHANGED <<metas, store, handle, count, acked, floor>>

\* The header is written and the segment becomes the writable one.
WriteHeader ==
    /\ pc = "header"
    /\ files' = [files EXCEPT ![store.next_seq].header = TRUE]
    /\ store' = [store EXCEPT !.segments =
                   Append(@, [start   |-> store.next_seq,
                              max_seq |-> NoSeq,
                              size    |-> 0,
                              dek     |-> IF handle.active # 0 THEN count.appends ELSE 0])]
    /\ pc' = "record"
    /\ UNCHANGED <<metas, handle, count, acked, floor>>

\* A record as it is on disk.
Item(r, whole) == [seq |-> r.seq, event |-> r.event, dek |-> r.dek, whole |-> whole]

Record == [seq |-> store.next_seq, event |-> count.appends, dek |-> Writable.dek]

\* The record's header: until the payload follows the record is not whole.
WriteRecord ==
    /\ pc = "record"
    /\ IF store.next_seq <= Writable.max_seq
       THEN pc' = "idle" /\ UNCHANGED files
       ELSE /\ files' = [files EXCEPT ![Writable.start].items =
                           Append(@, Item(Record, FALSE))]
            /\ pc' = "payload"
    /\ UNCHANGED <<metas, store, handle, count, acked, floor>>

\* The payload, sealed with the segment's data key; the append returns.
WritePayload ==
    /\ pc = "payload"
    /\ LET start == Writable.start
           last  == Len(files[start].items)
           n     == Len(store.segments)
       IN  /\ files' = [files EXCEPT ![start].items[last] = Item(Record, TRUE)]
           /\ store' = [segments |-> [store.segments EXCEPT ![n] =
                                        [start |-> start, max_seq |-> store.next_seq,
                                         size |-> Writable.size + 1, dek |-> Writable.dek]],
                        next_seq |-> store.next_seq + 1]
    /\ acked' = acked \cup {Record}
    /\ pc' = "idle"
    /\ UNCHANGED <<metas, handle, count, floor>>

\* Mutant of Superseded: one sequence number too far.
SupersededEq(segment, min) == segment.max_seq # NoSeq /\ segment.max_seq <= min

Superseded(segment, min) == segment.max_seq # NoSeq /\ segment.max_seq < min

\* One segment removed by gc_up_to(min), without a hold: never the last one.
\* The sidecar stays.
Gc(min) ==
    /\ IsOpen /\ pc = "idle"
    /\ Len(store.segments) > 1
    /\ Superseded(Head(store.segments), min)
    /\ files' = [s \in DOMAIN files \ {Head(store.segments).start} |-> files[s]]
    /\ store' = [store EXCEPT !.segments = Tail(@)]
    /\ floor' = IF min > floor THEN min ELSE floor
    /\ UNCHANGED <<metas, handle, pc, count, acked>>

-----------------------------------------------------------------------------
(* The process and its operator                                              *)

\* The process ends, at whatever file operation its append was at.
Crash ==
    /\ IsOpen
    /\ count.crashes < MaxCrashes
    /\ pc \in CrashPoints
    /\ count' = [count EXCEPT !.crashes = @ + 1]
    /\ store' = Closed
    /\ pc' = "idle"
    /\ UNCHANGED <<files, metas, handle, acked, floor>>

\* Encryption is configured for the first time.
Enable ==
    /\ ~IsOpen /\ handle.active = 0
    /\ handle' = [active |-> 1, previous |-> 0]
    /\ UNCHANGED <<files, metas, store, pc, count, acked, floor>>

\* A rotation: a new active key, the old one kept for reading.  The operator
\* gives up a key once no segment is left that was written with it.
Rotate ==
    /\ ~IsOpen /\ handle.active \in 1 .. MaxKek - 1
    /\ \A s \in DOMAIN files : s \in DOMAIN metas => metas[s].kek = handle.active
    /\ handle' = [active |-> handle.active + 1, previous |-> handle.active]
    /\ UNCHANGED <<files, metas, store, pc, count, acked, floor>>

Next ==
    \/ Open \/ BeginAppend \/ WriteMeta \/ CreateFile \/ WriteHeader \/ WriteRecord
    \/ WritePayload \/ Crash \/ Enable \/ Rotate
    \/ \E min \in 1 .. MaxAppends : IsOpen /\ min <= store.next_seq /\ Gc(min)

Spec == Init /\ [][Next]_vars

-----------------------------------------------------------------------------
(* Properties                                                                *)

TypeOK ==
    /\ DOMAIN files \subseteq 0 .. MaxAppends
    /\ DOMAIN metas \subseteq 0 .. MaxAppends
    /\ store.next_seq \in -1 .. MaxAppends
    /\ pc \in {"idle", "meta", "file", "header", "record", "payload"}
    /\ \A i \in 1 .. Len(store.segments) - 1 :
         store.segments[i].start < store.segments[i + 1].start

\* Every body whose append returned is found by a replay, across rollovers,
\* restarts, key rotations and collection, until it was released.
BodiesKept ==
    IsOpen /\ pc = "idle" =>
        \A r \in acked : r.seq >= floor => Item(r, TRUE) \in IterFrom(floor)

\* A sequence number is given to one event only.
SeqsFresh == \A r, q \in acked : r.seq = q.seq => r = q

\* A store that a process left behind opens again: no crash, orphaned sidecar
\* or rotation makes a segment that open refuses.
OpensAgain == ~IsOpen => \A s \in DOMAIN files : Opens(s)

\* A segment of an encrypting store never holds a record in the clear, and
\* no record is sealed with another key than its sidecar's.
SealedAsTold ==
    IsOpen =>
        \A i \in DOMAIN store.segments :
            LET s == store.segments[i].start
            IN  \A r \in Range(files[s].items) : r.dek = LoadCipher(s).dek
=============================================================================
