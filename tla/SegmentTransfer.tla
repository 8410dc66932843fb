-------------------------- MODULE SegmentTransfer --------------------------
(***************************************************************************)
(* The bulk sync of a partition transfer, segment by segment: the source   *)
(* node lists its L2 directory and streams the files while its own store   *)
(* appends to them and collects them; the target node installs the chunks; *)
(* the driver takes the answer and goes on to the cutover or gives up.     *)
(*                                                                         *)
(* Sources: aeon-engine l2_transfer.rs, partition_install.rs,              *)
(* engine_providers.rs, l2_body.rs, eo2.rs; aeon-cluster                   *)
(* transport/partition_transfer.rs, partition_driver.rs.  One partition;   *)
(* the ownership protocol around it is module PartitionHandover.           *)
(*                                                                         *)
(* A file is the sequence of what it holds: 0 for the header, then the     *)
(* sequence numbers of its records.  Files only grow, so a CRC stands for  *)
(* the content it was taken of.  Frames arrive in order and the target's   *)
(* files are nobody else's, so a chunk is applied when it is read.         *)
(***************************************************************************)
EXTENDS Naturals, Sequences, FiniteSets, FiniteSetsExt, Functions

CONSTANTS
  Nodes,
  NoNode,
  Encrypted,     \* segments are sealed: each has a .l2b.meta sidecar
  SegmentRecs,   \* rollover threshold, in records
  ChunkLen,      \* chunk size, in header and records
  MaxSeq,        \* bound: records appended to a store
  MaxTransfers,  \* bound: transfers
  MaxFails,      \* bound: connections that break
  MaxGcs,        \* bound: segments collected
  MaxRestarts    \* bound: node restarts

VARIABLES
  owner,   \* the node the table gives the partition to
  files,   \* files[n]: the segment files of the node's directory, by start_seq
  metas,   \* metas[n]: the segments with a sidecar
  store,   \* store[n]: the node's open L2BodyStore
  writer,  \* writer[n]: the SegmentWriter in the installer's map
  drive,   \* the drive under way
  budget

vars == <<owner, files, metas, store, writer, drive, budget>>

Seqs == 1 .. MaxSeq
Closed == [open |-> FALSE, segs |-> {}, next |-> 1, len |-> 0]
NoManifest == [s \in {} |-> [size |-> 0, crc |-> <<>>]]
NoWriter == [on |-> FALSE, manifest |-> NoManifest, finalized |-> {}]
NoDrive == [phase |-> "idle", target |-> NoNode, todo |-> {}, stat |-> 0,
            manifest |-> NoManifest, seg |-> 0, data |-> <<>>, off |-> 0]
Phases == {"idle", "list", "crc", "begin", "open", "stream", "cutover"}

Records(n) == UNION {{files[n][s][i] : i \in 2 .. Len(files[n][s])} : s \in DOMAIN files[n]}

Init ==
  /\ owner \in Nodes
  /\ files = [n \in Nodes |-> [s \in {} |-> <<>>]]
  /\ metas = [n \in Nodes |-> {}]
  /\ store = [n \in Nodes |-> Closed]
  /\ writer = [n \in Nodes |-> NoWriter]
  /\ drive = NoDrive
  /\ budget = [transfers |-> MaxTransfers, fails |-> MaxFails, gcs |-> MaxGcs,
               restarts |-> MaxRestarts]

\* A file is created or written over; an entry is pushed on the manifest.
With(f, s, v) == [x \in DOMAIN f \cup {s} |-> IF x = s THEN v ELSE f[x]]

Spend(what) == budget[what] > 0 /\ budget' = [budget EXCEPT ![what] = @ - 1]

---------------------------------------------------------------------------
(* The node's own store.                                                    *)

\* L2BodyStore::open scans the directory; a sealed record of a segment whose
\* sidecar is missing does not decode.
CanOpen(n) ==
  Encrypted => \A s \in DOMAIN files[n] : Len(files[n][s]) > 1 => s \in metas[n]

\* Mutant of OpenStore: a sequence number is skipped.
OpenStoreSkips(n) ==
  /\ owner = n /\ ~store[n].open /\ CanOpen(n)
  /\ LET last == Max({0} \cup DOMAIN files[n]) IN
     store' = [store EXCEPT ![n] = [open |-> TRUE, segs |-> DOMAIN files[n],
                                    next |-> Max({0} \cup Records(n)) + 2,
                                    len |-> IF last = 0 THEN 0 ELSE Len(files[n][last]) - 1]]
  /\ UNCHANGED <<owner, files, metas, writer, drive, budget>>

OpenStore(n) ==
  /\ owner = n /\ ~store[n].open /\ CanOpen(n)
  /\ LET last == Max({0} \cup DOMAIN files[n]) IN
     store' = [store EXCEPT ![n] = [open |-> TRUE, segs |-> DOMAIN files[n],
                                    next |-> Max({0} \cup Records(n)) + 1,
                                    len |-> IF last = 0 THEN 0 ELSE Len(files[n][last]) - 1]]
  /\ UNCHANGED <<owner, files, metas, writer, drive, budget>>

\* append: to the last segment, or to a new one when that is full.  The store
\* goes by what it knows of its segments; a segment somebody unlinked takes the
\* record with it.
AppendRecord(n) ==
  LET st == store[n]
      last == Max({0} \cup st.segs)
      full == last = 0 \/ st.len >= SegmentRecs
      seg == IF full THEN st.next ELSE last
  IN
  /\ owner = n /\ st.open /\ st.next <= MaxSeq
  /\ full => seg \notin DOMAIN files[n]
  /\ store' = [store EXCEPT ![n].next = @ + 1, ![n].segs = @ \cup {seg},
                           ![n].len = IF full THEN 1 ELSE @ + 1]
  /\ files' = [files EXCEPT ![n] =
                 CASE full -> With(@, seg, <<0, st.next>>)
                   [] seg \in DOMAIN @ -> With(@, seg, Append(@[seg], st.next))
                   [] OTHER -> @]
  /\ metas' = [metas EXCEPT ![n] = IF full /\ Encrypted THEN @ \cup {seg} ELSE @]
  /\ UNCHANGED <<owner, writer, drive, budget>>

\* gc_up_to drops the first segment, never the last; the sidecar stays.
Gc(n) ==
  /\ owner = n /\ store[n].open /\ Cardinality(store[n].segs) > 1
  /\ LET s == Min(store[n].segs) IN
     /\ s \in DOMAIN files[n]
     /\ files' = [files EXCEPT ![n] = Restrict(@, DOMAIN @ \ {s})]
     /\ store' = [store EXCEPT ![n].segs = @ \ {s}]
  /\ Spend("gcs")
  /\ UNCHANGED <<owner, metas, writer, drive>>

---------------------------------------------------------------------------
(* The driver on the target node.                                           *)

Goes(phase) == drive' = [drive EXCEPT !.phase = phase]

Request(t) ==
  /\ drive.phase = "idle" /\ t # owner
  /\ drive' = [NoDrive EXCEPT !.phase = "list", !.target = t, !.todo = DOMAIN files[owner]]
  /\ Spend("transfers")
  /\ UNCHANGED <<owner, files, metas, store, writer>>

\* The connection breaks, or the answer is an error: drive_one_inner aborts
\* the transfer, and the source keeps the partition.
Break ==
  /\ drive.phase \notin {"idle"} /\ Spend("fails")
  /\ drive' = NoDrive
  /\ UNCHANGED <<owner, files, metas, store, writer>>

\* read_manifest: stat, then the CRC of what the file holds by then.  A file
\* that is gone ends the listing; the answer is no manifest.
ListStat(s) ==
  /\ drive.phase = "list" /\ s \in drive.todo
  /\ IF s \in DOMAIN files[owner]
       THEN drive' = [drive EXCEPT !.phase = "crc", !.seg = s, !.stat = Len(files[owner][s])]
       ELSE drive' = NoDrive
  /\ UNCHANGED <<owner, files, metas, store, writer, budget>>

ListCrc ==
  LET s == drive.seg IN
  /\ drive.phase = "crc"
  /\ IF s \in DOMAIN files[owner]
       THEN drive' = [drive EXCEPT !.phase = "list", !.todo = @ \ {s}, !.seg = 0,
                        !.manifest = With(@, s, [size |-> drive.stat, crc |-> files[owner][s]])]
       ELSE drive' = NoDrive
  /\ UNCHANGED <<owner, files, metas, store, writer, budget>>

\* The manifest arrives: L2SegmentInstaller::begin.  A writer that is still
\* in the map is an error.
Begin ==
  LET t == drive.target IN
  /\ drive.phase = "list" /\ drive.todo = {}
  /\ IF writer[t].on
       THEN drive' = NoDrive /\ UNCHANGED writer
       ELSE /\ drive' = [drive EXCEPT !.phase = "open", !.todo = DOMAIN drive.manifest]
            /\ writer' = [writer EXCEPT ![t] = [on |-> TRUE, manifest |-> drive.manifest,
                                                finalized |-> {}]]
  /\ UNCHANGED <<owner, files, metas, store, budget>>

\* SegmentReader::open of the next segment of the manifest: it reads as far as
\* the file goes now, and keeps the file when it is unlinked.
OpenReader ==
  LET s == Min(drive.todo) IN
  /\ drive.phase = "open" /\ drive.todo # {} /\ s \in DOMAIN files[owner]
  /\ drive' = [drive EXCEPT !.phase = "stream", !.todo = @ \ {s}, !.seg = s,
                            !.data = files[owner][s], !.off = 0]
  /\ UNCHANGED <<owner, files, metas, store, writer, budget>>

\* The segment was collected: the end frame says so, and finish removes the
\* directory and returns Ok, which the driver takes for a finished bulk sync.
ReportFailure ==
  LET t == drive.target IN
  /\ drive.phase = "open" /\ drive.todo # {} /\ Min(drive.todo) \notin DOMAIN files[owner]
  /\ writer' = [writer EXCEPT ![t] = NoWriter]
  /\ files' = [files EXCEPT ![t] = [s \in {} |-> <<>>]]
  /\ metas' = [metas EXCEPT ![t] = {}]
  /\ Goes("cutover")
  /\ UNCHANGED <<owner, store, budget>>

\* Mutant of Chunk: neither the size nor the CRC is compared.
ChunkUnchecked ==
  LET t == drive.target
      s == drive.seg
      w == writer[t]
      upTo == Min({drive.off + ChunkLen, Len(drive.data)})
      data == SubSeq(drive.data, drive.off + 1, upTo)
      file == (IF drive.off = 0 THEN <<>> ELSE files[t][s]) \o data
      last == upTo = Len(drive.data)
      fits == TRUE
      whole == TRUE
  IN
  /\ drive.phase = "stream"
  /\ files' = [files EXCEPT ![t] = With(@, s, IF fits THEN file
                                                ELSE IF drive.off = 0 THEN <<>> ELSE @[s])]
  /\ drive' = CASE ~fits \/ (last /\ ~whole) -> NoDrive
                [] fits /\ last /\ whole -> [drive EXCEPT !.phase = "open", !.seg = 0, !.data = <<>>, !.off = 0]
                [] OTHER -> [drive EXCEPT !.off = upTo]
  /\ writer' = IF fits /\ last /\ whole THEN [writer EXCEPT ![t].finalized = @ \cup {s}] ELSE writer
  /\ UNCHANGED <<owner, metas, store, budget>>

\* next_chunk and SegmentWriter::apply_chunk: the first chunk truncates the
\* file, one that overflows the manifest's size is an error, and so is a last
\* one that leaves the file short or with another CRC.  An error ends the
\* drive and leaves the writer in the map.
Chunk ==
  LET t == drive.target
      s == drive.seg
      w == writer[t]
      upTo == Min({drive.off + ChunkLen, Len(drive.data)})
      data == SubSeq(drive.data, drive.off + 1, upTo)
      file == (IF drive.off = 0 THEN <<>> ELSE files[t][s]) \o data
      last == upTo = Len(drive.data)
      fits == upTo <= w.manifest[s].size
      whole == upTo = w.manifest[s].size /\ file = w.manifest[s].crc
  IN
  /\ drive.phase = "stream"
  /\ files' = [files EXCEPT ![t] = With(@, s, IF fits THEN file
                                                ELSE IF drive.off = 0 THEN <<>> ELSE @[s])]
  /\ drive' = CASE ~fits \/ (last /\ ~whole) -> NoDrive
                [] fits /\ last /\ whole -> [drive EXCEPT !.phase = "open", !.seg = 0, !.data = <<>>, !.off = 0]
                [] OTHER -> [drive EXCEPT !.off = upTo]
  /\ writer' = IF fits /\ last /\ whole THEN [writer EXCEPT ![t].finalized = @ \cup {s}] ELSE writer
  /\ UNCHANGED <<owner, metas, store, budget>>

\* The end frame says success: SegmentWriter::finish.
Finish ==
  LET t == drive.target IN
  /\ drive.phase = "open" /\ drive.todo = {}
  /\ writer' = [writer EXCEPT ![t] = NoWriter]
  /\ IF DOMAIN writer[t].manifest = writer[t].finalized THEN Goes("cutover") ELSE drive' = NoDrive
  /\ UNCHANGED <<owner, files, metas, store, budget>>

\* The rest of the handover, which PartitionHandover models.
Complete ==
  /\ drive.phase = "cutover"
  /\ owner' = drive.target /\ drive' = NoDrive
  /\ UNCHANGED <<files, metas, store, writer, budget>>

\* A process ends with its stores, its writers and the drive it was in.
Restart(n) ==
  /\ Spend("restarts")
  /\ store' = [store EXCEPT ![n] = Closed]
  /\ writer' = [writer EXCEPT ![n] = NoWriter]
  /\ drive' = IF n \in {owner, drive.target} THEN NoDrive ELSE drive
  /\ UNCHANGED <<owner, files, metas>>

DriveStep ==
  \/ \E s \in Seqs : ListStat(s)
  \/ ListCrc \/ Begin \/ OpenReader \/ ReportFailure \/ Chunk \/ Finish \/ Complete

Next ==
  \/ \E n \in Nodes : OpenStore(n) \/ AppendRecord(n) \/ Gc(n) \/ Request(n) \/ Restart(n)
  \/ DriveStep \/ Break

Spec == Init /\ [][Next]_vars

\* The tasks of the driver and of the server are polled.
FairSpec == Spec /\ WF_vars(DriveStep)

---------------------------------------------------------------------------
(* Properties.                                                              *)

TypeOK ==
  /\ owner \in Nodes
  /\ \A n \in Nodes :
       /\ DOMAIN files[n] \subseteq Seqs /\ metas[n] \subseteq Seqs
       /\ \A s \in DOMAIN files[n] : \A i \in DOMAIN files[n][s] : files[n][s][i] \in 0 .. MaxSeq
       /\ store[n].segs \subseteq Seqs /\ store[n].next \in 1 .. MaxSeq + 1
       /\ writer[n].finalized \subseteq DOMAIN writer[n].manifest
  /\ drive.phase \in Phases /\ drive.target \in Nodes \cup {NoNode}
  /\ drive.off <= Len(drive.data) /\ drive.todo \subseteq Seqs
  /\ budget \in [{"transfers", "fails", "gcs", "restarts"} -> Nat]

\* A bulk sync the driver takes for finished has installed every segment of
\* the manifest, each as long as the manifest says.
BulkInstalled ==
  drive.phase = "cutover" =>
    \A s \in DOMAIN drive.manifest :
      /\ s \in DOMAIN files[drive.target]
      /\ files[drive.target][s] = drive.manifest[s].crc

\* A segment counted as received is byte for byte a segment of the source,
\* although the source appends to it between the stat, the CRC and the read.
ReceivedWhole ==
  \A n \in Nodes : \A s \in writer[n].finalized :
    files[n][s] = writer[n].manifest[s].crc

\* "An entry is inserted on begin and removed on finish (success or abort)":
\* no writer is left behind when no drive is under way.
WriterFreed == drive.phase = "idle" => \A n \in Nodes : ~writer[n].on

\* "the engine can open the exact same directory once ownership flips".
OwnerCanOpen == store[owner].open \/ CanOpen(owner)

\* A store never hands out a sequence number its directory already holds.
NoSeqReuse ==
  [][\A n \in Nodes :
       store[n].open /\ store'[n].open /\ store'[n].next = store[n].next + 1
         => store[n].next \notin Records(n)]_vars

\* Every drive ends.
DriveEnds == (drive.phase # "idle") ~> (drive.phase = "idle")
=============================================================================
