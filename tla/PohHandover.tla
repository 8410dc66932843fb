---------------------------- MODULE PohHandover ----------------------------
(* The proof-of-history chain of one partition and its way between the nodes *)
(* of a cluster: PohChain, the installed and live chain registries, the      *)
(* export and the install of a handover.  A hash is the term it was computed *)
(* from (HashTrees), so a chain's head tells every batch it covers.  The     *)
(* handover itself is PartitionHandover; here it is reduced to the steps     *)
(* around the chain, one handover at a time, every node knowing the owner.   *)
EXTENDS HashTrees

CONSTANTS
    Nodes,
    Batches,     \* the output batches a processor may produce: sequences of payloads
    MaxRecent,   \* PohConfig::max_recent_entries
    RingCap,     \* batches between the source and the processor task
    MaxSeq,      \* bound on the entries of all chains together
    MaxMoves,    \* bound on the handovers
    MaxRestarts  \* bound on the stops

VARIABLES
    chain,      \* the live chain of a running task and of the live registry
    installed,  \* InstalledPohChainRegistry
    gate,       \* "none" while the pipeline is stopped
    ring,       \* batches fetched and not yet processed
    owner,
    drive,      \* the handover: its phase, its target, the exported state
    count       \* entries appended, handovers begun, stops

vars == <<chain, installed, gate, ring, owner, drive, count>>

NoChain == [sequence |-> -1]
NoState == [sequence |-> -1]
NoDrive == [phase |-> "none", target |-> CHOOSE n \in Nodes : TRUE, state |-> NoState]

Genesis == <<"genesis", "partition">>
\* The timestamp tells nothing more than the position and is left out.
Sha512Poh(previous, root) == <<"poh", previous, root>>

-----------------------------------------------------------------------------
(* PohChain                                                                  *)

NewChain == [current_hash |-> Genesis, sequence |-> 0, mmr |-> EmptyRange, recent |-> << >>]

\* recent_entries.push, and remove(0) beyond max_recent.
Remembered(recent, e) ==
    LET all == Append(recent, e)
    IN  IF Len(all) > MaxRecent THEN Tail(all) ELSE all

\* append_batch with a non-empty batch.
AppendBatch(c, batch) ==
    LET root == Root(FromData(batch))
        hash == Sha512Poh(c.current_hash, root)
        e    == [sequence |-> c.sequence, hash |-> hash, merkle_root |-> root,
                 batch_size |-> Len(batch)]
    IN  [current_hash |-> hash,
         sequence     |-> c.sequence + 1,
         mmr          |-> RangeAppend(c.mmr, root),
         recent       |-> Remembered(c.recent, e)]

VerifyChain(e, previous) == e.hash = Sha512Poh(previous, e.merkle_root)

\* verify_recent: from the genesis when the first entry is the chain's first,
\* pairwise otherwise.
VerifyRecent(c) ==
    LET r == c.recent
    IN  /\ r # << >> /\ r[1].sequence = 0 => VerifyChain(r[1], Genesis)
        /\ \A i \in 2 .. Len(r) : VerifyChain(r[i], r[i - 1].hash)

ExportState(c) == [current_hash |-> c.current_hash, sequence |-> c.sequence, mmr |-> c.mmr]

FromState(s) ==
    [current_hash |-> s.current_hash, sequence |-> s.sequence, mmr |-> s.mmr, recent |-> << >>]

\* verify_state: genesis exactly when nothing was appended, and a range that
\* is not ahead of the chain and has one peak per set bit.
VerifyState(s) ==
    /\ s.sequence = 0 <=> s.current_hash = Genesis
    /\ s.mmr.leaf_count <= s.sequence
    /\ Len(Peaks(s.mmr)) = CountOnes(s.mmr.leaf_count)

-----------------------------------------------------------------------------
(* The pipelines                                                             *)

Init ==
    /\ owner \in Nodes
    /\ chain = [n \in Nodes |-> NoChain]
    /\ installed = [n \in Nodes |-> NoChain]
    /\ gate = [n \in Nodes |-> "none"]
    /\ ring = [n \in Nodes |-> 0]
    /\ drive = NoDrive
    /\ count = [entries |-> 0, moves |-> 0, stops |-> 0]

\* The supervisor starts the pipeline: create_poh_state takes the installed
\* chain, or begins at the genesis, and registers it as live.
StartPipeline(n) ==
    /\ gate[n] = "none"
    /\ chain' = [chain EXCEPT ![n] = IF installed[n] = NoChain THEN NewChain ELSE installed[n]]
    /\ installed' = [installed EXCEPT ![n] = NoChain]
    /\ gate' = [gate EXCEPT ![n] = "Open"]
    /\ ring' = [ring EXCEPT ![n] = 0]
    /\ UNCHANGED <<owner, drive, count>>

\* The supervisor stops it: the chain and what the rings hold are dropped.
StopPipeline(n) ==
    /\ gate[n] # "none"
    /\ count.stops < MaxRestarts
    /\ count' = [count EXCEPT !.stops = @ + 1]
    /\ chain' = [chain EXCEPT ![n] = NoChain]
    /\ gate' = [gate EXCEPT ![n] = "none"]
    /\ ring' = [ring EXCEPT ![n] = 0]
    /\ UNCHANGED <<installed, owner, drive>>

\* The source task passes the gate and hands a batch to the ring.
Fetch(n) ==
    /\ owner = n /\ gate[n] = "Open" /\ ring[n] < RingCap
    /\ count.entries + ring[n] < MaxSeq
    /\ ring' = [ring EXCEPT ![n] = @ + 1]
    /\ UNCHANGED <<chain, installed, gate, owner, drive, count>>

\* The processor task: process_batch, then poh_append_batch, which does
\* nothing when there are no outputs.
Process(n) ==
    /\ gate[n] # "none" /\ ring[n] > 0
    /\ ring' = [ring EXCEPT ![n] = @ - 1]
    /\ \/ /\ count.entries < MaxSeq
          /\ \E batch \in Batches : chain' = [chain EXCEPT ![n] = AppendBatch(@, batch)]
          /\ count' = [count EXCEPT !.entries = @ + 1]
       \/ UNCHANGED <<chain, count>>
    /\ UNCHANGED <<installed, gate, owner, drive>>

-----------------------------------------------------------------------------
(* The handover                                                              *)

\* The tracker is at Cutover: the target asks for the chain.
BeginMove(t) ==
    /\ drive.phase = "none" /\ t # owner
    /\ count.moves < MaxMoves
    /\ count' = [count EXCEPT !.moves = @ + 1]
    /\ drive' = [phase |-> "export", target |-> t, state |-> NoState]
    /\ UNCHANGED <<chain, installed, gate, ring, owner>>

\* PohChainExportProvider::export_state on the owner; nothing is live there
\* while the pipeline is stopped, and the answer is then empty.
Export ==
    /\ drive.phase = "export"
    /\ drive' = [drive EXCEPT
                   !.phase = "install",
                   !.state = IF chain[owner] = NoChain THEN NoState ELSE ExportState(chain[owner])]
    /\ UNCHANGED <<chain, installed, gate, ring, owner, count>>

\* PohChainInstallerImpl::install on the target; a state that does not verify
\* aborts the handover.
Install ==
    /\ drive.phase = "install"
    /\ IF drive.state = NoState
       THEN drive' = [drive EXCEPT !.phase = "cutover"] /\ UNCHANGED installed
       ELSE IF VerifyState(drive.state)
            THEN /\ drive' = [drive EXCEPT !.phase = "cutover"]
                 /\ installed' = [installed EXCEPT ![drive.target] = FromState(drive.state)]
            ELSE drive' = NoDrive /\ UNCHANGED installed
    /\ UNCHANGED <<chain, gate, ring, owner, count>>

\* The owner drains its gate and closes it.
Cutover ==
    /\ drive.phase = "cutover"
    /\ gate' = [gate EXCEPT ![owner] = IF @ = "none" THEN "none" ELSE "Closed"]
    /\ drive' = [drive EXCEPT !.phase = "complete"]
    /\ UNCHANGED <<chain, installed, ring, owner, count>>

\* CompleteTransfer commits.
Complete ==
    /\ drive.phase = "complete"
    /\ owner' = drive.target
    /\ drive' = NoDrive
    /\ UNCHANGED <<chain, installed, gate, ring, count>>

\* The handover fails on the way and is aborted.
Abort ==
    /\ drive.phase \in {"export", "install", "cutover", "complete"}
    /\ drive' = NoDrive
    /\ UNCHANGED <<chain, installed, gate, ring, owner, count>>

Next ==
    \/ \E n \in Nodes :
         StartPipeline(n) \/ StopPipeline(n) \/ Fetch(n) \/ Process(n) \/ BeginMove(n)
    \/ Export \/ Install \/ Cutover \/ Complete \/ Abort

Spec == Init /\ [][Next]_vars

-----------------------------------------------------------------------------
(* Properties                                                                *)

RECURSIVE RootsOf(_)
\* The Merkle roots a head covers, oldest first.
RootsOf(hash) == IF hash = Genesis THEN << >> ELSE Append(RootsOf(hash[2]), hash[3])

Chains == ({chain[n] : n \in Nodes} \cup {installed[n] : n \in Nodes}) \ {NoChain}

TypeOK ==
    /\ owner \in Nodes
    /\ \A c \in Chains : c.sequence \in 0 .. MaxSeq /\ Len(c.recent) <= MaxRecent
    /\ gate \in [Nodes -> {"none", "Open", "Closed"}]
    /\ ring \in [Nodes -> 0 .. RingCap]
    /\ drive.phase \in {"none", "export", "install", "cutover", "complete"}
    /\ \A n \in Nodes : gate[n] = "none" <=> chain[n] = NoChain

\* verify_recent finds nothing wrong with an honest chain, whether its first
\* entry is still in memory, was evicted, or was appended on another node.
RecentVerifies == \A c \in Chains : VerifyRecent(c)

\* Whatever an owner exports, the target's verify_state accepts: a handover
\* is never aborted for a chain that was kept as the code keeps it.
ExportAccepted == \A c \in Chains : VerifyState(ExportState(c))

\* The head, the sequence and the range speak of the same batches, also
\* after a handover: the range's root is the one computed from the roots the
\* head covers.
RangeFollowsHead ==
    \A c \in Chains :
        LET roots == RootsOf(c.current_hash)
        IN  /\ Len(roots) = c.sequence
            /\ c.mmr.leaf_count = c.sequence
            /\ RangeRoot(c.mmr) = Bagged(roots)

\* "When a partition moves between nodes, the chain continues from the last
\* entry": the chain of the new owner covers the chain of the old one.
ContinuesFromLast ==
    \A n \in Nodes :
        /\ gate[n] = "Closed" /\ owner # n /\ gate[owner] = "Open"
        => IsPrefix(RootsOf(chain[n].current_hash), RootsOf(chain[owner].current_hash))
=============================================================================
