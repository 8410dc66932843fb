------------------------------ MODULE MCState -------------------------------
(* The stores, the windows and the hash structures for TLC: TieredStore,    *)
(* MmapStore, EncryptedL3, L2BodyStore, Windows, HashTrees and PohHandover. *)
(* A behaviour is about one of them, which its first state chooses; TLC so  *)
(* explores each component by itself in one run.                            *)
EXTENDS TieredStore, Integers, Sequences

CONSTANTS k1, k2, v1, v2, c1

VARIABLES
    part,   \* the component of the behaviour, with its settings
    \* TieredStore with all three tiers, compared with StateMap
    mapL1, mapL2, mapL3, mapOp, mapAcked, mapRestarts, mapFaults, mapClears,
    \* TieredStore in memory, with clears
    memL1, memL2, memL3, memOp, memAcked, memRestarts, memFaults, memClears,
    \* MmapStore
    disk, path, handle, write_pos, index, count, mmapOp, mmapAcked, used,
    \* L2BodyStore
    files, metas, store, bodyHandle, pc, bodyCount, bodyAcked, floor,
    \* EncryptedL3
    inner, sidecar, cipher, sealedHandle, req, ans,
    \* Windows
    sessions, watermark, members, closed, events,
    \* tumbling and sliding windows: a timestamp, a size, a slide
    t, size, slide,
    \* HashTrees: a batch and the mountain range of its payloads
    batch, range,
    \* PohHandover
    chain, installed, gate, ring, owner, drive, pohCount

TwoKeys   == {k1, k2}
TwoVals   == {v1, v2}
OneClient == {c1}

Hash == INSTANCE HashTrees

\* The next timestamp, for the assignment to windows.
Tick == t < 40 /\ t' = t + 1 /\ UNCHANGED <<size, slide>>

\* A batch of two payloads grows to seven, one of a single payload to 130.
Grow ==
    \E d \in IF part = "trees" THEN {1, 2} ELSE {1} :
        /\ Len(batch) < IF part = "trees" THEN 7 ELSE 130
        /\ batch' = Append(batch, d)
        /\ range' = Hash!RangeAppend(range, Hash!Sha512(d))

Tiers == INSTANCE TieredStore WITH
    L2On <- TRUE, L3On <- TRUE, MaxRestarts <- 0, MaxFaults <- 0,
    MaxClears <- 0, l1 <- mapL1, l2 <- mapL2, l3 <- mapL3, op <- mapOp,
    acked <- mapAcked, restarts <- mapRestarts, faults <- mapFaults,
    clears <- mapClears

Memory == INSTANCE TieredStore WITH
    L2On <- TRUE, L3On <- FALSE, MaxRestarts <- 0, MaxFaults <- 0,
    MaxClears <- 1, l1 <- memL1, l2 <- memL2, l3 <- memL3, op <- memOp,
    acked <- memAcked, restarts <- memRestarts, faults <- memFaults,
    clears <- memClears

\* One client with crashes and a failing write; without faults and with two
\* compactions.
Crashing == INSTANCE MmapStore WITH
    Long <- {v2}, TailKey <- Nothing, MaxWrites <- 2, MaxCompacts <- 2,
    MaxRestarts <- 2, MaxFaults <- 1, MaxClears <- 1, op <- mmapOp,
    acked <- mmapAcked
Compacting == INSTANCE MmapStore WITH
    Long <- {v2}, TailKey <- Nothing, MaxWrites <- 3, MaxCompacts <- 2,
    MaxRestarts <- 1, MaxFaults <- 0, MaxClears <- 0, op <- mmapOp,
    acked <- mmapAcked

Bodies == INSTANCE L2BodyStore WITH
    SegmentRecords <- 2, MaxAppends <- 6, MaxCrashes <- 4, MaxKek <- 3,
    CrashPoints <- {"idle", "meta", "file"}, handle <- bodyHandle,
    count <- bodyCount, acked <- bodyAcked

Sealed == INSTANCE EncryptedL3 WITH
    MaxKek <- 3, TornSidecar <- TRUE, handle <- sealedHandle

Sessions == INSTANCE Windows WITH
    Keys <- {1, 2}, Times <- 0 .. 8, Gap <- 2, MaxLateness <- 1,
    InOrder <- TRUE, MaxEvents <- 6

Poh == INSTANCE PohHandover WITH
    Nodes <- {1, 2}, Batches <- {<<1>>, <<1, 2>>}, MaxRecent <- 2,
    RingCap <- 1, MaxSeq <- 3, MaxMoves <- 2, MaxRestarts <- 1,
    count <- pohCount

-----------------------------------------------------------------------------
(* One component at a time                                                 *)

MapVars == <<mapL1, mapL2, mapL3, mapOp, mapAcked, mapRestarts, mapFaults,
             mapClears>>
MemoryVars == <<memL1, memL2, memL3, memOp, memAcked, memRestarts, memFaults,
                memClears>>
MmapVars == <<disk, path, handle, write_pos, index, count, mmapOp, mmapAcked,
              used>>
BodyVars == <<files, metas, store, bodyHandle, pc, bodyCount, bodyAcked,
              floor>>
SealedVars == <<inner, sidecar, cipher, sealedHandle, req, ans>>
SessionVars == <<sessions, watermark, members, closed, events>>
AssignVars == <<t, size, slide>>
TreeVars == <<batch, range>>
PohVars == <<chain, installed, gate, ring, owner, drive, pohCount>>

Parts == {"durable", "map", "memory", "mmap_crash", "mmap_compact", "bodies",
          "sealed", "sessions", "assign", "trees", "ranges", "chain"}

\* A component that is not the one of the behaviour rests in an initial state.
SuiteInit ==
    /\ part \in Parts
    /\ Init
    /\ Tiers!Init
    /\ Memory!Init
    /\ Crashing!Init
    /\ Bodies!Init /\ (part # "bodies" => bodyHandle = Bodies!NoKek)
    /\ Sealed!Init
    /\ Sessions!Init
    /\ t = -9
    /\ IF part = "assign" THEN size \in 1 .. 8 /\ slide \in 1 .. size ELSE size = 1 /\ slide = 1
    /\ batch = <<>> /\ range = Hash!EmptyRange
    /\ Poh!Init /\ (part # "chain" => owner = 1)

SuiteNext ==
    \/ part = "durable" /\ Next
       /\ UNCHANGED <<part, MapVars, MemoryVars, MmapVars, BodyVars,
                      SealedVars, SessionVars, AssignVars, TreeVars, PohVars>>
    \/ part = "map" /\ Tiers!Next
       /\ UNCHANGED <<part, vars, MemoryVars, MmapVars, BodyVars, SealedVars,
                      SessionVars, AssignVars, TreeVars, PohVars>>
    \/ part = "memory" /\ Memory!Next
       /\ UNCHANGED <<part, vars, MapVars, MmapVars, BodyVars, SealedVars,
                      SessionVars, AssignVars, TreeVars, PohVars>>
    \/ part = "mmap_crash" /\ Crashing!Next
       /\ UNCHANGED <<part, vars, MapVars, MemoryVars, BodyVars, SealedVars,
                      SessionVars, AssignVars, TreeVars, PohVars>>
    \/ part = "mmap_compact" /\ Compacting!Next
       /\ UNCHANGED <<part, vars, MapVars, MemoryVars, BodyVars, SealedVars,
                      SessionVars, AssignVars, TreeVars, PohVars>>
    \/ part = "bodies" /\ Bodies!Next
       /\ UNCHANGED <<part, vars, MapVars, MemoryVars, MmapVars, SealedVars,
                      SessionVars, AssignVars, TreeVars, PohVars>>
    \/ part = "sealed" /\ Sealed!Next
       /\ UNCHANGED <<part, vars, MapVars, MemoryVars, MmapVars, BodyVars,
                      SessionVars, AssignVars, TreeVars, PohVars>>
    \/ part = "sessions" /\ Sessions!Next
       /\ UNCHANGED <<part, vars, MapVars, MemoryVars, MmapVars, BodyVars,
                      SealedVars, AssignVars, TreeVars, PohVars>>
    \/ part = "assign" /\ Tick
       /\ UNCHANGED <<part, vars, MapVars, MemoryVars, MmapVars, BodyVars,
                      SealedVars, SessionVars, TreeVars, PohVars>>
    \/ part = "trees" /\ Grow
       /\ UNCHANGED <<part, vars, MapVars, MemoryVars, MmapVars, BodyVars,
                      SealedVars, SessionVars, AssignVars, PohVars>>
    \/ part = "ranges" /\ Grow
       /\ UNCHANGED <<part, vars, MapVars, MemoryVars, MmapVars, BodyVars,
                      SealedVars, SessionVars, AssignVars, PohVars>>
    \/ part = "chain" /\ Poh!Next
       /\ UNCHANGED <<part, vars, MapVars, MemoryVars, MmapVars, BodyVars,
                      SealedVars, SessionVars, AssignVars, TreeVars>>

suite == <<part, vars, MapVars, MemoryVars, MmapVars, BodyVars, SealedVars,
             SessionVars, AssignVars, TreeVars, PohVars>>

SuiteSpec == SuiteInit /\ [][SuiteNext]_suite

-----------------------------------------------------------------------------
(* Properties                                                               *)

OnMmap == part \in {"mmap_crash", "mmap_compact"}

\* Three tiers with promotion, demotion and write-through look like one map to
\* a single client, and so does L3 behind its encrypting wrapper, across
\* restarts, torn sidecars and rotations of the wrapping key.
StoresAreMaps == Tiers!ImplementsMap /\ Sealed!MapSpec

\* MmapStore, and two tiers in memory: what a store answered it gives back.
\* A get finds what the last answered put or delete of the key left, however
\* often the file was compacted, cleared, torn or read back, and is answered
\* with an entry of its own key; an open at any moment finds what was answered
\* last; the file and the memory agree when nothing is under way; and len() is
\* the number of keys a get would find.
AnsweredIsFound ==
    /\ Memory!ReadsLastWrite
    /\ OnMmap => /\ Crashing!ReadsAcked /\ Crashing!RecoversAcked
                 /\ Crashing!FileAgrees /\ Crashing!GetsOwnEntry
    /\ part = "mmap_compact" => Compacting!CountExact

\* L2BodyStore: every body whose append returned is found by a replay, across
\* rollovers, restarts, key rotations and collection, until it was released;
\* a sequence number is given to one event only; what a process left behind
\* opens again; and no record is sealed with another key than its sidecar's.
BodiesKept ==
    part = "bodies" => /\ Bodies!BodiesKept /\ Bodies!SeqsFresh
                       /\ Bodies!OpensAgain /\ Bodies!SealedAsTold

\* When a key's events come in order, a closed session's window contains the
\* timestamps of all its events, two sessions of a key share no instant, and no
\* gap inside a session is longer than Gap.  A timestamp is in its tumbling
\* window, whose start is a multiple of the size, also before the epoch.  From
\* the epoch on it is assigned to the sliding windows that start at a multiple
\* of the slide and contain it, except those that start before the epoch: to
\* all of them only when it lies a window's size behind the epoch (README,
\* section 5, sliding_epoch).
WindowsExact ==
    /\ part = "sessions" =>
         Sessions!WindowHoldsMembers /\ Sessions!SessionsApart /\ Sessions!OneBurst
    /\ part = "assign" =>
         /\ LET w == Sessions!Tumbling(size, t)
            IN  Sessions!Contains(w, t) /\ w.start % size = 0 /\ w.end - w.start = size
         /\ LET all == {Sessions!Window(s, s + size) :
                           s \in {n \in t - size .. t : n % slide = 0 /\ t < n + size}}
                assigned == Sessions!Sliding(size, slide, t)
            IN  /\ t >= 0 => assigned = {w \in all : w.start >= 0}
                /\ t >= size - 1 => assigned = all

Batches  == UNION {[1 .. n -> {1, 2}] : n \in 1 .. 7}
RootOf   == [b \in Batches |-> Hash!Root(Hash!FromData(b))]
FilledOf == [b \in Batches |-> Hash!Filled(b, 1)]

\* Every payload of a batch has an inclusion proof for its own hash that verify
\* accepts; two batches, of the same or of different lengths, have one root
\* exactly when they are the same after the last nodes of odd levels are
\* duplicated, so the root binds a batch of known length and no other (README,
\* section 5, merkle_repeat); and the mountain range's root is the one a
\* definition by recursion on the leaves gives, for every pattern of carries.
\* verify_recent finds nothing wrong with an honest chain, whether its first entry is still
\* in memory, was evicted, or was appended on another node; whatever an owner
\* exports the target accepts; and the head, the sequence and the range of a
\* chain speak of the same batches.
HashesBind ==
    /\ part = "trees" /\ batch # <<>> =>
         LET tree == Hash!FromData(batch)
         IN  /\ \A i \in 1 .. Len(batch) :
                  /\ Hash!HasProof(tree, i - 1)
                  /\ Hash!Proof(tree, i - 1).leaf_hash = Hash!Sha512(batch[i])
                  /\ Hash!Verify(Hash!Proof(tree, i - 1))
             /\ \A other \in Batches :
                  RootOf[other] = Hash!Root(tree)
                    <=> FilledOf[other] = Hash!Filled(batch, 1)
    /\ part = "ranges" =>
         Hash!RangeRoot(range) = Hash!Bagged([i \in DOMAIN batch |-> Hash!Sha512(batch[i])])
    /\ part = "chain" => Poh!RecentVerifies /\ Poh!ExportAccepted /\ Poh!RangeFollowsHead
=============================================================================
