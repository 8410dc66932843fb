----------------------------- MODULE MmapStore -----------------------------
(***************************************************************************)
(* The L2 tier: an append-only file, an index from keys to offsets in it,  *)
(* and compaction into a new file that is renamed over the old one.        *)
(*                                                                         *)
(* Source: aeon-state l2.rs.  Offsets count cells, from 1: an entry is one *)
(* cell, or LongSize cells when its value is long, so that a torn entry    *)
(* and an entry written over a longer one can be told apart.  A tombstone  *)
(* is an entry whose value is Nothing.  Files are numbered in the order    *)
(* they are created; a handle keeps its file whatever the path names.      *)
(* Errors of the file system while the process goes on are not modelled;   *)
(* in compact they end the call, before the rename with the old file and   *)
(* after it with a handle on a file that has no name.                      *)
(***************************************************************************)
EXTENDS Naturals, Sequences, FiniteSets, FiniteSetsExt

CONSTANTS
  Keys, Vals, Nothing,
  Long,         \* the values longer than an entry without a value
  TailKey,      \* when a key: the end of a long value reads as its tombstone
  Clients,
  Writers,      \* the clients that put and delete
  MaxWrites,    \* bound: puts and deletes
  MaxCompacts,  \* bound: compactions
  MaxRestarts,  \* bound: restarts
  MaxFaults,    \* bound: appends that fail half-way
  MaxClears     \* bound: clears

VARIABLES
  disk,       \* disk[i]: the cells of file i
  path,       \* the file the path names
  handle,     \* the file that is open
  write_pos,  \* the offset of the next entry
  index,      \* index[k]: the offset of k's entry, 0 when there is none
  count,      \* entry_count
  op,         \* op[c]: the operation of the client and how far it is
  acked,      \* acked[k]: the values k may have after what was answered
  used        \* how often each bounded thing has happened

vars == <<disk, path, handle, write_pos, index, count, op, acked, used>>

LongSize == 3
Size(v) == IF v \in Long THEN LongSize ELSE 1
Cells(k, v) == [i \in 1..Size(v) |-> [key |-> k, val |-> v, part |-> i]]
Hole == [key |-> Nothing, val |-> Nothing, part |-> 0]
Files == 1..(MaxCompacts + 1)
NoIndex == [k \in Keys |-> 0]
NoOp == [kind |-> "none", pc |-> "idle", key |-> Nothing, val |-> Nothing, at |-> 0,
         known |-> FALSE, from |-> Nothing, index |-> NoIndex]

Init ==
  /\ disk = [i \in Files |-> <<>>] /\ path = 1 /\ handle = 1
  /\ write_pos = 1 /\ index = NoIndex /\ count = 0
  /\ op = [c \in Clients |-> NoOp]
  /\ acked = [k \in Keys |-> {Nothing}]
  /\ used = [write |-> 0, compact |-> 0, restart |-> 0, fault |-> 0, clear |-> 0]

Use(what, max) == used[what] < max /\ used' = [used EXCEPT ![what] = @ + 1]
Kind(c, kind, pc) == op[c].kind = kind /\ op[c].pc = pc
Goto(c, pc) == op' = [op EXCEPT ![c].pc = pc]
Finish(c) == op' = [op EXCEPT ![c] = NoOp]

---------------------------------------------------------------------------
(* The file.                                                                 *)

\* seek(p), then write_all: what lay there is overwritten, a gap reads as zeros.
Overwrite(s, p, t) ==
  [i \in 1..Max({Len(s), p + Len(t) - 1}) |->
     IF i >= p /\ i < p + Len(t) THEN t[i - p + 1]
     ELSE IF i <= Len(s) THEN s[i] ELSE Hole]

Whole(s, p) ==
  /\ p \in DOMAIN s /\ s[p].part = 1 /\ p + Size(s[p].val) - 1 <= Len(s)
  /\ SubSeq(s, p, p + Size(s[p].val) - 1) = Cells(s[p].key, s[p].val)
Looks(s, p) == TailKey # Nothing /\ p \in DOMAIN s /\ s[p].part > 1

\* read_entry_at on bytes that are an entry, or read like one.
EntryAt(s, p) ==
  IF Whole(s, p) THEN [key |-> s[p].key, val |-> s[p].val, size |-> Size(s[p].val)]
  ELSE [key |-> TailKey, val |-> Nothing, size |-> 1]

\* The offsets open visits: entry after entry, up to the first that cannot be read.
Offsets(s) ==
  LET from[p \in 1..(Len(s) + 1)] ==
        IF Whole(s, p) \/ Looks(s, p) THEN {p} \cup from[p + EntryAt(s, p).size] ELSE {}
  IN from[1]

\* The index and the end that open recovers from a file.
Recovered(s) ==
  LET all == Offsets(s)
      last(k) == Max({0} \cup {p \in all : EntryAt(s, p).key = k})
  IN [index |-> [k \in Keys |-> IF last(k) # 0 /\ EntryAt(s, last(k)).val # Nothing
                                THEN last(k) ELSE 0],
      pos |-> Max({1} \cup {p + EntryAt(s, p).size : p \in all})]

\* append_entry at the end the store knows, in the file it has open.
AppendEntry(k, v) ==
  /\ disk' = [disk EXCEPT ![handle] = Overwrite(@, write_pos, Cells(k, v))]
  /\ write_pos' = write_pos + Size(v)

\* append_entry that fails: what was written of the entry stays in the file.
Tear(k, v) ==
  /\ \E n \in 0..(Size(v) - 1) :
       disk' = [disk EXCEPT ![handle] = Overwrite(@, write_pos, SubSeq(Cells(k, v), 1, n))]
  /\ UNCHANGED write_pos

---------------------------------------------------------------------------
(* put                                                                       *)

AskPut(c, k, v) ==
  /\ op[c] = NoOp /\ c \in Writers /\ Use("write", MaxWrites)
  /\ op' = [op EXCEPT ![c].kind = "put", ![c].pc = "append", ![c].key = k, ![c].val = v,
                      ![c].known = index[k] # 0]
  /\ UNCHANGED <<disk, path, handle, write_pos, index, count, acked>>

PutAppend(c) ==
  /\ Kind(c, "put", "append")
  /\ AppendEntry(op[c].key, op[c].val)
  /\ op' = [op EXCEPT ![c].pc = "index", ![c].at = write_pos]
  /\ UNCHANGED <<path, handle, index, count, acked, used>>

PutFails(c) ==
  /\ Kind(c, "put", "append") /\ Use("fault", MaxFaults)
  /\ Tear(op[c].key, op[c].val)
  /\ acked' = [acked EXCEPT ![op[c].key] = @ \cup {op[c].val}]
  /\ Finish(c)
  /\ UNCHANGED <<path, handle, index, count>>

PutIndex(c) ==
  /\ Kind(c, "put", "index")
  /\ index' = [index EXCEPT ![op[c].key] = op[c].at]
  /\ count' = IF op[c].known THEN count ELSE count + 1
  /\ acked' = [acked EXCEPT ![op[c].key] = {op[c].val}]
  /\ Finish(c)
  /\ UNCHANGED <<disk, path, handle, write_pos, used>>

---------------------------------------------------------------------------
(* delete: out of the index, then the tombstone.  A key that is not there is *)
(* not written.                                                              *)

DeleteIndex(c, k) ==
  /\ op[c] = NoOp /\ c \in Writers /\ index[k] # 0 /\ Use("write", MaxWrites)
  /\ index' = [index EXCEPT ![k] = 0]
  /\ op' = [op EXCEPT ![c].kind = "delete", ![c].pc = "append", ![c].key = k]
  /\ UNCHANGED <<disk, path, handle, write_pos, count, acked>>

DeleteAppend(c) ==
  /\ Kind(c, "delete", "append")
  /\ AppendEntry(op[c].key, Nothing)
  /\ count' = count - 1
  /\ acked' = [acked EXCEPT ![op[c].key] = {Nothing}]
  /\ Finish(c)
  /\ UNCHANGED <<path, handle, index, used>>

DeleteFails(c) ==
  /\ Kind(c, "delete", "append") /\ Use("fault", MaxFaults)
  /\ Tear(op[c].key, Nothing)
  /\ acked' = [acked EXCEPT ![op[c].key] = @ \cup {Nothing}]
  /\ Finish(c)
  /\ UNCHANGED <<path, handle, index, count>>

---------------------------------------------------------------------------
(* get: the offset from the index, then, with no lock in between, the entry  *)
(* at that offset of the file.                                               *)

GetIndex(c, k) ==
  /\ op[c] = NoOp /\ index[k] # 0
  /\ op' = [op EXCEPT ![c].kind = "get", ![c].pc = "read", ![c].key = k, ![c].at = index[k]]
  /\ UNCHANGED <<disk, path, handle, write_pos, index, count, acked, used>>

GetFile(c) ==
  LET s == disk[handle] IN
  /\ Kind(c, "get", "read")
  /\ op' = IF Whole(s, op[c].at)
           THEN [op EXCEPT ![c].pc = "return", ![c].val = EntryAt(s, op[c].at).val,
                           ![c].from = EntryAt(s, op[c].at).key]
           ELSE [op EXCEPT ![c].pc = "return", ![c].from = Nothing]
  /\ UNCHANGED <<disk, path, handle, write_pos, index, count, acked, used>>

GetReturns(c) ==
  /\ Kind(c, "get", "return") /\ Finish(c)
  /\ UNCHANGED <<disk, path, handle, write_pos, index, count, acked, used>>

---------------------------------------------------------------------------
(* compact: the live entries, in any order, into a new file; then the rename,*)
(* the handle, the index and the end, each under a lock of its own or none.  *)
(* One compaction at a time is assumed.                                      *)

Orders(S) == {q \in [1..Cardinality(S) -> S] : \A i, j \in DOMAIN q : i # j => q[i] # q[j]}
Live == {k \in Keys : index[k] # 0 /\ Whole(disk[handle], index[k])}
ValueOf(k) == EntryAt(disk[handle], index[k]).val

CompactBuild(c) ==
  /\ op[c] = NoOp /\ \A d \in Clients : op[d].kind # "compact"
  /\ Use("compact", MaxCompacts)
  /\ \E q \in Orders(Live) :
       LET ends[i \in 0..Len(q)] == IF i = 0 THEN 1 ELSE ends[i - 1] + Size(ValueOf(q[i]))
           file[i \in 0..Len(q)] == IF i = 0 THEN <<>> ELSE file[i - 1] \o Cells(q[i], ValueOf(q[i]))
       IN /\ disk' = [disk EXCEPT ![used.compact + 2] = file[Len(q)]]
          /\ op' = [op EXCEPT ![c].kind = "compact", ![c].pc = "rename", ![c].at = ends[Len(q)],
                    ![c].index = [k \in Keys |-> IF k \in Live
                                                 THEN ends[(CHOOSE i \in DOMAIN q : q[i] = k) - 1]
                                                 ELSE 0]]
  /\ UNCHANGED <<path, handle, write_pos, index, count, acked>>

CompactRename(c) ==
  /\ Kind(c, "compact", "rename")
  /\ path' = used.compact + 1
  /\ Goto(c, "file")
  /\ UNCHANGED <<disk, handle, write_pos, index, count, acked, used>>

CompactFile(c) ==
  /\ Kind(c, "compact", "file")
  /\ handle' = path
  /\ Goto(c, "index")
  /\ UNCHANGED <<disk, path, write_pos, index, count, acked, used>>

CompactIndex(c) ==
  /\ Kind(c, "compact", "index")
  /\ index' = op[c].index
  /\ Goto(c, "end")
  /\ UNCHANGED <<disk, path, handle, write_pos, count, acked, used>>

\* Mutant of CompactEnd: the next entry goes where the old file ended.
CompactKeepsEnd(c) ==
  /\ Kind(c, "compact", "end")
  /\ Finish(c)
  /\ UNCHANGED <<disk, path, handle, write_pos, index, count, acked, used>>

CompactEnd(c) ==
  /\ Kind(c, "compact", "end")
  /\ write_pos' = op[c].at
  /\ Finish(c)
  /\ UNCHANGED <<disk, path, handle, index, count, acked, used>>

---------------------------------------------------------------------------

\* clear holds both locks throughout.
Clear(c) ==
  /\ op[c] = NoOp /\ c \in Writers /\ Use("clear", MaxClears)
  /\ index' = NoIndex /\ disk' = [disk EXCEPT ![handle] = <<>>]
  /\ write_pos' = 1 /\ count' = 0
  /\ acked' = [k \in Keys |-> {Nothing}]
  /\ UNCHANGED <<path, handle, op>>

Writing(c) == op[c].kind \in {"put", "delete"} /\ op[c].pc = "append"

\* The process ends, perhaps in the middle of an append, and open reads the
\* file back: up to the first entry it cannot read, leaving what follows.
Restart ==
  /\ Use("restart", MaxRestarts)
  /\ \/ UNCHANGED disk
     \/ \E c \in Clients : /\ Writing(c)
                           /\ \E n \in 1..(Size(op[c].val) - 1) :
                                disk' = [disk EXCEPT ![handle] =
                                           Overwrite(@, write_pos,
                                                     SubSeq(Cells(op[c].key, op[c].val), 1, n))]
  /\ LET r == Recovered(disk'[path]) IN
       /\ index' = r.index /\ write_pos' = r.pos
       /\ count' = Cardinality({k \in Keys : r.index[k] # 0})
  /\ handle' = path
  /\ op' = [c \in Clients |-> NoOp]
  /\ acked' = [k \in Keys |-> acked[k] \cup
                {op[c].val : c \in {d \in Clients : op[d].kind \in {"put", "delete"} /\ op[d].key = k}}]
  /\ UNCHANGED path

Step(c) ==
  \/ PutAppend(c) \/ PutFails(c) \/ PutIndex(c) \/ DeleteAppend(c) \/ DeleteFails(c)
  \/ GetFile(c) \/ GetReturns(c) \/ Clear(c)
  \/ CompactBuild(c) \/ CompactRename(c) \/ CompactFile(c) \/ CompactIndex(c) \/ CompactEnd(c)

Next ==
  \/ \E c \in Clients :
       \/ Step(c)
       \/ \E k \in Keys : GetIndex(c, k) \/ DeleteIndex(c, k) \/ \E v \in Vals : AskPut(c, k, v)
  \/ Restart

Spec == Init /\ [][Next]_vars

---------------------------------------------------------------------------
(* Properties.                                                               *)

\* Types of the store's state.
TypeOK ==
  /\ \A i \in Files : \A p \in DOMAIN disk[i] :
       disk[i][p] = Hole \/ \E k \in Keys, v \in Vals \cup {Nothing} :
                               \E n \in 1..Size(v) : disk[i][p] = Cells(k, v)[n]
  /\ path \in Files /\ handle \in Files /\ write_pos \in Nat \ {0}
  /\ index \in [Keys -> Nat] /\ count \in Nat
  /\ acked \in [Keys -> SUBSET (Vals \cup {Nothing})]
  /\ \A c \in Clients : op[c].kind \in {"none", "put", "delete", "get", "compact"}

Quiet == \A c \in Clients : op[c] = NoOp
Read(s, ix, k) == IF ix[k] # 0 /\ Whole(s, ix[k]) THEN EntryAt(s, ix[k]).val ELSE Nothing

\* "Writes: append new entry, update index": when nothing is under way, a get
\* finds what the last answered put or delete of the key left, however often
\* the file was compacted, cleared, torn or read back.
ReadsAcked == Quiet => \A k \in Keys : Read(disk[handle], index, k) \in acked[k]

\* "Recover: read existing file, rebuild index": an open at any moment finds,
\* for every key no write is under way for, what was answered last.
RecoversAcked ==
  LET r == Recovered(disk[path]) IN
  \A k \in Keys :
    (\A c \in Clients : op[c].kind \in {"put", "delete"} => op[c].key # k)
      => Read(disk[path], r.index, k) \in acked[k]

\* The file and the memory agree: when nothing is under way and nothing has
\* failed, an open would find what a get finds.
FileAgrees ==
  (Quiet /\ used.fault = 0) =>
    \A k \in Keys : Read(disk[path], Recovered(disk[path]).index, k) = Read(disk[handle], index, k)

\* "In-memory index: mapping key -> file offset of its entry": a get is
\* answered with an entry of the key that was asked for.
GetsOwnEntry ==
  \A c \in Clients : Kind(c, "get", "return") => op[c].from \in {op[c].key, Nothing}

\* "Number of live entries": len() is the number of keys a get would find.
CountExact == Quiet => count = Cardinality({k \in Keys : index[k] # 0})
=============================================================================
