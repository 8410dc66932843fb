----------------------------- MODULE WasmGuest -----------------------------
(* One Wasm processor instance built with the aeon_processor! macro, and    *)
(* the host calls of WasmProcessor::process: alloc, write, process, read,   *)
(* dealloc.  The guest allocates from a bump heap that process() resets;    *)
(* the host's own alloc comes before that reset.  Addresses are counted     *)
(* from the heap's base in bytes; what matters of a memory cell is whether  *)
(* an unread byte of the event is written over.                             *)
EXTENDS Naturals, Sequences

CONSTANTS
    HeapSize,     \* _AEON_HEAP_SIZE
    SourceLens,   \* lengths of event sources
    Metas,        \* metadata: sequences of pairs of lengths, key and value
    PayloadLens,
    Works         \* bytes the user's function and the answer allocate

VARIABLES
    pos,       \* _AEON_HEAP_POS
    pc,        \* "idle", "alloc", "parse", "work", "trap", "lost"
    event,     \* lengths of the event's parts
    ptr,       \* where the host wrote the event
    todo,      \* what deserialize_event still does: copies and pushes
    spoiled,   \* a part of this event was written over before it was read
    misplaced  \* the host wrote an event although alloc had returned 0

vars == <<pos, pc, event, ptr, todo, spoiled, misplaced>>

Aligned(n) == ((n + 7) \div 8) * 8

PairSize == 24   \* two Strings on wasm32

Init ==
    /\ pos = 0 /\ pc = "idle"
    /\ event = [source |-> 0, meta |-> <<>>, payload |-> 0]
    /\ ptr = 0 /\ todo = <<>>
    /\ spoiled = FALSE /\ misplaced = FALSE

-----------------------------------------------------------------------------
(* Layout of an event on the wire                                            *)

RECURSIVE MetaLen(_)
MetaLen(meta) == IF meta = <<>> THEN 0
                 ELSE 8 + meta[1].key + meta[1].value + MetaLen(Tail(meta))

SourceAt     == 28
MetaAt(e)    == SourceAt + e.source + 6
KeyAt(e, i)  == MetaAt(e) + MetaLen(SubSeq(e.meta, 1, i - 1)) + 4
ValueAt(e, i) == KeyAt(e, i) + e.meta[i].key + 4
PayloadAt(e) == MetaAt(e) + MetaLen(e.meta) + 4
EventLen(e)  == PayloadAt(e) + e.payload

-----------------------------------------------------------------------------
(* The host                                                                  *)

\* alloc(event_len) and write_memory: a result of 0 is not looked at.  What a
\* guest does whose data and stack the event was written over is not followed.
HostAlloc(e) ==
    /\ pc = "idle"
    /\ event' = e
    /\ pos' = pos + Aligned(EventLen(e))
    /\ ptr' = pos
    /\ misplaced' = (pos' > HeapSize)
    /\ pc' = IF misplaced' THEN "lost" ELSE "alloc"
    /\ spoiled' = FALSE
    /\ UNCHANGED todo

-----------------------------------------------------------------------------
(* The guest's process()                                                     *)

\* A step writes len bytes; from unread on the event has still to be read.
Copy(len, unread)  == [do |-> "copy", len |-> len, at |-> 0, unread |-> unread]
Reserve(len)       == [do |-> "reserve", len |-> len, at |-> 0, unread |-> 0]
Push(i, unread)    == [do |-> "push", len |-> PairSize, at |-> i, unread |-> unread]

RECURSIVE PairSteps(_, _)
PairSteps(e, i) ==
    IF i > Len(e.meta) THEN <<>>
    ELSE LET end == ValueAt(e, i) + e.meta[i].value
         IN  <<Copy(e.meta[i].key, ValueAt(e, i)), Copy(e.meta[i].value, end), Push(i, end)>>
             \o PairSteps(e, i + 1)

\* Mutant of ParseSteps: room for the whole event comes before the source.
ParseStepsEager(e) ==
    <<Reserve(EventLen(e) - e.payload), Copy(e.source, SourceAt + e.source)>>
    \o PairSteps(e, 1) \o <<Copy(e.payload, EventLen(e))>>

\* deserialize_event: what it copies out of the event, in order.  A Vec's
\* buffer is written by the pushes.
ParseSteps(e) ==
    <<Copy(e.source, SourceAt + e.source), Reserve(PairSize * Len(e.meta))>>
    \o PairSteps(e, 1) \o <<Copy(e.payload, EventLen(e))>>

\* process: the reset, and the start of deserialize_event.
Process ==
    /\ pc = "alloc"
    /\ pos' = 0
    /\ todo' = ParseSteps(event)
    /\ pc' = "parse"
    /\ UNCHANGED <<event, ptr, spoiled, misplaced>>

\* Bytes a .. a + n - 1 of the heap hold something of the event from unread on.
Covers(a, n, unread) == n > 0 /\ a < ptr + EventLen(event) /\ a + n > ptr + unread

\* The heap of the Vec of pairs: it follows the source's copy.
PairsAt(i) == Aligned(event.source) + PairSize * (i - 1)

\* One step of the parse; an allocation beyond the heap traps.
Parse ==
    /\ pc = "parse" /\ todo # <<>>
    /\ LET s == Head(todo)
           taken == IF s.do = "push" THEN 0 ELSE Aligned(s.len)
       IN  /\ pos' = pos + taken
           /\ IF pos + taken > HeapSize THEN pc' = "trap" ELSE pc' = pc
           /\ spoiled' = \/ spoiled
                         \/ s.do = "copy" /\ Covers(pos, s.len, s.unread)
                         \/ s.do = "push" /\ Covers(PairsAt(s.at), s.len, s.unread)
    /\ todo' = Tail(todo)
    /\ UNCHANGED <<event, ptr, misplaced>>

Parsed ==
    /\ pc = "parse" /\ todo = <<>>
    /\ pc' = "work"
    /\ UNCHANGED <<pos, event, ptr, todo, spoiled, misplaced>>

\* The user's function and the answer; dealloc does nothing.  What follows an
\* allocation beyond the heap (the panic handler's loop, or an answer at
\* address 0) is not followed.
Work(n) ==
    /\ pc = "work"
    /\ pos' = pos + Aligned(n)
    /\ pc' = IF pos + Aligned(n) > HeapSize THEN "trap" ELSE "idle"
    /\ UNCHANGED <<event, ptr, todo, spoiled, misplaced>>

Events == [source : SourceLens, meta : Metas, payload : PayloadLens]

Next == \/ \E e \in Events : HostAlloc(e)
        \/ Process \/ Parse \/ Parsed
        \/ \E n \in Works : Work(n)

Spec == Init /\ [][Next]_vars

-----------------------------------------------------------------------------
(* Properties                                                                *)

\* What the processor gets is the event the host wrote: no byte is written
\* over before the parse has read it.
InputIntact == ~spoiled

\* The parse, whose allocations start over at the base of the heap that holds
\* the event, stays behind what it has read when the event has at most one
\* pair of metadata, wherever the calls before have put the event.
OnePairIntact == spoiled => Len(event.meta) > 1

\* "Reset bump allocator per call": what earlier calls allocated does not keep
\* a call from getting the room for its event.
RoomForEvent == ~misplaced
=============================================================================
