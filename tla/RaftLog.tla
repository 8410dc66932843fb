------------------------------ MODULE RaftLog ------------------------------
(***************************************************************************)
(* What openraft is promised by a log store: one vote, one committed       *)
(* marker, one purge marker and the entries after it, each operation of    *)
(* RaftLogStorage one step.  It is MemLogStore of aeon-cluster/src/store.rs*)
(* under the calls openraft makes.                                         *)
(***************************************************************************)
EXTENDS LogIds

VARIABLES
  vote,       \* the vote saved last
  committed,  \* the committed log id saved last
  purged,     \* the log id purged last
  log         \* log[i]: term of entry i, 0 when there is none

Init ==
  /\ vote = 0 /\ committed = NoLogId /\ purged = NoLogId
  /\ log = [i \in Index |-> 0]

SaveVote(v) ==
  /\ v >= vote
  /\ vote' = v
  /\ UNCHANGED <<committed, purged, log>>

SaveCommitted(c) ==
  /\ c.index >= committed.index
  /\ committed' = c
  /\ UNCHANGED <<vote, purged, log>>

\* Entries up to log id l follow the last one.
AppendEntries(l) ==
  \E last \in LogIds :
    /\ IsLast(last, log) /\ l.index > LogEnd(last, purged).index
    /\ log' = Extended(log, LogEnd(last, purged), l)
    /\ UNCHANGED <<vote, committed, purged>>

\* Entries from k on are dropped; committed ones are not among them.
Truncate(k) ==
  /\ k > committed.index
  /\ log' = CutFrom(log, k)
  /\ UNCHANGED <<vote, committed, purged>>

Purge(l) ==
  /\ l.index > purged.index
  /\ purged' = l
  /\ log' = PurgedTo(log, l)
  /\ UNCHANGED <<vote, committed>>

Next ==
  \/ \E v \in 0 .. MaxTerm : SaveVote(v)
  \/ \E l \in LogIds : SaveCommitted(l) \/ AppendEntries(l) \/ Purge(l)
  \/ \E k \in Index : Truncate(k)

Spec == Init /\ [][Next]_<<vote, committed, purged, log>>
=============================================================================
