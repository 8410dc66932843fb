------------------------------- MODULE LogIds -------------------------------
(* Log ids of openraft, and the entries of a log by index.                    *)
EXTENDS Naturals

CONSTANTS
  MaxIndex,  \* bound on log indices
  MaxTerm    \* bound on terms

ASSUME LogIdsAssumption == MaxIndex \in Nat /\ MaxTerm \in Nat

Index == 1 .. MaxIndex
LogIds == [index : 0 .. MaxIndex, term : 0 .. MaxTerm]
NoLogId == [index |-> 0, term |-> 0]

\* Of a log: the term of every entry, 0 where there is none.
Logs == [Index -> 0 .. MaxTerm]

\* l is the log id of the last entry of lg, NoLogId when it has none.
IsLast(l, lg) ==
  /\ l.index = 0 => l = NoLogId
  /\ l.index # 0 => lg[l.index] = l.term /\ l.term # 0
  /\ \A i \in Index : i > l.index => lg[i] = 0

\* last_log_id of get_log_state: the last entry, or what was purged.
LogEnd(last, purge) == IF last.index # 0 THEN last ELSE purge

\* lg with entries up to log id l after e, from k on dropped, and up to l purged.
Extended(lg, e, l) == [i \in Index |-> IF i > e.index /\ i <= l.index THEN l.term ELSE lg[i]]
CutFrom(lg, k) == [i \in Index |-> IF i >= k THEN 0 ELSE lg[i]]
PurgedTo(lg, l) == [i \in Index |-> IF i <= l.index THEN 0 ELSE lg[i]]
=============================================================================
