----------------------- MODULE CheckpointStore_proofs -----------------------
(***************************************************************************)
(* Type correctness of the checkpoint stores for any tasks and settings,   *)
(* and, for a process with one sink task, that a start finds the last      *)
(* acknowledged checkpoint as long as the fallback wrapper is not used and *)
(* no WAL write was cut, that the wrapper keeps it on disk, and that the   *)
(* cap on the records holds. For the event bodies of a partition, that an  *)
(* acknowledged one is found until it is released, under any number of     *)
(* appends, rollovers, key rotations, collections and restarts.            *)
(***************************************************************************)
EXTENDS CheckpointStore, FiniteSetTheorems, TLAPS

CONSTANTS SegmentRecords, MaxAppends, MaxCrashes, MaxKek, CrashPoints
VARIABLES files, metas, store, handle, pc, floor

\* The event bodies that the checkpoints point into, in a directory of their own.
Body == INSTANCE L2BodyStore

\* Some record has the highest id.
HasMax(recs) == recs # {} => \E r \in recs : \A q \in recs : q.id <= r.id

\* The readable part of the WAL has a last record.
HasLast == Readable # {} => \E i \in Readable : \A j \in Readable : j <= i

\* Only a wrapped store is ever in fallback mode, with its WAL open.
SideOpen ==
  \A t \in Tasks :
    /\ fallback[t] => setup.wrapped /\ side[t] \in Nat
    /\ setup.backend = "Wal" /\ state[t] \in {"open", "reprobe"}
         => side[t] \in Nat

\* What makes TypeOK inductive: the last records exist.
TypeInv == TypeOK /\ HasMax(l3) /\ HasLast /\ SideOpen

-----------------------------------------------------------------------------
(* Lemmas on the two stores.                                               *)

\* L3's last record is one of its records, with the highest id.
LEMMA LastL3Max ==
  ASSUME HasMax(l3), l3 # {}
  PROVE  LastL3 \in l3 /\ \A q \in l3 : q.id <= LastL3.id
  BY DEF HasMax, LastL3

\* The id after L3's last record is a number.
LEMMA NextL3Type ==
  ASSUME HasMax(l3), l3 \subseteq Records
  PROVE  NextAfter(LastL3) \in Nat
<1>1. CASE l3 = {}
  BY <1>1 DEF LastL3, NextAfter, NoRec
<1>2. CASE l3 # {}
  BY <1>2, LastL3Max DEF NextAfter, Records
<1> QED  BY <1>1, <1>2

\* The WAL's last readable record is a record of the file that was not cut,
\* and the readable records are those up to it.
LEMMA LastWalMax ==
  ASSUME HasLast, Readable # {}
  PROVE  \E i \in Readable : /\ LastWal = wal[i]
                             /\ \A j \in Readable : j <= i
  BY DEF HasLast, LastWal

\* The WAL's last readable record, if there is one, is whole.
LEMMA LastWalType ==
  ASSUME HasLast, wal \in Seq(Records \cup {Torn})
  PROVE  LastWal \in Records \cup {NoRec} /\ NextAfter(LastWal) \in Nat
<1>1. CASE Readable = {}
  BY <1>1 DEF LastWal, NextAfter, NoRec
<1>2. CASE Readable # {}
  <2>1. PICK i \in Readable : LastWal = wal[i]
    BY <1>2, LastWalMax
  <2>2. i \in 1 .. Len(wal) /\ wal[i] # Torn
    BY DEF Readable
  <2>3. LastWal \in Records
    BY <2>1, <2>2
  <2> QED  BY <2>3 DEF NextAfter, Records
<1> QED  BY <1>1, <1>2

\* Putting a record under its id keeps a highest id.
LEMMA PutMax ==
  ASSUME HasMax(l3), l3 \subseteq Records, NEW r \in Records
  PROVE  HasMax(Put(r)) /\ Put(r) \subseteq Records
<1>1. CASE \A q \in Put(r) : q.id <= r.id
  BY <1>1 DEF Put, HasMax
<1>2. CASE \E q \in Put(r) : ~(q.id <= r.id)
  <2>1. l3 # {}
    BY <1>2 DEF Put, Records
  <2>2. PICK m \in l3 : \A q \in l3 : q.id <= m.id
    BY <2>1 DEF HasMax
  <2>3. m.id # r.id /\ r.id <= m.id
    BY <1>2, <2>2 DEF Put, Records
  <2> QED  BY <2>2, <2>3 DEF Put, HasMax
<1>3. Put(r) \subseteq Records
  BY DEF Put
<1> QED  BY <1>1, <1>2, <1>3

\* Purging from below keeps a highest id.
LEMMA PurgeMax ==
  ASSUME NEW recs \in SUBSET Records, HasMax(recs), NEW nx \in Nat,
         setup \in Setups
  PROVE  HasMax(Purged(recs, nx)) /\ Purged(recs, nx) \subseteq Records
<1>1. CASE setup.keep = NoLimit
  BY <1>1 DEF Purged
<1>2. CASE setup.keep # NoLimit
  <2>1. setup.keep \in Nat
    BY <1>2, StoreAssumption
  <2>2. \A q, m \in recs : q.id >= nx - setup.keep /\ q.id <= m.id
                             => m.id >= nx - setup.keep
    BY <2>1 DEF Records
  <2> QED  BY <1>2, <2>2 DEF Purged, HasMax
<1> QED  BY <1>1, <1>2

\* Whatever an L3 append comes to, the records keep their type and a highest
\* id, and the next id is a number.
LEMMA L3ResultType ==
  ASSUME TypeInv, NEW t \in Tasks, NEW n \in 1 .. MaxCkpt,
         NEW res \in L3Results(t, n)
  PROVE  /\ res.recs \subseteq Records /\ HasMax(res.recs)
         /\ res.nx \in Nat
<1> DEFINE r == [task |-> t, n |-> n, id |-> next[t]]
<1>1. r \in Records /\ next[t] \in Nat /\ setup \in Setups
  BY DEF TypeInv, TypeOK, Records
<1>2. HasMax(Put(r)) /\ Put(r) \in SUBSET Records
  BY <1>1, PutMax DEF TypeInv, TypeOK
<1>3. /\ HasMax(Purged(Put(r), next[t] + 1))
      /\ Purged(Put(r), next[t] + 1) \subseteq Records
  BY <1>1, <1>2, PurgeMax
<1>4. /\ res.nx \in {next[t], next[t] + 1}
      /\ res.recs \in {l3, Put(r), Purged(Put(r), next[t] + 1)}
  BY DEF L3Results
<1>5. l3 \subseteq Records /\ HasMax(l3)
  BY DEF TypeInv, TypeOK
<1> HIDE DEF r
<1> QED  BY <1>1, <1>2, <1>3, <1>4, <1>5

\* Appending to the WAL keeps its type and a last readable record.
LEMMA WalAppendType ==
  ASSUME wal \in Seq(Records \cup {Torn}), HasLast,
         NEW x \in Records \cup {Torn}, wal' = Append(wal, x)
  PROVE  wal' \in Seq(Records \cup {Torn}) /\ HasLast'
<1>1. wal' \in Seq(Records \cup {Torn}) /\ Len(wal') = Len(wal) + 1
  OBVIOUS
<1>2. /\ Len(wal) \in Nat
      /\ \A i \in 1 .. Len(wal) : wal'[i] = wal[i]
      /\ wal'[Len(wal) + 1] = x
  OBVIOUS
<1>3. \A i \in 1 .. Len(wal) : i \in Readable' <=> i \in Readable
  BY <1>1, <1>2 DEF Readable
<1>4. Readable' \subseteq 1 .. Len(wal) + 1
  BY <1>1 DEF Readable
<1>5. CASE Len(wal) + 1 \in Readable'
  BY <1>2, <1>4, <1>5 DEF HasLast
<1>6. CASE Len(wal) + 1 \notin Readable'
  <2>1. Readable' = Readable
    BY <1>2, <1>3, <1>4, <1>6 DEF Readable
  <2> QED  BY <1>1, <2>1 DEF HasLast
<1> QED  BY <1>1, <1>5, <1>6

\* Whatever a WAL append comes to.
LEMMA WalResultType ==
  ASSUME TypeInv, NEW t \in Tasks, NEW n \in 1 .. MaxCkpt, NEW nx \in Nat,
         NEW res \in WalResults(t, n, nx), wal' = res.file
  PROVE  /\ res.nx \in Nat /\ wal' \in Seq(Records \cup {Torn})
         /\ HasLast'
<1> DEFINE r == [task |-> t, n |-> n, id |-> nx]
<1>1. wal \in Seq(Records \cup {Torn}) /\ HasLast
  BY DEF TypeInv, TypeOK
<1>2. r \in Records
  BY DEF Records
<1>3. res.nx \in {nx, nx + 1}
  BY DEF WalResults
<1>4. res.file \in {Append(wal, r), wal, Append(wal, Torn)}
  BY DEF WalResults
<1>5. CASE wal' = wal
  <2>1. Readable' = Readable
    BY <1>5 DEF Readable
  <2>2. HasLast'
    BY <1>1, <2>1 DEF HasLast
  <2> QED  BY <1>1, <1>3, <1>5, <2>2
<1> HIDE DEF r
<1>6. CASE wal' = Append(wal, r)
  BY <1>1, <1>2, <1>3, <1>6, WalAppendType
<1>7. CASE wal' = Append(wal, Torn)
  BY <1>1, <1>3, <1>7, WalAppendType
<1> QED  BY <1>4, <1>5, <1>6, <1>7

-----------------------------------------------------------------------------
(* Type correctness.                                                       *)

\* The initial state is well typed.
LEMMA InitType == Init => TypeInv
<1> SUFFICES ASSUME Init PROVE TypeInv
  OBVIOUS
<1>1. Readable = {}
  BY DEF Init, Readable
<1>2. HasMax(l3) /\ HasLast
  BY <1>1 DEF Init, HasMax, HasLast
<1>3. SideOpen
  BY DEF Init, SideOpen
<1>4. fallback \in [Tasks -> BOOLEAN]
  BY DEF Init
<1>5. /\ state \in [Tasks -> {"down", "blind", "open", "reprobe"}]
      /\ next \in [Tasks -> Nat] /\ side \in [Tasks -> Nat \cup {NoWal}]
      /\ count \in [Tasks -> 0 .. MaxCkpt]
      /\ acked \in [Tasks -> Records \cup {NoRec}] /\ faults \in 0 .. MaxFaults
  BY StoreAssumption DEF Init
<1>6. /\ setup \in Setups /\ l3 \subseteq Records
      /\ wal \in Seq(Records \cup {Torn}) /\ walFile \in {"absent", "short", "ok"}
  BY DEF Init
<1> QED  BY <1>2, <1>3, <1>4, <1>5, <1>6 DEF TypeInv, TypeOK

\* What write_checkpoint leaves of the counters is well typed.
LEMMA WrittenType ==
  ASSUME TypeOK, NEW t \in Tasks, count[t] < MaxCkpt, NEW ok, NEW id,
         ok => id \in Nat, Written(t, count[t] + 1, ok, id)
  PROVE  /\ count' \in [Tasks -> 0 .. MaxCkpt]
         /\ acked' \in [Tasks -> Records \cup {NoRec}]
         /\ state' \in [Tasks -> {"down", "blind", "open", "reprobe"}]
<1>1. count[t] + 1 \in 1 .. MaxCkpt /\ count' = [count EXCEPT ![t] = count[t] + 1]
  BY StoreAssumption DEF TypeOK, Written
<1>2. count' \in [Tasks -> 0 .. MaxCkpt]
  BY <1>1 DEF TypeOK
<1>3. state' \in [Tasks -> {"down", "blind", "open", "reprobe"}]
  BY DEF Written, TypeOK
<1>4. CASE ok
  <2>1. [task |-> t, n |-> count[t] + 1, id |-> id] \in Records
    BY <1>1, <1>4 DEF Records
  <2>2. acked' = [acked EXCEPT ![t] = [task |-> t, n |-> count[t] + 1, id |-> id]]
    BY <1>4 DEF Written
  <2> QED  BY <1>2, <1>3, <2>1, <2>2 DEF TypeOK
<1>5. CASE ~ok
  BY <1>2, <1>3, <1>5 DEF Written, TypeOK
<1> QED  BY <1>4, <1>5

\* The parts of the state a step leaves alone keep the last records.
LEMMA StoresKept ==
  ASSUME TypeInv, UNCHANGED <<l3, wal>>
  PROVE  HasMax(l3)' /\ HasLast'
<1>1. Readable' = Readable
  BY DEF Readable
<1> QED  BY <1>1 DEF TypeInv, HasMax, HasLast

\* Faults stay within their bound.
LEMMA FaultType ==
  ASSUME TypeOK, NEW ok, Fault \/ FaultUnless(ok) \/ UNCHANGED faults
  PROVE  faults' \in 0 .. MaxFaults
  BY StoreAssumption DEF TypeOK, Fault, FaultUnless

\* Every step keeps the stores well typed.
LEMMA TypeStep == TypeInv /\ [Next]_vars => TypeInv'
<1> SUFFICES ASSUME TypeInv, [Next]_vars
             PROVE  TypeInv'
  OBVIOUS
<1> USE DEF TypeInv
<1>1. ASSUME NEW t \in Tasks, OpenStateStore(t)
      PROVE  TypeInv'
  <2>1. HasMax(l3)' /\ HasLast'
    BY <1>1, StoresKept DEF OpenStateStore, stores
  <2>2. NextAfter(LastL3) \in Nat
    BY NextL3Type DEF TypeOK
  <2>3. /\ next' \in [Tasks -> Nat]
        /\ state' \in [Tasks -> {"down", "blind", "open", "reprobe"}]
    BY <1>1, <2>2 DEF OpenStateStore, TypeOK
  <2>4. faults' \in 0 .. MaxFaults
    BY <1>1, FaultType DEF OpenStateStore
  <2>5. UNCHANGED <<setup, l3, wal, walFile, side, fallback, count, acked>>
    BY <1>1 DEF OpenStateStore, stores
  <2>6. TypeOK'
    BY <2>3, <2>4, <2>5 DEF TypeOK
  <2>7. SideOpen'
    BY <1>1, <2>5 DEF SideOpen, OpenStateStore
  <2> QED  BY <2>1, <2>6, <2>7
<1>2. ASSUME NEW t \in Tasks, OpenWal(t)
      PROVE  TypeInv'
  <2>1. HasMax(l3)' /\ HasLast'
    BY <1>2, StoresKept DEF OpenWal
  <2>2. NextAfter(LastWal) \in Nat
    BY LastWalType DEF TypeOK
  <2>3. PICK ok \in BOOLEAN :
          /\ walFile # "short" => FaultUnless(ok)
          /\ walFile = "short" => ~ok /\ UNCHANGED faults
          /\ walFile' = IF walFile # "absent" THEN walFile
                        ELSE IF ok THEN "ok" ELSE "short"
          /\ state' = [state EXCEPT ![t] = IF ok THEN "open" ELSE "blind"]
          /\ side' = [side EXCEPT ![t] = IF ok THEN NextAfter(LastWal) ELSE @]
    BY <1>2 DEF OpenWal
  <2>4. /\ side' \in [Tasks -> Nat \cup {NoWal}]
        /\ state' \in [Tasks -> {"down", "blind", "open", "reprobe"}]
        /\ walFile' \in {"absent", "short", "ok"}
    BY <2>2, <2>3 DEF TypeOK
  <2>5. faults' \in 0 .. MaxFaults
    BY <2>3, FaultType
  <2>6. UNCHANGED <<setup, l3, wal, next, fallback, count, acked>>
    BY <1>2 DEF OpenWal
  <2>7. TypeOK'
    BY <2>4, <2>5, <2>6 DEF TypeOK
  <2>8. SideOpen'
    <3>1. ~fallback[t]
      BY <1>2, StoreAssumption DEF OpenWal, SideOpen, TypeOK
    <3> QED  BY <2>2, <2>3, <2>6, <3>1 DEF SideOpen, TypeOK
  <2> QED  BY <2>1, <2>7, <2>8
<1>3. ASSUME NEW t \in Tasks, AppendL3(t)
      PROVE  TypeInv'
  <2>1. PICK res \in L3Results(t, count[t] + 1) :
          /\ FaultUnless(res.ok)
          /\ l3' = res.recs /\ next' = [next EXCEPT ![t] = res.nx]
          /\ Written(t, count[t] + 1, res.ok, next[t])
    BY <1>3 DEF AppendL3
  <2>2. count[t] + 1 \in 1 .. MaxCkpt /\ next[t] \in Nat /\ count[t] < MaxCkpt
    BY <1>3, StoreAssumption DEF AppendL3, TypeOK
  <2>3. res.recs \subseteq Records /\ HasMax(res.recs) /\ res.nx \in Nat
    BY <2>2, L3ResultType
  <2>4. /\ count' \in [Tasks -> 0 .. MaxCkpt]
        /\ acked' \in [Tasks -> Records \cup {NoRec}]
        /\ state' \in [Tasks -> {"down", "blind", "open", "reprobe"}]
    BY <2>1, <2>2, WrittenType
  <2>5. faults' \in 0 .. MaxFaults
    BY <2>1, FaultType
  <2>6. UNCHANGED <<setup, wal, walFile, side, fallback>>
    BY <1>3 DEF AppendL3
  <2>7. TypeOK'
    BY <2>1, <2>3, <2>4, <2>5, <2>6 DEF TypeOK
  <2>8. HasMax(l3)'
    BY <2>1, <2>3 DEF HasMax
  <2>9. HasLast'
    BY <2>6 DEF HasLast, Readable
  <2>10. SideOpen'
    BY <1>3, <2>6 DEF SideOpen, AppendL3
  <2> QED  BY <2>7, <2>8, <2>9, <2>10
<1>4. ASSUME NEW t \in Tasks, AppendWal(t)
      PROVE  TypeInv'
  <2>1. PICK res \in WalResults(t, count[t] + 1, side[t]) :
          /\ FaultUnless(res.ok)
          /\ wal' = res.file /\ side' = [side EXCEPT ![t] = res.nx]
          /\ Written(t, count[t] + 1, res.ok, side[t])
    BY <1>4 DEF AppendWal
  <2>2. count[t] + 1 \in 1 .. MaxCkpt /\ side[t] \in Nat /\ count[t] < MaxCkpt
    BY <1>4, StoreAssumption DEF AppendWal, TypeOK, SideOpen
  <2>3. res.nx \in Nat /\ wal' \in Seq(Records \cup {Torn}) /\ HasLast'
    BY <2>1, <2>2, WalResultType
  <2>4. /\ count' \in [Tasks -> 0 .. MaxCkpt]
        /\ acked' \in [Tasks -> Records \cup {NoRec}]
        /\ state' \in [Tasks -> {"down", "blind", "open", "reprobe"}]
    BY <2>1, <2>2, WrittenType
  <2>5. faults' \in 0 .. MaxFaults
    BY <2>1, FaultType
  <2>6. UNCHANGED <<setup, l3, walFile, next, fallback>>
    BY <1>4 DEF AppendWal
  <2>7. TypeOK'
    BY <2>1, <2>3, <2>4, <2>5, <2>6 DEF TypeOK
  <2>8. HasMax(l3)'
    BY <2>6 DEF HasMax
  <2>9. SideOpen'
    <3>1. side'[t] \in Nat /\ \A u \in Tasks : u # t => side'[u] = side[u]
      BY <2>1, <2>3 DEF TypeOK
    <3>2. \A u \in Tasks : u # t => state'[u] = state[u]
      BY <2>1 DEF Written, TypeOK
    <3>3. fallback[t] => setup.wrapped
      BY DEF SideOpen
    <3> QED  BY <2>6, <3>1, <3>2, <3>3 DEF SideOpen
  <2> QED  BY <2>3, <2>7, <2>8, <2>9
<1>5. ASSUME NEW t \in Tasks, EngageFallback(t)
      PROVE  TypeInv'
  <2>1. PICK res \in L3Results(t, count[t] + 1) :
          l3' = res.recs /\ next' = [next EXCEPT ![t] = res.nx]
    BY <1>5 DEF EngageFallback
  <2>2. /\ count[t] + 1 \in 1 .. MaxCkpt /\ count[t] < MaxCkpt
        /\ setup.wrapped /\ setup' = setup
    BY <1>5, StoreAssumption DEF EngageFallback, TypeOK
  <2>3. res.recs \subseteq Records /\ HasMax(res.recs) /\ res.nx \in Nat
    BY <2>2, L3ResultType
  <2>4. faults' \in 0 .. MaxFaults
    BY <1>5, FaultType DEF EngageFallback
  <2>5. HasMax(l3)' /\ l3' \subseteq Records /\ next' \in [Tasks -> Nat]
    BY <2>1, <2>3 DEF HasMax, TypeOK
  <2>6. NextAfter(LastWal) \in Nat
    BY LastWalType DEF TypeOK
  <2>7. CASE /\ walFile' \in IF walFile = "absent" THEN {"absent", "short"}
                             ELSE {walFile}
             /\ Written(t, count[t] + 1, FALSE, NoWal)
             /\ UNCHANGED <<wal, side, fallback>>
    <3>1. /\ count' \in [Tasks -> 0 .. MaxCkpt]
          /\ acked' \in [Tasks -> Records \cup {NoRec}]
          /\ state' \in [Tasks -> {"down", "blind", "open", "reprobe"}]
      BY <2>2, <2>7, WrittenType
    <3>2. walFile' \in {"absent", "short", "ok"}
      BY <2>7 DEF TypeOK
    <3>3. TypeOK'
      BY <2>2, <2>4, <2>5, <2>7, <3>1, <3>2 DEF TypeOK
    <3>4. HasLast'
      BY <2>7 DEF HasLast, Readable
    <3>5. setup.backend # "Wal"
      BY <2>2, StoreAssumption DEF TypeOK
    <3>6. SideOpen'
      BY <2>2, <2>7, <3>5 DEF SideOpen
    <3> QED  BY <2>5, <3>3, <3>4, <3>6
  <2>8. CASE /\ walFile # "short" /\ walFile' = "ok"
             /\ \E w \in WalResults(t, count[t] + 1, NextAfter(LastWal)) :
                  /\ wal' = w.file /\ side' = [side EXCEPT ![t] = w.nx]
                  /\ Written(t, count[t] + 1, w.ok, NextAfter(LastWal))
             /\ fallback' = [fallback EXCEPT ![t] = TRUE]
    <3>1. PICK w \in WalResults(t, count[t] + 1, NextAfter(LastWal)) :
            /\ wal' = w.file /\ side' = [side EXCEPT ![t] = w.nx]
            /\ Written(t, count[t] + 1, w.ok, NextAfter(LastWal))
      BY <2>8
    <3>2. w.nx \in Nat /\ wal' \in Seq(Records \cup {Torn}) /\ HasLast'
      BY <2>2, <2>6, <3>1, WalResultType
    <3>3. /\ count' \in [Tasks -> 0 .. MaxCkpt]
          /\ acked' \in [Tasks -> Records \cup {NoRec}]
          /\ state' \in [Tasks -> {"down", "blind", "open", "reprobe"}]
      BY <2>2, <2>6, <3>1, WrittenType
    <3>4. fallback' \in [Tasks -> BOOLEAN]
      BY <2>8 DEF TypeOK
    <3>5. side' \in [Tasks -> Nat \cup {NoWal}]
      BY <3>1, <3>2 DEF TypeOK
    <3>6. TypeOK'
      BY <2>2, <2>4, <2>5, <2>8, <3>2, <3>3, <3>4, <3>5 DEF TypeOK
    <3>7. setup.backend # "Wal"
      BY <2>2, StoreAssumption DEF TypeOK
    <3>8. /\ side'[t] \in Nat
          /\ \A u \in Tasks : u # t => side'[u] = side[u] /\ fallback'[u] = fallback[u]
      BY <2>8, <3>1, <3>2 DEF TypeOK
    <3>9. SideOpen'
      BY <2>2, <3>7, <3>8 DEF SideOpen
    <3> QED  BY <2>5, <3>2, <3>6, <3>9
  <2> QED  BY <1>5, <2>7, <2>8 DEF EngageFallback
<1>6. ASSUME NEW t \in Tasks, Reprobe(t)
      PROVE  TypeInv'
  <2>1. /\ state' = [state EXCEPT ![t] = "open"]
        /\ UNCHANGED <<setup, walFile, count, acked>>
    BY <1>6 DEF Reprobe
  <2>2. state' \in [Tasks -> {"down", "blind", "open", "reprobe"}]
    BY <2>1 DEF TypeOK
  <2>3. fallback[t] => setup.backend # "Wal"
    <3>1. fallback[t] => setup.wrapped
      BY DEF SideOpen
    <3> QED  BY <3>1, StoreAssumption DEF TypeOK
  <2>4. \A u \in Tasks : state'[u] = state[u] \/ (u = t /\ state'[u] = "open")
    BY <2>1 DEF TypeOK
  <2>5. state[t] = "reprobe"
    BY <1>6 DEF Reprobe
  <2>6. CASE UNCHANGED <<l3, wal, next, side, fallback>>
    <3>1. faults' \in 0 .. MaxFaults
      BY <1>6, FaultType DEF Reprobe
    <3>2. HasMax(l3)' /\ HasLast'
      BY <2>6, StoresKept
    <3>3. TypeOK'
      BY <2>1, <2>2, <2>6, <3>1 DEF TypeOK
    <3>4. SideOpen'
      BY <2>1, <2>4, <2>5, <2>6 DEF SideOpen
    <3> QED  BY <3>2, <3>3, <3>4
  <2>7. CASE /\ fallback[t]
             /\ fallback' = [fallback EXCEPT ![t] = FALSE]
             /\ side' = [side EXCEPT ![t] = NoWal] /\ wal' = WalLeft
             /\ UNCHANGED <<l3, next, faults>>
    <3>1. HasMax(l3)' /\ HasLast'
      BY <2>7, StoresKept DEF WalLeft
    <3>2. side' \in [Tasks -> Nat \cup {NoWal}]
      BY <2>7 DEF TypeOK
    <3>3. fallback' \in [Tasks -> BOOLEAN]
      BY <2>7 DEF TypeOK
    <3>4. TypeOK'
      BY <2>1, <2>2, <2>7, <3>2, <3>3 DEF TypeOK, WalLeft
    <3>5. /\ ~fallback'[t]
          /\ \A u \in Tasks : u # t => side'[u] = side[u] /\ fallback'[u] = fallback[u]
      BY <2>7 DEF TypeOK
    <3>6. SideOpen'
      BY <2>1, <2>3, <2>4, <2>7, <3>5 DEF SideOpen
    <3> QED  BY <3>1, <3>4, <3>6
  <2>8. CASE /\ fallback[t] /\ LastWal # NoRec
             /\ \E res \in L3Results(t, LastWal.n) :
                  /\ FaultUnless(res.ok)
                  /\ l3' = res.recs /\ next' = [next EXCEPT ![t] = res.nx]
                  /\ fallback' = [fallback EXCEPT ![t] = ~res.ok]
                  /\ side' = [side EXCEPT ![t] = IF res.ok THEN NoWal ELSE @]
                  /\ wal' = IF res.ok THEN WalLeft ELSE wal
    <3>1. PICK res \in L3Results(t, LastWal.n) :
            /\ FaultUnless(res.ok)
            /\ l3' = res.recs /\ next' = [next EXCEPT ![t] = res.nx]
            /\ fallback' = [fallback EXCEPT ![t] = ~res.ok]
            /\ side' = [side EXCEPT ![t] = IF res.ok THEN NoWal ELSE @]
            /\ wal' = IF res.ok THEN WalLeft ELSE wal
      BY <2>8
    <3>2. LastWal.n \in 1 .. MaxCkpt
      BY <2>8, LastWalType DEF TypeOK, Records
    <3>3. res.recs \subseteq Records /\ HasMax(res.recs) /\ res.nx \in Nat
      BY <3>2, L3ResultType
    <3>4. HasMax(l3)' /\ l3' \subseteq Records /\ next' \in [Tasks -> Nat]
      BY <3>1, <3>3 DEF HasMax, TypeOK
    <3>5. wal' = wal
      BY <3>1 DEF WalLeft
    <3>6. HasLast'
      BY <3>5 DEF HasLast, Readable
    <3>7. faults' \in 0 .. MaxFaults
      BY <3>1, FaultType
    <3>8. fallback' \in [Tasks -> BOOLEAN]
      BY <3>1 DEF TypeOK
    <3>9. side' \in [Tasks -> Nat \cup {NoWal}]
      BY <3>1 DEF TypeOK
    <3>10. TypeOK'
      BY <2>1, <2>2, <3>4, <3>5, <3>7, <3>8, <3>9 DEF TypeOK
    <3>11. res.ok = TRUE \/ res.ok = FALSE
      BY DEF L3Results
    <3>12. /\ fallback'[t] = ~res.ok
           /\ side'[t] = IF res.ok THEN NoWal ELSE side[t]
           /\ \A u \in Tasks : u # t => side'[u] = side[u] /\ fallback'[u] = fallback[u]
      BY <3>1 DEF TypeOK
    <3>13. SideOpen'
      BY <2>1, <2>3, <2>4, <2>8, <3>11, <3>12 DEF SideOpen
    <3> QED  BY <3>4, <3>6, <3>10, <3>13
  <2> QED  BY <1>6, <2>6, <2>7, <2>8 DEF Reprobe
<1>7. ASSUME NEW S \in SUBSET Tasks, Fault, End(S)
      PROVE  TypeInv'
  <2>1. HasMax(l3)' /\ HasLast'
    BY <1>7, StoresKept DEF End, stores
  <2>2. faults' \in 0 .. MaxFaults
    BY <1>7, FaultType
  <2>3. fallback' \in [Tasks -> BOOLEAN]
    BY <1>7 DEF End, TypeOK
  <2>4. /\ state' \in [Tasks -> {"down", "blind", "open", "reprobe"}]
        /\ side' \in [Tasks -> Nat \cup {NoWal}]
    BY <1>7 DEF End, TypeOK
  <2>5. UNCHANGED <<setup, l3, wal, walFile, next, count, acked>>
    BY <1>7 DEF End, stores
  <2>6. TypeOK'
    BY <2>2, <2>3, <2>4, <2>5 DEF TypeOK
  <2>7. \A u \in Tasks :
          \/ ~fallback'[u] /\ state'[u] = "down"
          \/ fallback'[u] = fallback[u] /\ side'[u] = side[u] /\ state'[u] = state[u]
    BY <1>7 DEF End, TypeOK
  <2>8. SideOpen'
    BY <2>5, <2>7 DEF SideOpen
  <2> QED  BY <2>1, <2>6, <2>8
<1>8. ASSUME NEW t \in Tasks, Stop(t)
      PROVE  TypeInv'
  BY <1>7, <1>8 DEF Stop
<1>9. ASSUME Crash
      PROVE  TypeInv'
  BY <1>7, <1>9 DEF Crash
<1>10. ASSUME UNCHANGED vars
       PROVE  TypeInv'
  <2>1. HasMax(l3)' /\ HasLast'
    BY <1>10, StoresKept DEF vars
  <2> QED  BY <1>10, <2>1 DEF vars, TypeOK, SideOpen
<1> QED  BY <1>1, <1>2, <1>3, <1>4, <1>5, <1>6, <1>8, <1>9, <1>10 DEF Next

\* Every variable keeps its type, in every setting and whatever fails: the
\* ids given out stay numbers because L3 and the WAL always have a last record.
THEOREM TypeCorrect == Spec => []TypeOK
<1>1. Spec => []TypeInv
  BY InitType, TypeStep, PTL DEF Spec
<1>2. TypeInv => TypeOK
  BY DEF TypeInv
<1> QED  BY <1>1, <1>2, PTL
-----------------------------------------------------------------------------
(* One task without the wrapper: a start finds the last record.            *)

\* The process runs one sink task, and keeps at least one record.
OneTask == \A t, u \in Tasks : t = u
KeepsOne == \A s \in Setups : s.keep # 0

\* In L3 a higher id is a later checkpoint, an open store gives out ids above
\* every acknowledged one and below none, and something as new as the last
\* acknowledged checkpoint is there.
L3Follows ==
  setup.backend = "StateStore" /\ ~setup.wrapped =>
    /\ \A q, r \in l3 : q.id < r.id => q.n < r.n
    /\ \A q, r \in l3 : q.id = r.id => q = r
    /\ \A t \in Tasks :
         /\ \A r \in l3 : r.n <= count[t]
         /\ state[t] \in {"open", "reprobe"} =>
              /\ acked[t].id < next[t]
              /\ \A r \in l3 : r.id <= next[t]
         /\ acked[t] # NoRec =>
              \E r \in l3 : r.n >= acked[t].n /\ r.id >= acked[t].id

\* The WAL's last record is as new as the last acknowledged checkpoint, and an
\* open writer gives out ids above it.
WalFollows ==
  setup.backend = "Wal" /\ Intact =>
    \A t \in Tasks :
      /\ state[t] \in {"open", "reprobe"} => acked[t].id < side[t]
      /\ acked[t] # NoRec => /\ wal # <<>>
                             /\ wal[Len(wal)].n >= acked[t].n
                             /\ wal[Len(wal)].id >= acked[t].id

StoreInv == TypeInv /\ L3Follows /\ WalFollows

\* The last record of a WAL in which nothing was cut.
LEMMA LastOfIntact ==
  ASSUME TypeInv, Intact, wal # <<>>
  PROVE  LastWal = wal[Len(wal)] /\ LastWal \in Records
<1>1. wal \in Seq(Records \cup {Torn}) /\ Len(wal) \in Nat /\ Len(wal) > 0
  BY DEF TypeInv, TypeOK
<1>2. \A i \in 1 .. Len(wal) : wal[i] # Torn /\ wal[i] \in Records \cup {Torn}
  BY <1>1 DEF Intact
<1>3. Readable = 1 .. Len(wal)
  BY <1>1, <1>2 DEF Readable
<1>4. PICK i \in Readable : LastWal = wal[i] /\ \A j \in Readable : j <= i
  BY <1>1, <1>3, LastWalMax DEF TypeInv
<1>5. i = Len(wal)
  BY <1>1, <1>3, <1>4
<1> QED  BY <1>1, <1>2, <1>4, <1>5

\* An L3 append keeps the order of the records, whatever it comes to.
LEMMA L3AppendFollows ==
  ASSUME TypeInv, L3Follows, OneTask, KeepsOne,
         setup.backend = "StateStore", ~setup.wrapped,
         NEW t \in Tasks, state[t] = "open", count[t] < MaxCkpt,
         NEW res \in L3Results(t, count[t] + 1)
  PROVE  /\ \A q, r \in res.recs : q.id < r.id => q.n < r.n
         /\ \A q, r \in res.recs : q.id = r.id => q = r
         /\ \A r \in res.recs : r.n <= count[t] + 1 /\ r.id <= res.nx
         /\ res.nx >= next[t]
         /\ res.ok => /\ res.nx > next[t]
                      /\ \E r \in res.recs : r.n = count[t] + 1 /\ r.id = next[t]
         /\ acked[t] # NoRec /\ ~res.ok =>
              \E r \in res.recs : r.n >= acked[t].n /\ r.id >= acked[t].id
<1> DEFINE new == [task |-> t, n |-> count[t] + 1, id |-> next[t]]
           put == Put(new)
           purged == Purged(put, next[t] + 1)
<1>1. /\ new.n = count[t] + 1 /\ new.id = next[t]
      /\ count[t] \in Nat /\ next[t] \in Nat
      /\ \A r \in l3 : r.n \in Nat /\ r.id \in Nat
  BY DEF TypeInv, TypeOK, Records
<1>2. /\ \A q, r \in l3 : q.id < r.id => q.n < r.n
      /\ \A q, r \in l3 : q.id = r.id => q = r
      /\ \A r \in l3 : r.n <= count[t] /\ r.id <= next[t]
      /\ acked[t].id < next[t]
      /\ acked[t] # NoRec =>
           \E r \in l3 : r.n >= acked[t].n /\ r.id >= acked[t].id
  BY DEF L3Follows
<1>3. put = {q \in l3 : q.id # new.id} \cup {new}
  BY DEF Put
<1>4. \/ res.ok = FALSE /\ res.recs = l3 /\ res.nx = next[t]
      \/ res.ok = FALSE /\ res.recs = put /\ res.nx \in {next[t], next[t] + 1}
      \/ /\ res.ok = TRUE \/ res.ok = FALSE
         /\ res.recs = purged /\ res.nx = next[t] + 1
  BY DEF L3Results
<1>5. acked[t].id \in Int /\ (acked[t] # NoRec => acked[t].n \in Nat)
  BY DEF TypeInv, TypeOK, Records, NoRec
<1>6. purged \subseteq put /\ new \in purged
  <2>1. setup.keep = NoLimit \/ (setup.keep \in Nat /\ setup.keep # 0)
    BY StoreAssumption DEF KeepsOne, TypeInv, TypeOK
  <2>2. new.id >= next[t] + 1 - setup.keep \/ setup.keep = NoLimit
    BY <1>1, <2>1
  <2>3. new \in put
    BY <1>3
  <2> HIDE DEF new, put
  <2>4. CASE setup.keep = NoLimit
    <3>1. purged = put
      BY <2>4 DEF Purged
    <3> QED  BY <2>3, <3>1
  <2>5. CASE setup.keep # NoLimit
    <3>1. purged = {r \in put : r.id >= (next[t] + 1) - setup.keep}
      BY <2>5 DEF Purged
    <3> HIDE DEF purged
    <3> QED  BY <1>1, <2>1, <2>2, <2>3, <2>5, <3>1
  <2> QED  BY <2>4, <2>5
<1> HIDE DEF new, put, purged
<1>7. /\ \A q, r \in put : q.id < r.id => q.n < r.n
      /\ \A q, r \in put : q.id = r.id => q = r
      /\ \A r \in put : r.n <= count[t] + 1 /\ r.id <= next[t]
  BY <1>1, <1>2, <1>3
<1>8. CASE res.ok = FALSE /\ res.recs = l3 /\ res.nx = next[t]
  BY <1>1, <1>2, <1>8
<1>9. acked[t] # NoRec => new.n >= acked[t].n /\ new.id >= acked[t].id
  <2> SUFFICES ASSUME acked[t] # NoRec
               PROVE  new.n >= acked[t].n /\ new.id >= acked[t].id
    OBVIOUS
  <2>1. PICK r \in l3 : r.n >= acked[t].n /\ r.id >= acked[t].id
    BY <1>2
  <2> QED  BY <1>1, <1>2, <1>5, <2>1
<1>10. CASE res.ok = FALSE /\ res.recs = put /\ res.nx \in {next[t], next[t] + 1}
  <2>1. \A r \in put : r.n <= count[t] + 1 /\ r.id <= res.nx
    <3>1. \A r \in put : r.id \in Nat
      BY <1>1, <1>3
    <3> QED  BY <1>1, <1>7, <1>10, <3>1
  <2>2. new \in put
    BY <1>3
  <2> QED  BY <1>1, <1>7, <1>10, <1>9, <2>1, <2>2
<1>11. CASE /\ res.ok = TRUE \/ res.ok = FALSE
            /\ res.recs = purged /\ res.nx = next[t] + 1
  <2>1. \A r \in purged : r.n <= count[t] + 1 /\ r.id <= res.nx
    <3>1. \A r \in put : r.id \in Nat
      BY <1>1, <1>3
    <3> QED  BY <1>1, <1>6, <1>7, <1>11, <3>1
  <2>2. \E r \in purged : r.n = count[t] + 1 /\ r.id = next[t]
    BY <1>1, <1>6
  <2>3. acked[t] # NoRec =>
          \E r \in purged : r.n >= acked[t].n /\ r.id >= acked[t].id
    BY <1>1, <1>2, <1>5, <1>6, <1>9
  <2> QED  BY <1>1, <1>6, <1>7, <1>11, <2>1, <2>2, <2>3
<1> QED  BY <1>4, <1>8, <1>10, <1>11

\* A step keeps the L3 records in order.
LEMMA L3Step ==
  ASSUME StoreInv, [Next]_vars, OneTask, KeepsOne
  PROVE  L3Follows'
<1> SUFFICES ASSUME setup'.backend = "StateStore", ~setup'.wrapped
             PROVE  L3Follows'
  BY DEF L3Follows
<1>1. setup' = setup
  BY DEF Next, OpenStateStore, OpenWal, AppendL3, AppendWal, EngageFallback,
         Reprobe, Stop, Crash, End, vars
<1>2. setup.backend = "StateStore" /\ ~setup.wrapped
  BY <1>1
<1>3. TypeInv /\ TypeOK /\ L3Follows /\ \A t \in Tasks : ~fallback[t]
  BY <1>2 DEF StoreInv, TypeInv, SideOpen
<1>4. /\ \A q, r \in l3 : q.id < r.id => q.n < r.n
      /\ \A q, r \in l3 : q.id = r.id => q = r
      /\ \A t \in Tasks : \A r \in l3 : r.n <= count[t]
      /\ \A t \in Tasks : acked[t] # NoRec =>
           \E r \in l3 : r.n >= acked[t].n /\ r.id >= acked[t].id
      /\ \A t \in Tasks : state[t] \in {"open", "reprobe"} =>
           acked[t].id < next[t] /\ \A r \in l3 : r.id <= next[t]
  BY <1>2, <1>3 DEF L3Follows
<1>5. ASSUME NEW t \in Tasks, OpenStateStore(t)
      PROVE  L3Follows'
  <2>1. UNCHANGED <<setup, l3, count, acked>>
    BY <1>5 DEF OpenStateStore, stores
  <2>2. \A u \in Tasks : u = t
    BY DEF OneTask
  <2>3. NextAfter(LastL3) \in Nat
    BY <1>3, NextL3Type DEF TypeInv, TypeOK
  <2>4. /\ state'[t] \in {"open", "blind"}
        /\ state'[t] = "open" => next'[t] = NextAfter(LastL3)
    BY <1>3, <1>5 DEF OpenStateStore, TypeOK
  <2>5. \A r \in l3 : r.id <= NextAfter(LastL3)
    <3>1. l3 # {} => LastL3 \in l3 /\ \A q \in l3 : q.id <= LastL3.id
      BY <1>3, LastL3Max DEF TypeInv
    <3> QED  BY <1>3, <3>1 DEF NextAfter, TypeOK, Records
  <2>6. acked[t].id < NextAfter(LastL3)
    <3>1. CASE acked[t] = NoRec
      BY <2>3, <3>1 DEF NoRec
    <3>2. CASE acked[t] # NoRec
      <4>1. PICK r \in l3 : r.id >= acked[t].id
        BY <1>4, <3>2
      <4>2. LastL3 \in l3 /\ r.id <= LastL3.id
        BY <1>3, <4>1, LastL3Max DEF TypeInv
      <4>3. acked[t].id \in Int /\ r.id \in Int /\ LastL3.id \in Int
        BY <1>3, <3>2, <4>1, <4>2 DEF TypeOK, Records
      <4> QED  BY <4>1, <4>2, <4>3 DEF NextAfter
    <3> QED  BY <3>1, <3>2
  <2>7. /\ state'[t] \in {"open", "reprobe"} =>
             acked'[t].id < next'[t] /\ \A r \in l3' : r.id <= next'[t]
    BY <2>1, <2>4, <2>5, <2>6
  <2> QED  BY <1>4, <2>1, <2>2, <2>7 DEF L3Follows
<1>6. ASSUME NEW t \in Tasks, AppendL3(t)
      PROVE  L3Follows'
  <2>1. PICK res \in L3Results(t, count[t] + 1) :
          /\ l3' = res.recs /\ next' = [next EXCEPT ![t] = res.nx]
          /\ Written(t, count[t] + 1, res.ok, next[t])
    BY <1>6 DEF AppendL3
  <2>2. state[t] = "open" /\ count[t] < MaxCkpt
    BY <1>6 DEF AppendL3
  <2>3. /\ \A q, r \in l3' : q.id < r.id => q.n < r.n
        /\ \A q, r \in l3' : q.id = r.id => q = r
        /\ \A r \in l3' : r.n <= count[t] + 1 /\ r.id <= res.nx
        /\ res.nx >= next[t]
        /\ res.ok => /\ res.nx > next[t]
                     /\ \E r \in l3' : r.n = count[t] + 1 /\ r.id = next[t]
        /\ acked[t] # NoRec /\ ~res.ok =>
             \E r \in l3' : r.n >= acked[t].n /\ r.id >= acked[t].id
    BY <1>2, <1>3, <2>1, <2>2, L3AppendFollows
  <2>4. count'[t] = count[t] + 1 /\ next'[t] = res.nx
    BY <1>3, <2>1 DEF Written, TypeOK
  <2>5. /\ ~res.ok => acked'[t] = acked[t]
        /\ res.ok => acked'[t].n = count[t] + 1 /\ acked'[t].id = next[t]
    BY <1>3, <2>1 DEF Written, TypeOK
  <2>6. \A u \in Tasks : u = t
    BY DEF OneTask
  <2>7. next[t] \in Nat /\ count[t] \in Nat /\ acked[t].id \in Int /\ res.nx \in Nat
    <3>1. count[t] + 1 \in 1 .. MaxCkpt
      BY <1>3, <2>2, StoreAssumption DEF TypeOK
    <3>2. res.nx \in Nat
      BY <1>3, <3>1, L3ResultType
    <3> QED  BY <1>3, <3>2 DEF TypeOK, Records, NoRec
  <2>8. acked'[t].id < next'[t]
    BY <1>4, <2>2, <2>3, <2>4, <2>5, <2>7
  <2>9. acked'[t] # NoRec =>
          \E r \in l3' : r.n >= acked'[t].n /\ r.id >= acked'[t].id
    BY <2>3, <2>5, <2>7
  <2> QED  BY <2>3, <2>4, <2>6, <2>8, <2>9 DEF L3Follows
<1>7. ASSUME NEW t \in Tasks, Reprobe(t)
      PROVE  L3Follows'
  <2>1. UNCHANGED <<setup, l3, next, count, acked>>
    BY <1>3, <1>7 DEF Reprobe
  <2>2. \A u \in Tasks : state'[u] \in {"open", "reprobe"}
                           => state[u] \in {"open", "reprobe"}
    BY <1>3, <1>7 DEF Reprobe, TypeOK
  <2> QED  BY <1>4, <2>1, <2>2 DEF L3Follows
<1>8. ASSUME NEW S \in SUBSET Tasks, End(S)
      PROVE  L3Follows'
  <2>1. UNCHANGED <<setup, l3, next, count, acked>>
    BY <1>8 DEF End, stores
  <2>2. \A u \in Tasks : state'[u] = "down" \/ state'[u] = state[u]
    BY <1>8 DEF End
  <2> QED  BY <1>4, <2>1, <2>2 DEF L3Follows
<1>9. CASE UNCHANGED vars
  BY <1>4, <1>9 DEF vars, L3Follows
<1>10. \A t \in Tasks : ~OpenWal(t) /\ ~AppendWal(t) /\ ~EngageFallback(t)
  BY <1>2, <1>3 DEF OpenWal, AppendWal, EngageFallback
<1> QED  BY <1>5, <1>6, <1>7, <1>8, <1>9, <1>10 DEF Next, Stop, Crash

\* A step keeps the last record of the WAL as new as what was acknowledged.
LEMMA WalStep ==
  ASSUME StoreInv, [Next]_vars, OneTask
  PROVE  WalFollows'
<1> SUFFICES ASSUME setup'.backend = "Wal", Intact'
             PROVE  WalFollows'
  BY DEF WalFollows
<1>1. setup' = setup
  BY DEF Next, OpenStateStore, OpenWal, AppendL3, AppendWal, EngageFallback,
         Reprobe, Stop, Crash, End, vars
<1>2. setup.backend = "Wal" /\ ~setup.wrapped
  BY <1>1, StoreAssumption DEF StoreInv, TypeInv, TypeOK
<1>3. TypeInv /\ TypeOK /\ WalFollows /\ \A t \in Tasks : ~fallback[t]
  BY <1>2 DEF StoreInv, TypeInv, SideOpen
<1>4. Intact =>
        \A t \in Tasks :
          /\ state[t] \in {"open", "reprobe"} => acked[t].id < side[t]
          /\ acked[t] # NoRec => /\ wal # <<>>
                                 /\ wal[Len(wal)].n >= acked[t].n
                                 /\ wal[Len(wal)].id >= acked[t].id
  BY <1>2, <1>3 DEF WalFollows
<1>5. ASSUME NEW t \in Tasks, OpenWal(t)
      PROVE  WalFollows'
  <2>1. UNCHANGED <<setup, wal, count, acked>>
    BY <1>5 DEF OpenWal
  <2>2. Intact
    BY <2>1 DEF Intact
  <2>3. \A u \in Tasks : u = t
    BY DEF OneTask
  <2>4. /\ state'[t] \in {"open", "blind"}
        /\ state'[t] = "open" => side'[t] = NextAfter(LastWal)
    BY <1>3, <1>5 DEF OpenWal, TypeOK
  <2>5. acked[t].id < NextAfter(LastWal)
    <3>1. CASE acked[t] = NoRec
      <4>1. NextAfter(LastWal) \in Nat
        BY <1>3, LastWalType DEF TypeInv, TypeOK
      <4> QED  BY <3>1, <4>1 DEF NoRec
    <3>2. CASE acked[t] # NoRec
      <4>1. LastWal = wal[Len(wal)] /\ LastWal \in Records
        BY <1>3, <1>4, <2>2, <3>2, LastOfIntact
      <4>2. acked[t].id \in Int /\ LastWal.id \in Int
        BY <1>3, <3>2, <4>1 DEF TypeOK, Records
      <4> QED  BY <1>4, <2>2, <3>2, <4>1, <4>2 DEF NextAfter
    <3> QED  BY <3>1, <3>2
  <2> QED  BY <1>4, <2>1, <2>2, <2>3, <2>4, <2>5 DEF WalFollows
<1>6. ASSUME NEW t \in Tasks, AppendWal(t)
      PROVE  WalFollows'
  <2>1. PICK res \in WalResults(t, count[t] + 1, side[t]) :
          /\ wal' = res.file /\ side' = [side EXCEPT ![t] = res.nx]
          /\ Written(t, count[t] + 1, res.ok, side[t])
    BY <1>6 DEF AppendWal
  <2>2. wal \in Seq(Records \cup {Torn}) /\ side[t] \in Nat /\ state[t] = "open"
    BY <1>2, <1>3, <1>6 DEF AppendWal, TypeInv, TypeOK, SideOpen
  <2>3. \A u \in Tasks : u = t
    BY DEF OneTask
  <2>4. side'[t] = res.nx
    BY <1>3, <2>1 DEF TypeOK
  <2>5. CASE res.ok = FALSE /\ res.nx = side[t] /\ res.file = wal
    <3>1. acked' = acked /\ wal' = wal
      BY <2>1, <2>5 DEF Written
    <3>2. Intact
      BY <3>1 DEF Intact
    <3> QED  BY <1>4, <2>2, <2>3, <2>4, <2>5, <3>1, <3>2 DEF WalFollows
  <2>6. CASE res.file = Append(wal, Torn)
    <3>1. Len(wal) + 1 \in DOMAIN wal' /\ wal'[Len(wal) + 1] = Torn
      BY <2>1, <2>2, <2>6
    <3> QED  BY <3>1 DEF Intact
  <2>7. CASE /\ res.ok = TRUE /\ res.nx = side[t] + 1
             /\ res.file = Append(wal, [task |-> t, n |-> count[t] + 1,
                                        id |-> side[t]])
    <3> DEFINE new == [task |-> t, n |-> count[t] + 1, id |-> side[t]]
    <3>1. acked'[t] = new /\ new.n = count[t] + 1 /\ new.id = side[t]
      BY <1>3, <2>1, <2>7 DEF Written, TypeOK
    <3>2. count[t] \in Nat
      BY <1>3 DEF TypeOK
    <3>3. wal' = Append(wal, new)
      BY <2>1, <2>7
    <3> HIDE DEF new
    <3>4. wal' # <<>> /\ wal'[Len(wal')] = new
      BY <2>2, <3>3
    <3> QED  BY <2>2, <2>3, <2>4, <2>7, <3>1, <3>2, <3>4 DEF WalFollows
  <2>8. \/ res.ok = FALSE /\ res.nx = side[t] /\ res.file = wal
        \/ res.file = Append(wal, Torn)
        \/ /\ res.ok = TRUE /\ res.nx = side[t] + 1
           /\ res.file = Append(wal, [task |-> t, n |-> count[t] + 1,
                                      id |-> side[t]])
    BY DEF WalResults
  <2> QED  BY <2>5, <2>6, <2>7, <2>8
<1>7. ASSUME NEW t \in Tasks, Reprobe(t)
      PROVE  WalFollows'
  <2>1. UNCHANGED <<setup, wal, side, count, acked>>
    BY <1>3, <1>7 DEF Reprobe
  <2>2. \A u \in Tasks : state'[u] \in {"open", "reprobe"}
                           => state[u] \in {"open", "reprobe"}
    BY <1>3, <1>7 DEF Reprobe, TypeOK
  <2>3. Intact
    BY <2>1 DEF Intact
  <2> QED  BY <1>4, <2>1, <2>2, <2>3 DEF WalFollows
<1>8. ASSUME NEW S \in SUBSET Tasks, End(S)
      PROVE  WalFollows'
  <2>1. UNCHANGED <<setup, wal, count, acked>>
    BY <1>8 DEF End, stores
  <2>2. \A u \in Tasks : \/ state'[u] = "down"
                         \/ state'[u] = state[u] /\ side'[u] = side[u]
    BY <1>8 DEF End
  <2>3. Intact
    BY <2>1 DEF Intact
  <2> QED  BY <1>4, <2>1, <2>2, <2>3 DEF WalFollows
<1>9. CASE UNCHANGED vars
  <2>1. Intact
    BY <1>9 DEF Intact, vars
  <2> QED  BY <1>4, <1>9, <2>1 DEF vars, WalFollows
<1>10. \A t \in Tasks : ~OpenStateStore(t) /\ ~AppendL3(t) /\ ~EngageFallback(t)
  BY <1>2 DEF OpenStateStore, AppendL3, EngageFallback
<1> QED  BY <1>5, <1>6, <1>7, <1>8, <1>9, <1>10 DEF Next, Stop, Crash

\* The invariant holds throughout, for a process with one sink task that keeps
\* at least one record.
LEMMA StoreInvariant ==
  ASSUME OneTask, KeepsOne
  PROVE  Spec => []StoreInv
<1>1. Init => StoreInv
  <2> SUFFICES ASSUME Init PROVE StoreInv
    OBVIOUS
  <2>1. TypeInv
    BY InitType
  <2>2. L3Follows /\ WalFollows
    BY DEF Init, L3Follows, WalFollows
  <2> QED  BY <2>1, <2>2 DEF StoreInv
<1>2. StoreInv /\ [Next]_vars => StoreInv'
  <2> SUFFICES ASSUME StoreInv, [Next]_vars PROVE StoreInv'
    OBVIOUS
  <2>1. TypeInv'
    BY TypeStep DEF StoreInv
  <2>2. L3Follows'
    BY L3Step
  <2>3. WalFollows'
    BY WalStep
  <2> QED  BY <2>1, <2>2, <2>3 DEF StoreInv
<1> QED  BY <1>1, <1>2, PTL DEF Spec

\* Whatever append, flush, purge or reopening failed and wherever the process
\* crashed, a start without the wrapper finds the last acknowledged checkpoint
\* or a later one, as long as no WAL write was cut (read_last of both stores).
THEOREM StartRecoversLast ==
  ASSUME OneTask, KeepsOne
  PROVE  Spec => []RecoversLast
<1>1. StoreInv => RecoversLast
  <2> SUFFICES ASSUME StoreInv, ~setup.wrapped, Intact,
                      NEW t \in Tasks, acked[t] # NoRec
               PROVE  StartReads.task = t /\ StartReads.n >= acked[t].n
    BY DEF RecoversLast, StartFindsLast
  <2>1. TypeInv /\ TypeOK /\ acked[t].n \in Nat /\ acked[t].id \in Nat
    <3>1. TypeInv /\ TypeOK
      BY DEF StoreInv, TypeInv
    <3>2. acked[t] \in Records
      BY <3>1 DEF TypeOK
    <3> QED  BY <3>1, <3>2 DEF Records
  <2>2. \A r \in Records : r.task = t /\ r.n \in Nat /\ r.id \in Nat
    BY DEF OneTask, Records
  <2>3. CASE setup.backend = "Wal"
    <3>1. wal # <<>> /\ wal[Len(wal)].n >= acked[t].n
      BY <2>3 DEF StoreInv, WalFollows
    <3>2. LastWal = wal[Len(wal)] /\ LastWal \in Records
      BY <2>1, <3>1, LastOfIntact
    <3> QED  BY <2>2, <2>3, <3>1, <3>2 DEF StartReads
  <2>4. CASE setup.backend = "StateStore"
    <3>1. PICK r \in l3 : r.n >= acked[t].n
      BY <2>4 DEF StoreInv, L3Follows
    <3>2. LastL3 \in l3 /\ r.id <= LastL3.id
      BY <2>1, <3>1, LastL3Max DEF TypeInv
    <3>3. LastL3 \in Records /\ r \in Records
      BY <2>1, <3>1, <3>2 DEF TypeOK
    <3>4. r.n <= LastL3.n
      <4>1. CASE r.id = LastL3.id
        <5>1. r = LastL3
          BY <2>4, <3>1, <3>2, <4>1 DEF StoreInv, L3Follows
        <5> QED  BY <2>2, <3>3, <5>1
      <4>2. CASE r.id < LastL3.id
        <5>1. r.n < LastL3.n
          BY <2>4, <3>1, <3>2, <4>2 DEF StoreInv, L3Follows
        <5> QED  BY <2>2, <3>3, <5>1
      <4> QED  BY <2>2, <3>2, <3>3, <4>1, <4>2
    <3>5. LastL3.n >= acked[t].n
      BY <2>1, <2>2, <3>1, <3>3, <3>4
    <3> QED  BY <2>2, <2>4, <3>3, <3>5 DEF StartReads
  <2> QED  BY <2>1, <2>3, <2>4, StoreAssumption DEF TypeOK
<1> QED  BY <1>1, StoreInvariant, PTL

\* In the same setting no id is given out twice to acknowledged checkpoints:
\* the ids grow across failed appends, restarts and purges.
THEOREM AckedIdsGrow ==
  ASSUME OneTask, KeepsOne
  PROVE  Spec => IdsGrow
<1>1. StoreInv /\ [Next]_vars =>
        [\A t \in Tasks : acked'[t] # acked[t] /\ ~setup.wrapped /\ Intact
                            => acked'[t].id > acked[t].id]_vars
  <2> SUFFICES ASSUME StoreInv, Next, ~setup.wrapped, Intact,
                      NEW t \in Tasks, acked'[t] # acked[t]
               PROVE  acked'[t].id > acked[t].id
    BY DEF vars
  <2>1. TypeInv /\ TypeOK /\ \A u \in Tasks : u = t /\ ~fallback[u]
    BY DEF StoreInv, TypeInv, SideOpen, OneTask
  <2>2. AppendL3(t) \/ AppendWal(t)
    BY <2>1 DEF Next, OpenStateStore, OpenWal, EngageFallback, Reprobe, Stop,
                Crash, End
  <2>3. acked[t].id \in Int /\ next[t] \in Int
    BY <2>1 DEF TypeOK, Records, NoRec
  <2>4. CASE AppendL3(t)
    <3>1. PICK res \in L3Results(t, count[t] + 1) :
            Written(t, count[t] + 1, res.ok, next[t])
      BY <2>4 DEF AppendL3
    <3>2. acked'[t].id = next[t]
      BY <2>1, <3>1 DEF Written, TypeOK
    <3>3. acked[t].id < next[t]
      BY <2>4 DEF StoreInv, L3Follows, AppendL3
    <3> QED  BY <2>3, <3>2, <3>3
  <2>5. CASE AppendWal(t)
    <3>1. PICK res \in WalResults(t, count[t] + 1, side[t]) :
            Written(t, count[t] + 1, res.ok, side[t])
      BY <2>5 DEF AppendWal
    <3>2. acked'[t].id = side[t]
      BY <2>1, <3>1 DEF Written, TypeOK
    <3>3. setup.backend = "Wal" /\ state[t] = "open"
      BY <2>1, <2>5 DEF AppendWal
    <3>4. acked[t].id < side[t] /\ side[t] \in Nat
      BY <3>3 DEF StoreInv, WalFollows, TypeInv, SideOpen
    <3> QED  BY <2>3, <3>2, <3>4
  <2> QED  BY <2>2, <2>4, <2>5
<1>2. Spec => [][Next]_vars
  BY DEF Spec
<1> QED  BY <1>1, <1>2, StoreInvariant, PTL DEF IdsGrow

-----------------------------------------------------------------------------
(* One task, the wrapper included: what was acknowledged is on disk.       *)

\* In the WAL, or in L3 under an id the open store will not give out again.
KeptOnDisk ==
  Intact /\ setup.keep = NoLimit =>
    \A t \in Tasks : acked[t] # NoRec =>
      \/ \E i \in DOMAIN wal : wal[i].n >= acked[t].n
      \/ \E r \in l3 :
           /\ r.n >= acked[t].n
           /\ setup.backend = "StateStore" /\ state[t] \in {"open", "reprobe"}
                => r.id < next[t]

DiskInv == TypeInv /\ KeptOnDisk

\* Without a cap on the records, L3's append keeps every record below the id
\* it writes, and never takes the id back.
LEMMA L3KeepsBelow ==
  ASSUME TypeInv, setup.keep = NoLimit, NEW t \in Tasks, NEW n \in Nat,
         NEW res \in L3Results(t, n)
  PROVE  /\ \A r \in l3 : r.id < next[t] => r \in res.recs
         /\ res.nx \in Nat /\ res.nx >= next[t]
         /\ res.ok => /\ [task |-> t, n |-> n, id |-> next[t]] \in res.recs
                      /\ res.nx = next[t] + 1
<1> DEFINE new == [task |-> t, n |-> n, id |-> next[t]]
<1>1. next[t] \in Nat /\ l3 \subseteq Records
  BY DEF TypeInv, TypeOK
<1>2. \A r \in l3 : r.id < next[t] => r \in Put(new)
  BY <1>1 DEF Put, Records
<1>3. new \in Put(new) /\ Purged(Put(new), next[t] + 1) = Put(new)
  BY DEF Put, Purged
<1>4. res \in { [ok |-> FALSE, recs |-> l3, nx |-> next[t]],
               [ok |-> FALSE, recs |-> Put(new), nx |-> next[t]],
               [ok |-> TRUE, recs |-> Purged(Put(new), next[t] + 1),
                nx |-> next[t] + 1] }
  BY DEF L3Results
<1> HIDE DEF new
<1>5. /\ \A r \in l3 : r.id < next[t] => r \in res.recs
      /\ res.nx \in Nat /\ res.nx >= next[t]
      /\ res.ok => new \in res.recs /\ res.nx = next[t] + 1
  BY <1>1, <1>2, <1>3, <1>4
<1> QED  BY <1>5 DEF new

\* The WAL only grows, until one of its writes is cut.
LEMMA WalKeeps ==
  ASSUME TypeInv, NEW t \in Tasks, NEW n \in 1 .. MaxCkpt, NEW nx \in Nat,
         NEW res \in WalResults(t, n, nx), wal' = res.file, Intact'
  PROVE  /\ Intact
         /\ \A i \in DOMAIN wal : i \in DOMAIN wal' /\ wal'[i] = wal[i]
         /\ res.ok => \E i \in DOMAIN wal' : wal'[i].n = n
<1>1. wal \in Seq(Records \cup {Torn})
  BY DEF TypeInv, TypeOK
<1>2. CASE res.file = wal /\ res.ok = FALSE
  BY <1>2 DEF Intact
<1>3. ASSUME NEW x, res.file = Append(wal, x)
      PROVE  /\ \A i \in DOMAIN wal : i \in DOMAIN wal' /\ wal'[i] = wal[i]
             /\ Len(wal) + 1 \in DOMAIN wal' /\ wal'[Len(wal) + 1] = x
  BY <1>1, <1>3
<1>4. CASE res.file = Append(wal, Torn)
  BY <1>3, <1>4 DEF Intact
<1>5. CASE res.file = Append(wal, [task |-> t, n |-> n, id |-> nx])
  BY <1>3, <1>5 DEF Intact
<1>6. \/ res.file = wal /\ res.ok = FALSE
      \/ res.file = Append(wal, Torn)
      \/ res.file = Append(wal, [task |-> t, n |-> n, id |-> nx])
  BY DEF WalResults
<1> QED  BY <1>2, <1>4, <1>5, <1>6

\* Every step keeps what was acknowledged.
LEMMA KeptStep ==
  ASSUME DiskInv, [Next]_vars, OneTask
  PROVE  KeptOnDisk'
<1> SUFFICES ASSUME Intact', setup'.keep = NoLimit, NEW t \in Tasks,
                    acked'[t] # NoRec
             PROVE  \/ \E i \in DOMAIN wal' : wal'[i].n >= acked'[t].n
                    \/ \E r \in l3' :
                         /\ r.n >= acked'[t].n
                         /\ setup'.backend = "StateStore"
                              /\ state'[t] \in {"open", "reprobe"}
                              => r.id < next'[t]
  BY DEF KeptOnDisk
<1> DEFINE InWal == \E i \in DOMAIN wal : wal[i].n >= acked[t].n
           InL3 == \E r \in l3 :
                     /\ r.n >= acked[t].n
                     /\ setup.backend = "StateStore"
                          /\ state[t] \in {"open", "reprobe"} => r.id < next[t]
<1>1. setup' = setup
  BY DEF Next, OpenStateStore, OpenWal, AppendL3, AppendWal, EngageFallback,
         Reprobe, Stop, Crash, End, vars
<1>2. TypeInv /\ TypeOK /\ \A u \in Tasks : u = t
  BY DEF DiskInv, TypeInv, OneTask
<1>3. /\ next[t] \in Nat /\ count[t] \in Nat /\ l3 \subseteq Records
      /\ wal \in Seq(Records \cup {Torn}) /\ acked[t] \in Records \cup {NoRec}
      /\ acked[t].n \in Nat /\ \A r \in l3 : r.n \in Nat /\ r.id \in Nat
  BY <1>2 DEF TypeOK, Records, NoRec
<1>4. setup.keep = NoLimit /\ (Intact /\ acked[t] # NoRec => InWal \/ InL3)
  BY <1>1 DEF DiskInv, KeptOnDisk
<1> HIDE DEF InWal, InL3
\* What an L3 append of the task's n-th checkpoint leaves of it.
<1>5. ASSUME NEW n \in Nat, NEW res \in L3Results(t, n), l3' = res.recs,
             next'[t] = res.nx, acked' = acked, state[t] \in {"open", "reprobe"},
             setup.backend = "StateStore",
             Intact, \A i \in DOMAIN wal : i \in DOMAIN wal' /\ wal'[i] = wal[i]
      PROVE  \/ \E i \in DOMAIN wal' : wal'[i].n >= acked'[t].n
             \/ \E r \in l3' : r.n >= acked'[t].n /\ r.id < next'[t]
  <2>1. CASE InWal
    BY <1>5, <2>1 DEF InWal
  <2>2. CASE InL3
    <3>1. PICK r \in l3 : r.n >= acked[t].n /\ r.id < next[t]
      BY <1>5, <2>2 DEF InL3
    <3>2. /\ \A q \in l3 : q.id < next[t] => q \in res.recs
          /\ res.nx \in Nat /\ res.nx >= next[t]
      BY <1>2, <1>4, <1>5, L3KeepsBelow
    <3>3. r \in l3' /\ r.id < next'[t]
      BY <1>3, <1>5, <3>1, <3>2
    <3> QED  BY <1>5, <3>1, <3>3
  <2> QED  BY <1>4, <1>5, <2>1, <2>2
<1>6. CASE OpenStateStore(t)
  <2>1. UNCHANGED <<setup, l3, wal, acked>> /\ Intact
    BY <1>6 DEF OpenStateStore, stores, Intact
  <2>2. state'[t] \in {"open", "blind"}
        /\ (state'[t] = "open" => next'[t] = NextAfter(LastL3))
    BY <1>2, <1>6 DEF OpenStateStore, TypeOK
  <2>3. CASE InWal
    BY <2>1, <2>3 DEF InWal
  <2>4. CASE InL3
    <3>1. PICK r \in l3 : r.n >= acked[t].n
      BY <2>4 DEF InL3
    <3>2. LastL3 \in l3 /\ r.id <= LastL3.id
      BY <1>2, <3>1, LastL3Max DEF TypeInv
    <3>3. r.id < NextAfter(LastL3)
      BY <1>3, <3>1, <3>2 DEF NextAfter
    <3> QED  BY <2>1, <2>2, <3>1, <3>3
  <2> QED  BY <1>4, <2>1, <2>3, <2>4
<1>7. CASE OpenWal(t)
  <2>1. UNCHANGED <<setup, l3, wal, acked>> /\ Intact /\ setup.backend = "Wal"
    BY <1>7 DEF OpenWal, Intact
  <2> QED  BY <1>4, <2>1 DEF InWal, InL3
<1>8. CASE AppendL3(t)
  <2>1. PICK res \in L3Results(t, count[t] + 1) :
          /\ l3' = res.recs /\ next' = [next EXCEPT ![t] = res.nx]
          /\ Written(t, count[t] + 1, res.ok, next[t])
    BY <1>8 DEF AppendL3
  <2>2. /\ UNCHANGED wal /\ Intact /\ state[t] = "open"
        /\ setup.backend = "StateStore" /\ next'[t] = res.nx
        /\ count[t] + 1 \in Nat
    BY <1>2, <1>3, <1>8, <2>1 DEF AppendL3, Intact, TypeOK
  <2>3. CASE res.ok
    <3> DEFINE new == [task |-> t, n |-> count[t] + 1, id |-> next[t]]
    <3>1. acked'[t] = new
      BY <1>2, <2>1, <2>3 DEF Written, TypeOK
    <3>2. new \in l3' /\ next'[t] = next[t] + 1
      BY <1>2, <1>4, <2>1, <2>2, <2>3, L3KeepsBelow
    <3>3. new.n = count[t] + 1 /\ new.id = next[t]
      OBVIOUS
    <3> HIDE DEF new
    <3> QED  BY <1>3, <3>1, <3>2, <3>3
  <2>4. CASE ~res.ok
    <3>1. acked' = acked
      BY <2>1, <2>4 DEF Written
    <3> QED  BY <1>5, <2>1, <2>2, <3>1
  <2> QED  BY <2>3, <2>4
<1>9. CASE AppendWal(t)
  <2>1. PICK res \in WalResults(t, count[t] + 1, side[t]) :
          wal' = res.file /\ Written(t, count[t] + 1, res.ok, side[t])
    BY <1>9 DEF AppendWal
  <2>2. UNCHANGED <<l3, next>> /\ state[t] = "open" /\ count[t] < MaxCkpt
        /\ side[t] \in Nat
    BY <1>2, <1>9 DEF AppendWal, TypeInv, SideOpen
  <2>3. count[t] + 1 \in 1 .. MaxCkpt
    BY <1>3, <2>2, StoreAssumption
  <2>4. /\ Intact
        /\ \A i \in DOMAIN wal : i \in DOMAIN wal' /\ wal'[i] = wal[i]
        /\ res.ok => \E i \in DOMAIN wal' : wal'[i].n = count[t] + 1
    BY <1>2, <2>1, <2>2, <2>3, WalKeeps
  <2>5. CASE res.ok
    <3>1. acked'[t].n = count[t] + 1
      BY <1>2, <2>1, <2>5 DEF Written, TypeOK
    <3> QED  BY <1>3, <2>4, <2>5, <3>1
  <2>6. CASE ~res.ok
    <3>1. acked' = acked
      BY <2>1, <2>6 DEF Written
    <3> QED  BY <1>1, <1>4, <2>2, <2>4, <3>1 DEF InWal, InL3
  <2> QED  BY <2>5, <2>6
<1>10. CASE EngageFallback(t)
  <2>1. PICK lres \in L3Results(t, count[t] + 1) :
          ~lres.ok /\ l3' = lres.recs /\ next' = [next EXCEPT ![t] = lres.nx]
    BY <1>10 DEF EngageFallback
  <2>2. /\ state[t] = "open" /\ setup.backend = "StateStore"
        /\ next'[t] = lres.nx /\ count[t] + 1 \in 1 .. MaxCkpt
    BY <1>2, <1>3, <1>10, <2>1, StoreAssumption DEF EngageFallback, TypeOK
  <2>3. CASE UNCHANGED wal /\ Written(t, count[t] + 1, FALSE, NoWal)
    <3>1. acked' = acked /\ Intact
      BY <2>3 DEF Written, Intact
    <3> QED  BY <1>5, <2>1, <2>2, <2>3, <3>1
  <2>4. ASSUME NEW res \in WalResults(t, count[t] + 1, NextAfter(LastWal)),
               wal' = res.file,
               Written(t, count[t] + 1, res.ok, NextAfter(LastWal))
        PROVE  \/ \E i \in DOMAIN wal' : wal'[i].n >= acked'[t].n
               \/ \E r \in l3' : r.n >= acked'[t].n /\ r.id < next'[t]
    <3>1. NextAfter(LastWal) \in Nat
      BY <1>2, LastWalType DEF TypeInv, TypeOK
    <3>2. /\ Intact
          /\ \A i \in DOMAIN wal : i \in DOMAIN wal' /\ wal'[i] = wal[i]
          /\ res.ok => \E i \in DOMAIN wal' : wal'[i].n = count[t] + 1
      BY <1>2, <2>2, <2>4, <3>1, WalKeeps
    <3>3. CASE res.ok
      <4>1. acked'[t].n = count[t] + 1
        BY <1>2, <2>4, <3>3 DEF Written, TypeOK
      <4> QED  BY <1>3, <3>2, <3>3, <4>1
    <3>4. CASE ~res.ok
      <4>1. acked' = acked
        BY <2>4, <3>4 DEF Written
      <4> QED  BY <1>5, <2>1, <2>2, <3>2, <4>1
    <3> QED  BY <3>3, <3>4
  <2>5. \/ UNCHANGED wal /\ Written(t, count[t] + 1, FALSE, NoWal)
        \/ \E res \in WalResults(t, count[t] + 1, NextAfter(LastWal)) :
             wal' = res.file /\ Written(t, count[t] + 1, res.ok, NextAfter(LastWal))
    BY <1>10 DEF EngageFallback
  <2> QED  BY <2>3, <2>4, <2>5
<1>11. CASE Reprobe(t)
  <2>1. UNCHANGED <<wal, acked>> /\ Intact /\ state[t] = "reprobe"
    BY <1>11 DEF Reprobe, WalLeft, Intact
  <2>2. CASE UNCHANGED <<l3, next>>
    BY <1>1, <1>4, <2>1, <2>2 DEF InWal, InL3
  <2>3. ASSUME fallback[t], LastWal # NoRec,
               NEW res \in L3Results(t, LastWal.n), l3' = res.recs,
               next' = [next EXCEPT ![t] = res.nx]
        PROVE  \/ \E i \in DOMAIN wal' : wal'[i].n >= acked'[t].n
               \/ \E r \in l3' : r.n >= acked'[t].n /\ r.id < next'[t]
    <3>1. LastWal.n \in Nat
      BY <1>2, <2>3, LastWalType DEF TypeInv, TypeOK, Records
    <3>2. setup.backend = "StateStore" /\ next'[t] = res.nx
      BY <1>2, <2>3, StoreAssumption DEF TypeInv, SideOpen, TypeOK
    <3> QED  BY <1>5, <2>1, <2>3, <3>1, <3>2
  <2> QED  BY <1>11, <2>2, <2>3 DEF Reprobe
<1>12. CASE \E S \in SUBSET Tasks : End(S)
  <2>0. PICK S \in SUBSET Tasks : End(S)
    BY <1>12
  <2>1. UNCHANGED <<setup, l3, wal, next, acked>> /\ Intact
    BY <2>0 DEF End, stores, Intact
  <2>2. state'[t] = "down" \/ state'[t] = state[t]
    BY <2>0 DEF End
  <2> QED  BY <1>4, <2>1, <2>2 DEF InWal, InL3
<1>13. CASE UNCHANGED vars
  <2>1. Intact
    BY <1>13 DEF vars, Intact
  <2> QED  BY <1>4, <1>13, <2>1 DEF vars, InWal, InL3
<1>14. \/ OpenStateStore(t) \/ OpenWal(t) \/ AppendL3(t) \/ AppendWal(t)
       \/ EngageFallback(t) \/ Reprobe(t) \/ UNCHANGED vars
       \/ \E S \in SUBSET Tasks : End(S)
  <2>1. {t} \in SUBSET Tasks /\ Tasks \in SUBSET Tasks
    OBVIOUS
  <2>2. Crash \/ Stop(t) => \E S \in SUBSET Tasks : End(S)
    BY <2>1 DEF Crash, Stop
  <2> QED  BY <1>2, <2>2 DEF Next
<1> QED
  BY <1>6, <1>7, <1>8, <1>9, <1>10, <1>11, <1>12, <1>13, <1>14, Zenon

\* For one sink task with any settings, an acknowledged checkpoint or a later
\* one stays readable in L3 or in the WAL through failed appends, the turns to
\* and from the fallback, restarts and crashes.
THEOREM AckedStaysOnDisk ==
  ASSUME OneTask
  PROVE  Spec => []AckedIsOnDisk
<1>1. Init => DiskInv
  BY InitType DEF Init, DiskInv, KeptOnDisk
<1>2. DiskInv /\ [Next]_vars => DiskInv'
  BY TypeStep, KeptStep DEF DiskInv
<1>3. DiskInv => AckedIsOnDisk
  <2> SUFFICES ASSUME DiskInv, Intact, setup.keep = NoLimit,
                      NEW t \in Tasks, acked[t] # NoRec
               PROVE  \/ \E r \in l3 : r.task = t /\ r.n >= acked[t].n
                      \/ \E i \in DOMAIN wal :
                           wal[i].task = t /\ wal[i].n >= acked[t].n
    BY DEF AckedIsOnDisk
  <2>1. \A r \in Records : r.task = t
    BY DEF OneTask, Records
  <2>2. l3 \subseteq Records /\ \A i \in DOMAIN wal : wal[i] \in Records
    <3>1. wal \in Seq(Records \cup {Torn}) /\ l3 \subseteq Records
      BY DEF DiskInv, TypeInv, TypeOK
    <3>2. \A i \in DOMAIN wal : wal[i] \in Records \cup {Torn}
      BY <3>1
    <3> QED  BY <3>1, <3>2 DEF Intact
  <2> QED  BY <2>1, <2>2 DEF DiskInv, KeptOnDisk
<1> QED  BY <1>1, <1>2, <1>3, PTL DEF Spec

-----------------------------------------------------------------------------
(* The cap on the records.                                                 *)

\* Records with different ids in a window of k ids are at most k.
LEMMA WindowCount ==
  ASSUME NEW recs, NEW k \in Nat, NEW top \in Nat,
         \A r \in recs : r.id \in Nat /\ r.id <= top /\ r.id >= top + 1 - k,
         \A q, r \in recs : q.id = r.id => q = r
  PROVE  Cardinality(recs) <= k
<1> DEFINE f == [r \in recs |-> r.id]
           W == (top + 1 - k) .. top
<1>1. \A r \in recs : r.id \in W
  OBVIOUS
<1>2. f \in Injection(recs, W)
  BY <1>1 DEF Injection, IsInjective
<1>3. top + 1 - k \in Int /\ top \in Int
  OBVIOUS
<1>4. IsFiniteSet(W) /\ Cardinality(W) = IF top + 1 - k > top THEN 0 ELSE top - (top + 1 - k) + 1
  BY <1>3, FS_Interval
<1>5. Cardinality(W) <= k
  BY <1>3, <1>4
<1>6. IsFiniteSet(recs) /\ Cardinality(recs) <= Cardinality(W)
  BY <1>2, <1>4, FS_Injection
<1>7. Cardinality(recs) \in Nat /\ Cardinality(W) \in Nat
  BY <1>4, <1>6, FS_CardinalityType
<1> QED  BY <1>5, <1>6, <1>7

\* An acknowledged append to L3 leaves at most l3_max_records records, even
\* after purges that failed half way and stores that were opened again.
THEOREM RetentionHolds ==
  ASSUME OneTask, KeepsOne
  PROVE  Spec => RetentionCapped
<1>1. StoreInv /\ [Next]_vars =>
        [\A t \in Tasks : acked'[t] # acked[t] /\ next'[t] # next[t]
                            /\ setup.keep # NoLimit /\ ~setup.wrapped
                              => Cardinality(l3') <= setup.keep]_vars
  <2> SUFFICES ASSUME StoreInv, Next, ~setup.wrapped, setup.keep # NoLimit,
                      NEW t \in Tasks, acked'[t] # acked[t], next'[t] # next[t]
               PROVE  Cardinality(l3') <= setup.keep
    BY DEF vars
  <2>1. TypeInv /\ TypeOK /\ \A u \in Tasks : u = t /\ ~fallback[u]
    BY DEF StoreInv, TypeInv, SideOpen, OneTask
  <2>2. AppendL3(t)
    BY <2>1 DEF Next, OpenStateStore, OpenWal, AppendWal, EngageFallback, Reprobe,
                Stop, Crash, End
  <2>3. PICK res \in L3Results(t, count[t] + 1) :
          l3' = res.recs /\ Written(t, count[t] + 1, res.ok, next[t])
    BY <2>2 DEF AppendL3
  <2>4. res.ok
    BY <2>3 DEF Written
  <2> DEFINE new == [task |-> t, n |-> count[t] + 1, id |-> next[t]]
  <2>5. l3' = Purged(Put(new), next[t] + 1)
    BY <2>3, <2>4 DEF L3Results
  <2>6. setup.keep \in Nat /\ next[t] \in Nat /\ l3 \subseteq Records
    BY <2>1, StoreAssumption DEF TypeOK
  <2>7. /\ \A q, r \in l3 : q.id = r.id => q = r
        /\ \A r \in l3 : r.id <= next[t]
    BY <2>2 DEF StoreInv, L3Follows, AppendL3
  <2>8. new.id = next[t]
    OBVIOUS
  <2> HIDE DEF new
  <2>9. \A r \in l3' : ((r \in l3 /\ r.id # next[t]) \/ r = new)
                        /\ r.id >= next[t] + 1 - setup.keep
    BY <2>5, <2>8, <2>6 DEF Purged, Put
  <2>10. \A r \in l3' : r.id \in Nat /\ r.id <= next[t]
                         /\ r.id >= next[t] + 1 - setup.keep
    BY <2>6, <2>7, <2>8, <2>9 DEF Records
  <2>11. \A q, r \in l3' : q.id = r.id => q = r
    BY <2>7, <2>8, <2>9
  <2> QED  BY <2>6, <2>10, <2>11, WindowCount
<1>2. Spec => [][Next]_vars
  BY DEF Spec
<1> QED  BY <1>1, <1>2, StoreInvariant, PTL DEF RetentionCapped

-----------------------------------------------------------------------------
(* The event bodies of a partition, for any appends, rollovers, rotations,   *)
(* collections and restarts.                                                 *)

\* The process dies between appends, or before the file of a new segment is
\* there.
Survivable == CrashPoints \subseteq {"idle", "meta", "file"} /\ MaxAppends \in Nat

Recs == [seq : Nat, event : Nat, dek : Nat, whole : BOOLEAN]
Segs == [start : Nat, max_seq : Nat \cup {-1}, size : Nat, dek : Nat]
Items(s) == files[s].items

BodyShape ==
  /\ DOMAIN files \subseteq Nat /\ files \in [DOMAIN files -> [header : BOOLEAN, items : Seq(Recs)]]
  /\ DOMAIN metas \subseteq Nat /\ metas \in [DOMAIN metas -> [kek : Nat, dek : Nat]]
  /\ store \in [segments : Seq(Segs), next_seq : Nat \cup {-1}]
  /\ handle \in [active : Nat, previous : Nat] /\ count \in [appends : Nat, crashes : Nat]
  /\ pc \in {"idle", "meta", "file", "header", "record", "payload"}
  /\ acked \subseteq [seq : Nat, event : Nat, dek : Nat] /\ floor \in Nat
  /\ store.next_seq = -1 => store = Body!Closed /\ pc = "idle"

\* The sequence numbers grow, from the one a segment is named after to the
\* name of the next.
Ordered ==
  \A s \in DOMAIN files :
    /\ \A i \in DOMAIN Items(s) : s <= Items(s)[i].seq
    /\ \A i, j \in DOMAIN Items(s) : i < j => Items(s)[i].seq < Items(s)[j].seq
    /\ \A u \in DOMAIN files : s < u => \A i \in DOMAIN Items(s) : Items(s)[i].seq < u

\* The record an append has begun, and the segment made for it.
Begun(s, i) == pc = "payload" /\ s = Body!Writable.start /\ i = Len(Items(s))
Made(s) == pc \in {"header", "record"} /\ s = store.next_seq

\* Only these are not whole.
AllWhole ==
  \A s \in DOMAIN files :
    /\ files[s].header <=> ~(pc = "header" /\ s = store.next_seq)
    /\ Items(s) = << >> <=> Made(s)
    /\ \A i \in DOMAIN Items(s) : Items(s)[i].whole <=> ~Begun(s, i)

\* A key in use unwraps every sidecar of a segment, which names its records' key.
Keyed ==
  /\ handle.active = 0 => DOMAIN metas = {}
  /\ \A s \in DOMAIN files :
       Body!LoadCipher(s).ok /\ \A i \in DOMAIN Items(s) : Items(s)[i].dek = Body!LoadCipher(s).dek
  /\ pc \in {"file", "header"} /\ handle.active # 0 =>
       store.next_seq \in DOMAIN metas /\ metas[store.next_seq] = Body!Wrap(handle, count.appends)
  /\ pc = "meta" => handle.active # 0

\* max_seq is the number of the last record that is whole.
Topped(s, m) ==
  /\ \A i \in DOMAIN Items(s) : ~Begun(s, i) => Items(s)[i].seq <= m
  /\ m # -1 => \E i \in DOMAIN Items(s) : ~Begun(s, i) /\ Items(s)[i].seq = m

\* q lists S in order.
Lists(n, q, S) ==
  /\ q \in [1 .. n -> S] /\ \A s \in S : \E i \in 1 .. n : q[i] = s
  /\ \A i, j \in 1 .. n : i < j => q[i] < q[j]

Starts == [i \in 1 .. Len(store.segments) |-> store.segments[i].start]
Closable == DOMAIN files \ (IF pc = "header" THEN {store.next_seq} ELSE {})

\* An open store has the segments in order; a closed one finds them so.
Listed ==
  /\ store.next_seq # -1 =>
       /\ Lists(Len(store.segments), Starts, Closable)
       /\ \A i \in DOMAIN store.segments :
            LET g == store.segments[i] IN
            Topped(g.start, g.max_seq) /\ g.dek = Body!LoadCipher(g.start).dek
       /\ \A s \in DOMAIN files : \A i \in DOMAIN Items(s) :
            IF Begun(s, i) THEN Items(s)[i].seq = store.next_seq
            ELSE Items(s)[i].seq < store.next_seq
       /\ \A s \in DOMAIN files : s <= store.next_seq
       /\ pc \in {"record", "payload"} => store.segments # << >>
       /\ pc = "header" => store.next_seq \in DOMAIN files
       /\ pc = "payload" => Items(Body!Writable.start) # << >>
                            /\ Items(Body!Writable.start)[Len(Items(Body!Writable.start))] = Body!Item(Body!Record, FALSE)
  /\ store.next_seq = -1 => \E n \in Nat : \E q \in [1 .. n -> DOMAIN files] : Lists(n, q, DOMAIN files)

\* What was acknowledged and not released is on disk, and no number comes back.
Lasting ==
  /\ \A r \in acked : r.seq >= floor =>
       \E s \in DOMAIN files : \E i \in DOMAIN Items(s) : Items(s)[i] = Body!Item(r, TRUE)
  /\ \A r \in acked : \E s \in DOMAIN files : \E i \in DOMAIN Items(s) :
       r.seq <= Items(s)[i].seq /\ ~Begun(s, i)
  /\ Body!SeqsFresh

BodyInv == BodyShape /\ Ordered /\ AllWhole /\ Keyed /\ Listed /\ Lasting

LEMMA BodyInit == Body!Init => BodyInv
<1> SUFFICES ASSUME Body!Init PROVE BodyInv
  OBVIOUS
<1>1. /\ files = << >> /\ DOMAIN files = {} /\ metas = << >> /\ DOMAIN metas = {}
      /\ store = [segments |-> << >>, next_seq |-> -1] /\ store.next_seq = -1 /\ acked = {}
      /\ pc = "idle" /\ floor = 0 /\ count = [appends |-> 0, crashes |-> 0]
      /\ handle \in [active : Nat, previous : Nat]
  BY DEF Body!Init, Body!Closed, Body!NoKek
<1>2. BodyShape
  BY <1>1 DEF BodyShape, Body!Closed
<1>3. Ordered /\ AllWhole /\ Keyed /\ Lasting
  BY <1>1 DEF Ordered, AllWhole, Keyed, Lasting, Body!SeqsFresh
<1>4. Lists(0, << >>, DOMAIN files)
  BY <1>1 DEF Lists
<1>5. << >> \in [1 .. 0 -> DOMAIN files] /\ 0 \in Nat
  BY <1>1
<1> QED BY <1>1, <1>2, <1>3, <1>4, <1>5 DEF BodyInv, Listed

\* What the parts of the state are.
LEMMA BodyParts ==
  ASSUME BodyShape
  PROVE  /\ store = [segments |-> store.segments, next_seq |-> store.next_seq]
         /\ store.segments \in Seq(Segs) /\ Len(store.segments) \in Nat
         /\ DOMAIN store.segments = 1 .. Len(store.segments)
         /\ store.next_seq \in Int /\ (Body!IsOpen <=> store.next_seq # -1)
         /\ Body!IsOpen => store.next_seq \in Nat
         /\ files = [s \in DOMAIN files |-> files[s]] /\ metas = [s \in DOMAIN metas |-> metas[s]]
         /\ \A s \in DOMAIN files :
              /\ files[s] = [header |-> files[s].header, items |-> Items(s)]
              /\ s \in Nat /\ files[s].header \in BOOLEAN
              /\ Items(s) \in Seq(Recs) /\ Len(Items(s)) \in Nat /\ DOMAIN Items(s) = 1 .. Len(Items(s))
              /\ \A i \in DOMAIN Items(s) : Items(s)[i].seq \in Nat /\ Items(s)[i] \in Recs
         /\ \A i \in DOMAIN store.segments :
              store.segments[i] \in Segs /\ store.segments[i].start \in Nat
              /\ store.segments[i].max_seq \in Int
<1>1. store \in [segments : Seq(Segs), next_seq : Nat \cup {-1}]
  BY DEF BodyShape
<1>2. /\ store = [segments |-> store.segments, next_seq |-> store.next_seq]
      /\ store.segments \in Seq(Segs) /\ store.next_seq \in Nat \cup {-1}
  BY <1>1
<1>3. \A i \in DOMAIN store.segments : store.segments[i] \in Segs
  BY <1>2
<1>4. \A g \in Segs : g.start \in Nat /\ g.max_seq \in Int
  BY DEF Segs
<1>5. ASSUME NEW s \in DOMAIN files
      PROVE  /\ files[s] = [header |-> files[s].header, items |-> Items(s)]
             /\ s \in Nat /\ files[s].header \in BOOLEAN
             /\ Items(s) \in Seq(Recs)
  <2>1. files[s] \in [header : BOOLEAN, items : Seq(Recs)] /\ s \in Nat
    BY DEF BodyShape
  <2> QED BY <2>1 DEF Items
<1>6. ASSUME NEW s \in DOMAIN files
      PROVE  /\ Len(Items(s)) \in Nat /\ DOMAIN Items(s) = 1 .. Len(Items(s))
             /\ \A i \in DOMAIN Items(s) : Items(s)[i].seq \in Nat /\ Items(s)[i] \in Recs
  <2>1. Items(s) \in Seq(Recs)
    BY <1>5
  <2>2. \A i \in DOMAIN Items(s) : Items(s)[i] \in Recs
    BY <2>1
  <2>3. \A r \in Recs : r.seq \in Nat
    BY DEF Recs
  <2> QED BY <2>1, <2>2, <2>3
<1>7. files = [s \in DOMAIN files |-> files[s]] /\ metas = [s \in DOMAIN metas |-> metas[s]]
  BY DEF BodyShape
<1> QED BY <1>2, <1>3, <1>4, <1>5, <1>6, <1>7 DEF Body!IsOpen

\* Between two appends, and until the file of a new segment is there.
LEMMA AtRest ==
  ASSUME BodyInv, pc \in {"idle", "meta", "file"}
  PROVE  /\ Closable = DOMAIN files
         /\ \A s \in DOMAIN files :
              /\ files[s].header /\ Items(s) # << >> /\ ~Made(s)
              /\ \A i \in DOMAIN Items(s) : Items(s)[i].whole /\ ~Begun(s, i)
         /\ Body!IsOpen => store.next_seq \notin DOMAIN files /\ \A s \in DOMAIN files : s < store.next_seq
<1>1. \A s \in DOMAIN files : ~Made(s) /\ \A i \in DOMAIN Items(s) : ~Begun(s, i)
  BY DEF Made, Begun
<1>2. \A s \in DOMAIN files :
        files[s].header /\ Items(s) # << >> /\ \A i \in DOMAIN Items(s) : Items(s)[i].whole
  BY <1>1 DEF BodyInv, AllWhole
<1>3. Closable = DOMAIN files
  BY DEF Closable
<1>4. ASSUME Body!IsOpen, NEW s \in DOMAIN files PROVE s < store.next_seq
  <2>1. 1 \in DOMAIN Items(s) /\ Items(s)[1].seq \in Nat /\ s \in Nat /\ store.next_seq \in Nat
    <3>1. /\ Items(s) \in Seq(Recs) /\ DOMAIN Items(s) = 1 .. Len(Items(s)) /\ s \in Nat
          /\ \A i \in DOMAIN Items(s) : Items(s)[i].seq \in Nat
          /\ store.next_seq \in Nat
      BY <1>4, BodyParts DEF BodyInv
    <3>2. 1 \in DOMAIN Items(s)
      BY <1>2, <3>1
    <3> QED BY <3>1, <3>2
  <2>2. s <= Items(s)[1].seq
    BY <2>1 DEF BodyInv, Ordered
  <2>3. Items(s)[1].seq < store.next_seq
    BY <1>1, <1>4, <2>1, BodyParts DEF BodyInv, Listed
  <2> QED BY <2>1, <2>2, <2>3
<1>5. ASSUME Body!IsOpen PROVE store.next_seq \notin DOMAIN files
  <2>1. store.next_seq \in Nat
    BY <1>5, BodyParts DEF BodyInv
  <2> QED BY <1>4, <1>5, <2>1
<1> QED BY <1>1, <1>2, <1>3, <1>4, <1>5

\* The records of a segment that is whole.
LEMMA ScanIs ==
  ASSUME NEW s \in DOMAIN files, \A i \in DOMAIN Items(s) : Items(s)[i].whole
  PROVE  Body!Scan(s) = Items(s)
BY DEF Body!Scan, Items

\* What a replay and an open find.
LEMMA BodyFound ==
  ASSUME BodyInv
  PROVE  Body!BodiesKept /\ Body!SeqsFresh /\ Body!OpensAgain /\ Body!SealedAsTold
<1>1. Body!SeqsFresh
  BY DEF BodyInv, Lasting
<1>2. Body!OpensAgain
  <2> SUFFICES ASSUME ~Body!IsOpen, NEW s \in DOMAIN files PROVE Body!Opens(s)
    BY DEF Body!OpensAgain
  <2>1. pc = "idle"
    BY BodyParts DEF BodyInv, BodyShape
  <2>2. files[s].header /\ Body!Scan(s) = Items(s)
    BY <2>1, AtRest, ScanIs
  <2> QED BY <2>2 DEF Body!Opens, BodyInv, Keyed
<1>3. Body!BodiesKept
  <2> SUFFICES ASSUME Body!IsOpen, pc = "idle", NEW r \in acked, r.seq >= floor
               PROVE  Body!Item(r, TRUE) \in Body!IterFrom(floor)
    BY DEF Body!BodiesKept
  <2>1. PICK s \in DOMAIN files : \E i \in DOMAIN Items(s) : Items(s)[i] = Body!Item(r, TRUE)
    BY DEF BodyInv, Lasting
  <2>2. PICK i \in DOMAIN Items(s) : Items(s)[i] = Body!Item(r, TRUE)
    BY <2>1
  <2>3. /\ Body!Scan(s) = Items(s) /\ ~Begun(s, i)
        /\ Closable = DOMAIN files
    BY AtRest, ScanIs
  <2>4. PICK j \in 1 .. Len(store.segments) : Starts[j] = s
    BY <2>3, BodyParts DEF BodyInv, Listed, Lists
  <2>5. store.segments[j].start = s /\ j \in DOMAIN store.segments
    BY <2>4, BodyParts DEF Starts, BodyInv
  <2>6. Topped(s, store.segments[j].max_seq)
    BY <2>5, BodyParts DEF BodyInv, Listed
  <2>7. Items(s)[i].seq <= store.segments[j].max_seq
    BY <2>2, <2>3, <2>6 DEF Topped
  <2>8. Items(s)[i].seq = r.seq
    BY <2>2 DEF Body!Item
  <2>9. r.seq \in Nat /\ floor \in Nat /\ store.segments[j].max_seq \in Int
    BY <2>5, BodyParts DEF BodyInv, BodyShape
  <2>10. store.segments[j].max_seq >= floor
    BY <2>7, <2>8, <2>9
  <2>11. Body!Item(r, TRUE) \in {x \in Body!Range(Body!Scan(store.segments[j].start)) : x.seq >= floor}
    BY <2>2, <2>3, <2>5, <2>8 DEF Body!Range
  <2> QED BY <2>5, <2>10, <2>11 DEF Body!IterFrom
<1>4. Body!SealedAsTold
  <2> SUFFICES ASSUME Body!IsOpen, NEW i \in DOMAIN store.segments,
                      NEW r \in Body!Range(files[store.segments[i].start].items)
               PROVE  r.dek = Body!LoadCipher(store.segments[i].start).dek
    BY DEF Body!SealedAsTold
  <2> DEFINE s == store.segments[i].start
  <2>1. s \in DOMAIN files
    <3>1. Starts[i] = s /\ i \in 1 .. Len(store.segments)
      BY BodyParts DEF Starts, BodyInv
    <3> QED BY <3>1, BodyParts DEF BodyInv, Listed, Lists, Closable
  <2>2. PICK j \in DOMAIN Items(s) : r = Items(s)[j]
    BY DEF Body!Range, Items
  <2> QED BY <2>1, <2>2 DEF BodyInv, Keyed
<1> QED BY <1>1, <1>2, <1>3, <1>4

-----------------------------------------------------------------------------

\* A step that writes no segment.
LEMMA QuietStep ==
  ASSUME BodyInv, UNCHANGED <<files, store, acked, floor>>, pc \in {"idle", "meta", "file"},
         pc' \in {"idle", "meta", "file", "record"},
         pc' = "record" => store.segments # << >> /\ Body!IsOpen,
         BodyShape', Keyed',
         \A s \in DOMAIN files : (Body!LoadCipher(s).dek)' = Body!LoadCipher(s).dek
  PROVE  BodyInv'
<1>1. /\ Closable = DOMAIN files
      /\ \A s \in DOMAIN files :
           /\ files[s].header /\ Items(s) # << >>
           /\ \A i \in DOMAIN Items(s) : Items(s)[i].whole /\ ~Begun(s, i)
      /\ Body!IsOpen => store.next_seq \notin DOMAIN files
  BY AtRest
<1>2. \A s : Items(s)' = Items(s) /\ \A i : ~Begun(s, i)'
  BY DEF Items, Begun
<1>3. \A s \in DOMAIN files : ~Made(s)'
  BY <1>1 DEF Made
<1>4. Closable' = DOMAIN files /\ Starts' = Starts
  BY DEF Closable, Starts
<1>5. Ordered'
  BY <1>2 DEF BodyInv, Ordered
<1>6. AllWhole'
  BY <1>1, <1>2, <1>3 DEF AllWhole
<1>7. ASSUME NEW s \in DOMAIN files, NEW m, Topped(s, m) PROVE Topped(s, m)'
  BY <1>1, <1>2, <1>7 DEF Topped
<1>8. Listed'
  <2>1. CASE store.next_seq = -1
    BY <2>1 DEF BodyInv, Listed
  <2>2. CASE store.next_seq # -1
    <3>1. /\ Lists(Len(store.segments), Starts, DOMAIN files)
          /\ \A i \in DOMAIN store.segments :
               /\ Topped(store.segments[i].start, store.segments[i].max_seq)
               /\ store.segments[i].dek = Body!LoadCipher(store.segments[i].start).dek
               /\ store.segments[i].start \in DOMAIN files
      <4>1. Lists(Len(store.segments), Starts, DOMAIN files)
        BY <1>1, <2>2 DEF BodyInv, Listed
      <4>2. \A i \in DOMAIN store.segments : Starts[i] = store.segments[i].start /\ Starts[i] \in DOMAIN files
        BY <4>1, BodyParts DEF Starts, Lists, BodyInv
      <4> QED BY <2>2, <4>1, <4>2 DEF BodyInv, Listed
    <3>2. \A s \in DOMAIN files : \A i \in DOMAIN Items(s) : Items(s)[i].seq < store.next_seq
      BY <1>1, <2>2 DEF BodyInv, Listed
    <3>3. \A s \in DOMAIN files : s <= store.next_seq
      BY <2>2 DEF BodyInv, Listed
    <3>4. \A i \in DOMAIN store.segments :
            Topped(store.segments[i].start, store.segments[i].max_seq)'
      BY <1>7, <3>1
    <3> QED BY <1>2, <1>4, <2>2, <3>1, <3>2, <3>3, <3>4 DEF Listed
  <2> QED BY <2>1, <2>2
<1>9. Lasting'
  <2>1. Body!SeqsFresh'
    BY DEF BodyInv, Lasting, Body!SeqsFresh
  <2>2. Lasting
    BY DEF BodyInv
  <2>3. \A r \in acked : r.seq >= floor =>
          \E s \in DOMAIN files' : \E i \in DOMAIN Items(s)' : (Items(s)[i])' = Body!Item(r, TRUE)
    BY <1>2, <2>2 DEF Lasting
  <2>4. \A r \in acked : \E s \in DOMAIN files' : \E i \in DOMAIN Items(s)' :
          r.seq <= (Items(s)[i].seq)' /\ ~Begun(s, i)'
    BY <1>2, <2>2 DEF Lasting
  <2> QED BY <2>1, <2>3, <2>4 DEF Lasting, Body!Item
<1> QED BY <1>5, <1>6, <1>8, <1>9 DEF BodyInv

\* The requests and the operator.
LEMMA BodyAsked ==
  ASSUME BodyInv, Body!BeginAppend \/ Body!Enable \/ Body!Rotate
  PROVE  BodyInv'
<1>1. /\ handle = [active |-> handle.active, previous |-> handle.previous]
      /\ handle.active \in Nat /\ handle.previous \in Nat
      /\ count = [appends |-> count.appends, crashes |-> count.crashes]
      /\ count.appends \in Nat /\ count.crashes \in Nat
  BY DEF BodyInv, BodyShape
<1>2. CASE Body!BeginAppend
  <2>1. /\ UNCHANGED <<files, metas, store, handle, acked, floor>> /\ pc = "idle" /\ Body!IsOpen
        /\ count' = [count EXCEPT !.appends = @ + 1]
        /\ pc' = IF ~Body!NeedNew THEN "record" ELSE IF handle.active # 0 THEN "meta" ELSE "file"
    BY <1>2 DEF Body!BeginAppend
  <2>2. count' \in [appends : Nat, crashes : Nat]
    BY <1>1, <2>1
  <2>3. BodyShape'
    BY <2>1, <2>2, BodyParts DEF BodyInv, BodyShape
  <2>4. \A s : Body!LoadCipher(s)' = Body!LoadCipher(s) /\ Items(s)' = Items(s)
    BY <2>1 DEF Body!LoadCipher, Items
  <2>5. Keyed'
    BY <2>1, <2>4 DEF BodyInv, Keyed
  <2>6. pc' = "record" => store.segments # << >>
    BY <2>1 DEF Body!NeedNew
  <2> QED BY <2>1, <2>3, <2>4, <2>5, <2>6, QuietStep
<1>3. CASE Body!Enable
  <2>1. /\ UNCHANGED <<files, metas, store, pc, count, acked, floor>> /\ ~Body!IsOpen
        /\ handle.active = 0 /\ handle' = [active |-> 1, previous |-> 0]
    BY <1>3 DEF Body!Enable
  <2>2. pc = "idle" /\ DOMAIN metas = {}
    BY <2>1, BodyParts DEF BodyInv, BodyShape, Keyed
  <2>3. BodyShape'
    BY <2>1 DEF BodyInv, BodyShape
  <2>4. \A s : /\ Items(s)' = Items(s) /\ Body!LoadCipher(s)' = Body!LoadCipher(s)
    BY <2>1, <2>2 DEF Body!LoadCipher, Items
  <2>5. Keyed'
    BY <2>1, <2>2, <2>4 DEF BodyInv, Keyed
  <2> QED BY <2>1, <2>2, <2>3, <2>4, <2>5, QuietStep
<1>4. CASE Body!Rotate
  <2>1. /\ UNCHANGED <<files, metas, store, pc, count, acked, floor>> /\ ~Body!IsOpen
        /\ handle.active \in 1 .. MaxKek - 1
        /\ \A s \in DOMAIN files : s \in DOMAIN metas => metas[s].kek = handle.active
        /\ handle' = [active |-> handle.active + 1, previous |-> handle.active]
    BY <1>4 DEF Body!Rotate
  <2>2. pc = "idle" /\ handle.active # 0
    BY <2>1, BodyParts DEF BodyInv, BodyShape
  <2>3. BodyShape'
    BY <1>1, <2>1 DEF BodyInv, BodyShape
  <2>4. \A s : Items(s)' = Items(s) /\ (Body!LoadCipher(s).dek)' = Body!LoadCipher(s).dek
    BY <2>1 DEF Body!LoadCipher, Items
  <2>5. \A s \in DOMAIN files : (Body!LoadCipher(s).ok)'
    BY <1>1, <2>1, <2>2 DEF Body!LoadCipher, Body!Unwraps
  <2>6. handle'.active # 0
    BY <1>1, <2>1
  <2>7. Keyed'
    BY <2>1, <2>2, <2>4, <2>5, <2>6 DEF BodyInv, Keyed
  <2> QED BY <2>1, <2>2, <2>3, <2>4, <2>7, QuietStep
<1> QED BY <1>2, <1>3, <1>4

\* The sidecar comes before the segment.
LEMMA BodyMeta ==
  ASSUME BodyInv, Body!WriteMeta
  PROVE  BodyInv'
<1>1. /\ UNCHANGED <<files, store, handle, count, acked, floor>> /\ pc = "meta" /\ pc' = "file"
      /\ metas' = Body!Put(metas, store.next_seq, Body!Wrap(handle, count.appends))
  BY DEF Body!WriteMeta
<1>2. Body!IsOpen /\ store.next_seq \in Nat
  BY <1>1, BodyParts DEF BodyInv, BodyShape
<1>3. store.next_seq \notin DOMAIN files
  BY <1>1, <1>2, AtRest
<1>4. /\ DOMAIN metas' = DOMAIN metas \cup {store.next_seq}
      /\ metas'[store.next_seq] = Body!Wrap(handle, count.appends)
      /\ \A s \in DOMAIN metas : s # store.next_seq => metas'[s] = metas[s]
      /\ metas' = [s \in DOMAIN metas' |-> metas'[s]]
  BY <1>1 DEF Body!Put
<1>5. \A s \in DOMAIN files : Body!LoadCipher(s)' = Body!LoadCipher(s)
  BY <1>1, <1>3, <1>4 DEF Body!LoadCipher
<1>6. Body!Wrap(handle, count.appends) \in [kek : Nat, dek : Nat]
  BY DEF Body!Wrap, BodyInv, BodyShape
<1>7. BodyShape'
  <2>1. DOMAIN metas' \subseteq Nat /\ metas' \in [DOMAIN metas' -> [kek : Nat, dek : Nat]]
    BY <1>2, <1>4, <1>6 DEF BodyInv, BodyShape
  <2>2. store.next_seq # -1
    BY <1>2
  <2> QED BY <1>1, <2>1, <2>2 DEF BodyInv, BodyShape
<1>8. Keyed'
  <2>1. handle.active # 0
    BY <1>1 DEF BodyInv, Keyed
  <2>2. \A s : Items(s)' = Items(s)
    BY <1>1 DEF Items
  <2> QED BY <1>1, <1>4, <1>5, <2>1, <2>2 DEF BodyInv, Keyed
<1> QED BY <1>1, <1>5, <1>7, <1>8, QuietStep

\* A step that leaves the records and begins none.
LEMMA LastingKept ==
  ASSUME Lasting, UNCHANGED <<acked, floor>>, DOMAIN files \subseteq DOMAIN files',
         \A s \in DOMAIN files : Items(s)' = Items(s), \A s, i : ~Begun(s, i)'
  PROVE  Lasting'
<1>1. ASSUME NEW r \in acked, r.seq >= floor
      PROVE  \E s \in DOMAIN files' : \E i \in DOMAIN Items(s)' : (Items(s)[i])' = Body!Item(r, TRUE)
  <2>1. PICK s \in DOMAIN files : \E i \in DOMAIN Items(s) : Items(s)[i] = Body!Item(r, TRUE)
    BY <1>1 DEF Lasting
  <2>2. PICK i \in DOMAIN Items(s) : Items(s)[i] = Body!Item(r, TRUE)
    BY <2>1
  <2> QED BY <2>1, <2>2
<1>2. ASSUME NEW r \in acked
      PROVE  \E s \in DOMAIN files' : \E i \in DOMAIN Items(s)' :
               r.seq <= (Items(s)[i].seq)' /\ ~Begun(s, i)'
  <2>1. PICK s \in DOMAIN files : \E i \in DOMAIN Items(s) : r.seq <= Items(s)[i].seq
    BY DEF Lasting
  <2>2. PICK i \in DOMAIN Items(s) : r.seq <= Items(s)[i].seq
    BY <2>1
  <2> QED BY <2>1, <2>2
<1>3. Body!SeqsFresh'
  BY DEF Lasting, Body!SeqsFresh
<1> QED BY <1>1, <1>2, <1>3 DEF Lasting, Body!Item

\* create_new finds no file of the name.
LEMMA BodyCreate ==
  ASSUME BodyInv, Body!CreateFile
  PROVE  BodyInv'
<1>1. UNCHANGED <<metas, store, handle, count, acked, floor>> /\ pc = "file"
  BY DEF Body!CreateFile
<1>0. PICK n : n = store.next_seq
  OBVIOUS
<1> USE <1>0
<1>2. Body!IsOpen /\ n \in Nat /\ n # -1
  BY <1>1, BodyParts DEF BodyInv, BodyShape
<1>3. /\ n \notin DOMAIN files /\ Closable = DOMAIN files /\ \A s \in DOMAIN files : s < n
      /\ \A s \in DOMAIN files :
           /\ files[s].header /\ Items(s) # << >>
           /\ \A i \in DOMAIN Items(s) : Items(s)[i].whole /\ ~Begun(s, i)
  BY <1>1, <1>2, AtRest
<1>4. files' = Body!Put(files, n, [header |-> FALSE, items |-> << >>]) /\ pc' = "header"
  BY <1>3 DEF Body!CreateFile
<1>5. /\ DOMAIN files' = DOMAIN files \cup {n} /\ files'[n] = [header |-> FALSE, items |-> << >>]
      /\ \A s \in DOMAIN files : files'[s] = files[s] /\ s # n
      /\ files' = [s \in DOMAIN files' |-> files'[s]]
  BY <1>3, <1>4 DEF Body!Put
<1>6. /\ Items(n)' = << >> /\ DOMAIN Items(n)' = {}
      /\ \A s \in DOMAIN files : Items(s)' = Items(s)
      /\ \A s, i : ~Begun(s, i)'
  BY <1>1, <1>4, <1>5 DEF Items, Begun
<1>7. BodyShape'
  <2>1. \A s \in DOMAIN files' : files'[s] \in [header : BOOLEAN, items : Seq(Recs)] /\ s \in Nat
    <3>1. [header |-> FALSE, items |-> << >>] \in [header : BOOLEAN, items : Seq(Recs)]
      OBVIOUS
    <3> QED BY <1>2, <1>5, <3>1 DEF BodyInv, BodyShape
  <2>2. DOMAIN files' \subseteq Nat /\ files' \in [DOMAIN files' -> [header : BOOLEAN, items : Seq(Recs)]]
    BY <1>5, <2>1
  <2> QED BY <1>1, <1>2, <1>4, <2>2 DEF BodyInv, BodyShape
<1>8. Ordered'
  <2>1. \A s \in DOMAIN files : \A i \in DOMAIN Items(s) : Items(s)[i].seq < n
    BY <1>2, <1>3 DEF BodyInv, Listed
  <2>2. \A s \in DOMAIN files : ~(n < s)
    BY <1>2, <1>3, BodyParts DEF BodyInv
  <2>3. ASSUME NEW s \in DOMAIN files', s = n
        PROVE  \A i \in DOMAIN Items(s)' : FALSE
    BY <1>6, <2>3
  <2>4. ASSUME NEW s \in DOMAIN files
        PROVE  /\ \A i \in DOMAIN Items(s) : s <= Items(s)[i].seq
               /\ \A i, j \in DOMAIN Items(s) : i < j => Items(s)[i].seq < Items(s)[j].seq
               /\ \A u \in DOMAIN files' : s < u => \A i \in DOMAIN Items(s) : Items(s)[i].seq < u
    BY <1>5, <2>1 DEF BodyInv, Ordered
  <2> QED BY <1>5, <1>6, <2>3, <2>4 DEF Ordered
<1>9. AllWhole'
  <2>1. \A s \in DOMAIN files : ~Made(s)'
    BY <1>1, <1>5 DEF Made
  <2>2. Made(n)'
    BY <1>1, <1>4 DEF Made
  <2> QED BY <1>1, <1>3, <1>4, <1>5, <1>6, <2>1, <2>2 DEF AllWhole
<1>c. \A s : Body!LoadCipher(s)' = Body!LoadCipher(s)
  BY <1>1 DEF Body!LoadCipher
<1>10. Keyed'
  <2>1. Body!LoadCipher(n).ok
    <3>1. CASE handle.active = 0
      BY <3>1 DEF BodyInv, Keyed, Body!LoadCipher
    <3>2. CASE handle.active # 0
      BY <1>1, <3>2 DEF BodyInv, Keyed, Body!LoadCipher, Body!Unwraps, Body!Wrap
    <3> QED BY <3>1, <3>2
  <2>2. \A s \in DOMAIN files' :
          (Body!LoadCipher(s).ok)' /\ \A i \in DOMAIN Items(s)' : (Items(s)[i].dek)' = (Body!LoadCipher(s).dek)'
    BY <1>5, <1>6, <1>c, <2>1 DEF BodyInv, Keyed
  <2>3. (handle.active = 0 => DOMAIN metas = {}) /\ (handle.active # 0 =>
          n \in DOMAIN metas /\ metas[n] = Body!Wrap(handle, count.appends))
    BY <1>1 DEF BodyInv, Keyed
  <2> QED BY <1>1, <1>4, <2>2, <2>3 DEF Keyed
<1>11. Listed'
  <2>1. Closable' = DOMAIN files /\ Starts' = Starts
    BY <1>1, <1>3, <1>4, <1>5 DEF Closable, Starts
  <2>2. /\ Lists(Len(store.segments), Starts, DOMAIN files)
        /\ \A i \in DOMAIN store.segments :
             /\ Topped(store.segments[i].start, store.segments[i].max_seq)
             /\ store.segments[i].dek = Body!LoadCipher(store.segments[i].start).dek
    BY <1>2, <1>3 DEF BodyInv, Listed
  <2>3. \A i \in DOMAIN store.segments : store.segments[i].start \in DOMAIN files
    <3>1. \A i \in DOMAIN store.segments : Starts[i] = store.segments[i].start /\ Starts[i] \in DOMAIN files
      BY <2>2, BodyParts DEF Starts, Lists, BodyInv
    <3> QED BY <3>1
  <2>4. \A s \in DOMAIN files : \A m : Topped(s, m) => Topped(s, m)'
    BY <1>3, <1>6 DEF Topped
  <2>5. \A s \in DOMAIN files' : \A i \in DOMAIN Items(s)' : (Items(s)[i].seq)' < n
    BY <1>2, <1>3, <1>5, <1>6 DEF BodyInv, Listed
  <2>6. \A s \in DOMAIN files' : s <= n
    <3>1. \A s \in DOMAIN files : s <= n
      BY <1>2 DEF BodyInv, Listed
    <3> QED BY <1>2, <1>5, <3>1
  <2>7. \A i \in DOMAIN store.segments :
          /\ Topped(store.segments[i].start, store.segments[i].max_seq)'
          /\ store.segments[i].dek = (Body!LoadCipher(store.segments[i].start).dek)'
    BY <1>1, <1>c, <2>2, <2>3, <2>4
  <2> QED BY <1>1, <1>2, <1>4, <1>5, <1>6, <2>1, <2>2, <2>5, <2>6, <2>7 DEF Listed
<1>12. Lasting'
  <2>1. DOMAIN files \subseteq DOMAIN files' /\ Lasting
    BY <1>5 DEF BodyInv
  <2> QED BY <1>1, <1>6, <2>1, LastingKept
<1> QED BY <1>7, <1>8, <1>9, <1>10, <1>11, <1>12 DEF BodyInv

LEMMA HeaderSet ==
  ASSUME NEW x, NEW b, NEW z, x = [header |-> b, items |-> z]
  PROVE  /\ [x EXCEPT !.header = TRUE].header /\ [x EXCEPT !.header = TRUE].items = z
         /\ [x EXCEPT !.header = TRUE] \in [header : BOOLEAN, items : {z}]
<1>1. [x EXCEPT !.header = TRUE].header
  OBVIOUS
<1>2. [x EXCEPT !.header = TRUE].items = z
  OBVIOUS
<1>3. [x EXCEPT !.header = TRUE] \in [header : BOOLEAN, items : {z}]
  OBVIOUS
<1> QED BY <1>1, <1>2, <1>3

\* The segment becomes the writable one.
LEMMA BodyHeader ==
  ASSUME BodyInv, Body!WriteHeader
  PROVE  BodyInv'
<1>0. PICK n, k, g :
        /\ n = store.next_seq /\ k = Len(store.segments)
        /\ g = [start |-> n, max_seq |-> -1, size |-> 0,
                dek |-> IF handle.active # 0 THEN count.appends ELSE 0]
  OBVIOUS
<1>z. n = store.next_seq /\ k = Len(store.segments)
  BY <1>0
<1> USE <1>z
<1>1. /\ UNCHANGED <<metas, handle, count, acked, floor>> /\ pc = "header" /\ pc' = "record"
      /\ files' = [files EXCEPT ![n].header = TRUE]
      /\ store' = [store EXCEPT !.segments = Append(@, g)]
  BY <1>0 DEF Body!WriteHeader, Body!NoSeq
<1>2. Body!IsOpen /\ n \in Nat /\ n # -1
  BY <1>1, BodyParts DEF BodyInv, BodyShape
<1>3. /\ n \in DOMAIN files /\ \A s \in DOMAIN files : s <= n
      /\ \A s, i : ~Begun(s, i) /\ ~Begun(s, i)'
      /\ Closable = DOMAIN files \ {n} /\ Items(n) = << >>
  BY <1>1, <1>2 DEF BodyInv, Listed, Begun, Closable, AllWhole, Made
<1>4. /\ store.segments \in Seq(Segs) /\ k \in Nat /\ DOMAIN store.segments = 1 .. k
      /\ store = [segments |-> store.segments, next_seq |-> n]
      /\ \A s \in DOMAIN files : files[s] = [header |-> files[s].header, items |-> Items(s)]
      /\ files = [s \in DOMAIN files |-> files[s]]
  BY BodyParts DEF BodyInv
<1>5. /\ DOMAIN files' = DOMAIN files /\ files'[n].header /\ files'[n].items = << >>
      /\ files'[n] \in [header : BOOLEAN, items : Seq(Recs)]
      /\ \A s \in DOMAIN files : s # n => files'[s] = files[s]
      /\ files' = [s \in DOMAIN files' |-> files'[s]]
  <2>1. PICK b : files[n] = [header |-> b, items |-> << >>]
    BY <1>3, <1>4
  <2>2. /\ DOMAIN files' = DOMAIN files /\ files'[n] = [files[n] EXCEPT !.header = TRUE]
        /\ \A s \in DOMAIN files : s # n => files'[s] = files[s]
        /\ files' = [s \in DOMAIN files' |-> files'[s]]
    <3>1. files' = [s \in DOMAIN files |->
                      IF s = n THEN [files[n] EXCEPT !.header = TRUE] ELSE files[s]]
      BY <1>1
    <3> QED BY <1>3, <3>1
  <2>3. /\ [files[n] EXCEPT !.header = TRUE].header /\ [files[n] EXCEPT !.header = TRUE].items = << >>
        /\ [files[n] EXCEPT !.header = TRUE] \in [header : BOOLEAN, items : {<< >>}]
    BY <2>1, HeaderSet
  <2>4. << >> \in Seq(Recs)
    OBVIOUS
  <2> QED BY <2>2, <2>3, <2>4
<1>6. \A s \in DOMAIN files : Items(s)' = Items(s)
  BY <1>3, <1>5 DEF Items
<1>g. g \in Segs
  BY <1>0, <1>2 DEF Segs, BodyInv, BodyShape
<1>7. /\ store'.segments = Append(store.segments, g) /\ store'.next_seq = n
      /\ store' = [segments |-> Append(store.segments, g), next_seq |-> n]
  BY <1>1, <1>4
<1>8. /\ Len(store'.segments) = k + 1 /\ store'.segments[k + 1] = g /\ store'.segments # << >>
      /\ DOMAIN store'.segments = 1 .. k + 1
      /\ \A i \in 1 .. k : store'.segments[i] = store.segments[i]
      /\ store'.segments \in Seq(Segs)
  BY <1>4, <1>7, <1>g
<1>9. BodyShape'
  <2>1. \A s \in DOMAIN files' : files'[s] \in [header : BOOLEAN, items : Seq(Recs)]
    BY <1>5 DEF BodyInv, BodyShape
  <2>2. DOMAIN files' \subseteq Nat /\ files' \in [DOMAIN files' -> [header : BOOLEAN, items : Seq(Recs)]]
    BY <1>5, <2>1 DEF BodyInv, BodyShape
  <2>3. store' \in [segments : Seq(Segs), next_seq : Nat \cup {-1}]
    BY <1>2, <1>7, <1>8
  <2> QED BY <1>1, <1>2, <1>7, <2>2, <2>3 DEF BodyInv, BodyShape
<1>10. Ordered'
  BY <1>5, <1>6 DEF BodyInv, Ordered
<1>11. AllWhole'
  <2>1. \A s : Made(s)' <=> Made(s)
    BY <1>1, <1>7 DEF Made
  <2>2. \A s \in DOMAIN files : s # n => files[s].header
    BY <1>1 DEF BodyInv, AllWhole
  <2>3. files'[n].header
    BY <1>5
  <2>4. \A s \in DOMAIN files' : files'[s].header
    BY <1>5, <2>2, <2>3
  <2> QED BY <1>1, <1>3, <1>5, <1>6, <2>1, <2>4 DEF BodyInv, AllWhole
<1>c. \A s : Body!LoadCipher(s)' = Body!LoadCipher(s)
  BY <1>1 DEF Body!LoadCipher
<1>12. Keyed'
  BY <1>1, <1>7, <1>5, <1>6, <1>c DEF BodyInv, Keyed
<1>13. Listed'
  <2>1. Closable' = DOMAIN files
    BY <1>1, <1>5 DEF Closable
  <2>2. Lists(k, Starts, DOMAIN files \ {n})
    BY <1>2, <1>3 DEF BodyInv, Listed
  <2>3. /\ \A i \in 1 .. k : Starts'[i] = Starts[i] /\ Starts[i] = store.segments[i].start
        /\ Starts'[k + 1] = n /\ Starts' = [i \in 1 .. k + 1 |-> Starts'[i]]
    BY <1>0, <1>4, <1>8 DEF Starts
  <2>4. /\ \A i \in 1 .. k : Starts[i] \in DOMAIN files \ {n}
        /\ \A s \in DOMAIN files \ {n} : \E i \in 1 .. k : Starts[i] = s
        /\ \A i, j \in 1 .. k : i < j => Starts[i] < Starts[j]
    BY <2>2 DEF Lists
  <2>5. \A i \in 1 .. k : Starts[i] < n
    <3>1. \A s \in DOMAIN files : s \in Nat
      BY BodyParts DEF BodyInv
    <3> QED BY <1>2, <1>3, <2>4, <3>1
  <2>6. Lists(k + 1, Starts', DOMAIN files)
    <3>1. \A i \in 1 .. k + 1 : i \in 1 .. k \/ i = k + 1
      BY <1>4
    <3>2. \A s \in DOMAIN files : \E i \in 1 .. k + 1 : Starts'[i] = s
      <4>1. k + 1 \in 1 .. k + 1 /\ \A i \in 1 .. k : i \in 1 .. k + 1
        BY <1>4
      <4> QED BY <2>3, <2>4, <4>1
    <3>3. Starts' \in [1 .. k + 1 -> DOMAIN files]
      BY <1>3, <2>3, <2>4, <3>1
    <3>4. ASSUME NEW i \in 1 .. k + 1, NEW j \in 1 .. k + 1, i < j PROVE Starts'[i] < Starts'[j]
      <4>1. i \in 1 .. k
        BY <1>4, <3>4
      <4>2. CASE j \in 1 .. k
        BY <2>3, <2>4, <3>4, <4>1, <4>2
      <4>3. CASE j = k + 1
        BY <2>3, <2>5, <4>1, <4>3
      <4> QED BY <3>1, <4>2, <4>3
    <3> QED BY <3>2, <3>3, <3>4 DEF Lists
  <2>7. \A i \in 1 .. k + 1 :
          /\ Topped(store.segments[i].start, store.segments[i].max_seq)'
          /\ store'.segments[i].dek = Body!LoadCipher(store'.segments[i].start).dek
    <3>1. ASSUME NEW i \in 1 .. k
          PROVE  /\ Topped(store.segments[i].start, store.segments[i].max_seq)'
                 /\ store'.segments[i].dek = Body!LoadCipher(store'.segments[i].start).dek
      <4>1. /\ Topped(store.segments[i].start, store.segments[i].max_seq)
            /\ store.segments[i].dek = Body!LoadCipher(store.segments[i].start).dek
        BY <1>2, <1>4 DEF BodyInv, Listed
      <4>2. store.segments[i].start \in DOMAIN files
        BY <2>3, <2>4
      <4>3. Topped(store.segments[i].start, store.segments[i].max_seq)'
        <5>1. \A s \in DOMAIN files : \A m : Topped(s, m) => Topped(s, m)'
          BY <1>3, <1>6 DEF Topped
        <5> QED BY <1>8, <4>1, <4>2, <5>1
      <4> QED BY <1>8, <4>1, <4>3
    <3>2. Topped(n, -1)'
      BY <1>3, <1>6 DEF Topped
    <3>3. g.dek = Body!LoadCipher(n).dek /\ g.start = n /\ g.max_seq = -1
      <4>1. CASE handle.active = 0
        BY <1>0, <4>1 DEF BodyInv, Keyed, Body!LoadCipher
      <4>2. CASE handle.active # 0
        BY <1>0, <1>1, <4>2 DEF BodyInv, Keyed, Body!LoadCipher, Body!Wrap
      <4> QED BY <1>0, <4>1, <4>2
    <3>4. \A i \in 1 .. k + 1 : i \in 1 .. k \/ i = k + 1
      BY <1>4
    <3> QED BY <1>8, <3>1, <3>2, <3>3, <3>4
  <2>8. \A s \in DOMAIN files : \A i \in DOMAIN Items(s) : Items(s)[i].seq < n
    BY <1>2, <1>3 DEF BodyInv, Listed
  <2>9. (store.next_seq # -1)' /\ ~(store.next_seq = -1)'
    BY <1>2, <1>7
  <2> QED BY <1>1, <1>3, <1>5, <1>6, <1>7, <1>8, <1>c, <2>1, <2>6, <2>7, <2>8, <2>9 DEF Listed
<1>14. Lasting'
  <2>1. DOMAIN files \subseteq DOMAIN files' /\ Lasting
    BY <1>5 DEF BodyInv
  <2> QED BY <1>1, <1>3, <1>6, <2>1, LastingKept
<1> QED BY <1>9, <1>10, <1>11, <1>12, <1>13, <1>14 DEF BodyInv

LEMMA AppendIs ==
  ASSUME NEW S, NEW s \in Seq(S), NEW x \in S
  PROVE  /\ Append(s, x) \in Seq(S) /\ Len(Append(s, x)) = Len(s) + 1 /\ Append(s, x) # << >>
         /\ DOMAIN Append(s, x) = 1 .. Len(s) + 1 /\ Append(s, x)[Len(s) + 1] = x
         /\ \A i \in 1 .. Len(s) : Append(s, x)[i] = s[i]
OBVIOUS

LEMMA ItemsSet ==
  ASSUME NEW x, NEW b, NEW z, x = [header |-> b, items |-> z], NEW y
  PROVE  [x EXCEPT !.items = y] = [header |-> b, items |-> y]
<1>1. [x EXCEPT !.items = y] \in [header : {b}, items : {y}]
  OBVIOUS
<1>2. ASSUME NEW u \in [header : {b}, items : {y}] PROVE u = [header |-> b, items |-> y]
  OBVIOUS
<1> QED BY <1>1, <1>2

\* The writable segment is the last one, and has the highest numbers.
LEMMA WritableIs ==
  ASSUME BodyInv, pc \in {"record", "payload"}
  PROVE  /\ Body!IsOpen /\ store.next_seq \in Nat /\ Len(store.segments) \in Nat \ {0}
         /\ Body!Writable = store.segments[Len(store.segments)]
         /\ Len(store.segments) \in DOMAIN store.segments
         /\ Body!Writable \in Segs /\ Body!Writable.start \in DOMAIN files
         /\ \A s \in DOMAIN files : s <= Body!Writable.start
         /\ Topped(Body!Writable.start, Body!Writable.max_seq)
         /\ Body!Writable.dek = Body!LoadCipher(Body!Writable.start).dek
         /\ \A i \in DOMAIN store.segments :
              /\ store.segments[i].start \in DOMAIN files
              /\ i # Len(store.segments) => store.segments[i].start # Body!Writable.start
<1> DEFINE k == Len(store.segments)
<1>1. Body!IsOpen /\ store.next_seq \in Nat /\ store.next_seq # -1
  BY BodyParts DEF BodyInv, BodyShape
<1>2. store.segments \in Seq(Segs) /\ store.segments # << >> /\ DOMAIN store.segments = 1 .. k
  BY <1>1, BodyParts DEF BodyInv, Listed
<1>3. k \in Nat \ {0} /\ k \in DOMAIN store.segments
  BY <1>2
<1>4. Body!Writable = store.segments[k]
  BY DEF Body!Writable, Body!Last
<1>5. Lists(k, Starts, DOMAIN files) /\ \A i \in 1 .. k : Starts[i] = store.segments[i].start
  BY <1>1 DEF BodyInv, Listed, Closable, Starts
<1>6. \A i \in 1 .. k : Starts[i] \in DOMAIN files /\ Starts[i] \in Nat
  BY <1>5, BodyParts DEF Lists, BodyInv
<1>7. \A i \in 1 .. k : i # k => Starts[i] < Starts[k]
  <2>1. \A i \in 1 .. k : i # k => i < k
    BY <1>3
  <2> QED BY <1>2, <1>3, <1>5, <2>1 DEF Lists
<1>8. ASSUME NEW s \in DOMAIN files PROVE s <= Starts[k]
  <2>1. PICK i \in 1 .. k : Starts[i] = s
    BY <1>5 DEF Lists
  <2> QED BY <1>2, <1>3, <1>6, <1>7, <2>1
<1>9. \A i \in 1 .. k : i # k => Starts[i] # Starts[k]
  BY <1>2, <1>3, <1>6, <1>7
<1>10. /\ Topped(store.segments[k].start, store.segments[k].max_seq)
       /\ store.segments[k].dek = Body!LoadCipher(store.segments[k].start).dek
  BY <1>1, <1>3 DEF BodyInv, Listed
<1>11. store.segments[k] \in Segs
  BY <1>2, <1>3
<1> QED BY <1>1, <1>2, <1>3, <1>4, <1>5, <1>6, <1>8, <1>9, <1>10, <1>11

\* The header of the record, at the end of the writable segment.
LEMMA BodyRecord ==
  ASSUME BodyInv, Body!WriteRecord
  PROVE  BodyInv'
<1>0. PICK n, k, a, r, l :
        /\ n = store.next_seq /\ k = Len(store.segments) /\ a = Body!Writable.start
        /\ r = Body!Item(Body!Record, FALSE) /\ l = Len(Items(a))
  OBVIOUS
<1>z. n = store.next_seq /\ k = Len(store.segments) /\ a = Body!Writable.start
  BY <1>0
<1> USE <1>z
<1>1. UNCHANGED <<metas, store, handle, count, acked, floor>> /\ pc = "record"
  BY DEF Body!WriteRecord
<1>2. /\ Body!IsOpen /\ n \in Nat /\ n # -1 /\ a \in DOMAIN files /\ a \in Nat
      /\ \A s \in DOMAIN files : s <= a /\ s \in Nat
      /\ Topped(a, Body!Writable.max_seq) /\ Body!Writable.max_seq \in Int
      /\ Body!Writable.dek = Body!LoadCipher(a).dek
      /\ \A s, i : ~Begun(s, i)
  <2>1. Body!Writable.max_seq \in Int
    BY <1>1, WritableIs DEF Segs
  <2> QED BY <1>1, <2>1, WritableIs, BodyParts DEF BodyInv, Begun
<1>3. /\ \A s \in DOMAIN files : s <= n
      /\ \A s \in DOMAIN files : \A i \in DOMAIN Items(s) : Items(s)[i].seq < n
  BY <1>2 DEF BodyInv, Listed
<1>4. ~(n <= Body!Writable.max_seq)
  <2>1. CASE Body!Writable.max_seq = -1
    BY <1>2, <2>1
  <2>2. CASE Body!Writable.max_seq # -1
    <3>1. PICK i \in DOMAIN Items(a) : Items(a)[i].seq = Body!Writable.max_seq
      BY <1>2, <2>2 DEF Topped
    <3> QED BY <1>2, <1>3, <3>1
  <2> QED BY <2>1, <2>2
<1>5. files' = [files EXCEPT ![a].items = Append(@, r)] /\ pc' = "payload"
  BY <1>0, <1>4 DEF Body!WriteRecord
<1>6. /\ files = [s \in DOMAIN files |-> files[s]] /\ Items(a) \in Seq(Recs) /\ l \in Nat
      /\ DOMAIN Items(a) = 1 .. l
      /\ \A s \in DOMAIN files : files[s] = [header |-> files[s].header, items |-> Items(s)]
  BY <1>0, <1>2, BodyParts DEF BodyInv
<1>7. /\ DOMAIN files' = DOMAIN files /\ Items(a)' = Append(Items(a), r)
      /\ files'[a] \in [header : BOOLEAN, items : {Append(Items(a), r)}]
      /\ \A s \in DOMAIN files : s # a => files'[s] = files[s] /\ Items(s)' = Items(s)
      /\ \A s \in DOMAIN files : files'[s].header <=> files[s].header
      /\ files' = [s \in DOMAIN files' |-> files'[s]]
  <2>1. files' = [s \in DOMAIN files |->
                    IF s = a THEN [files[a] EXCEPT !.items = Append(Items(a), r)] ELSE files[s]]
    BY <1>5 DEF Items
  <2>p. PICK b \in BOOLEAN : files[a] = [header |-> b, items |-> Items(a)]
    BY <1>2, <1>6, BodyParts DEF BodyInv
  <2>2. [files[a] EXCEPT !.items = Append(Items(a), r)] = [header |-> b, items |-> Append(Items(a), r)]
    BY <2>p, ItemsSet
  <2>3. /\ DOMAIN files' = DOMAIN files
        /\ files'[a] = [header |-> b, items |-> Append(Items(a), r)]
        /\ \A s \in DOMAIN files : s # a => files'[s] = files[s]
        /\ files' = [s \in DOMAIN files' |-> files'[s]]
    BY <1>2, <2>1, <2>2
  <2>4. files'[a].header <=> files[a].header
    BY <2>p, <2>3
  <2>7. files'[a] \in [header : BOOLEAN, items : {Append(Items(a), r)}]
    BY <2>3
  <2>5. Items(a)' = Append(Items(a), r)
    BY <2>3 DEF Items
  <2>6. \A s \in DOMAIN files : s # a => Items(s)' = Items(s)
    BY <2>3 DEF Items
  <2> QED BY <2>3, <2>4, <2>5, <2>6, <2>7
<1>8. r \in Recs /\ r.seq = n /\ r.whole = FALSE /\ r.dek = Body!LoadCipher(a).dek
  <2>1. Body!Writable \in Segs
    BY <1>1, WritableIs
  <2>2. Body!Writable.dek \in Nat /\ count.appends \in Nat
    BY <2>1 DEF Segs, BodyInv, BodyShape
  <2> QED BY <1>0, <1>2, <2>2 DEF Body!Item, Body!Record, Recs
<1>9. /\ Items(a)' \in Seq(Recs) /\ Len(Items(a)') = l + 1 /\ Items(a)' # << >>
      /\ DOMAIN Items(a)' = 1 .. l + 1 /\ Items(a)'[l + 1] = r
      /\ \A i \in 1 .. l : Items(a)'[i] = Items(a)[i]
  <2>1. l = Len(Items(a)) /\ Items(a) \in Seq(Recs) /\ r \in Recs
    BY <1>0, <1>6, <1>8
  <2>2. /\ Append(Items(a), r) \in Seq(Recs) /\ Len(Append(Items(a), r)) = l + 1
        /\ Append(Items(a), r) # << >> /\ DOMAIN Append(Items(a), r) = 1 .. l + 1
        /\ Append(Items(a), r)[l + 1] = r /\ \A i \in 1 .. l : Append(Items(a), r)[i] = Items(a)[i]
    BY <2>1, AppendIs
  <2> QED BY <1>7, <2>2
<1>10. \A s, i : Begun(s, i)' <=> s = a /\ i = l + 1
  BY <1>1, <1>5, <1>9 DEF Begun, Body!Writable
<1>i. \A i \in 1 .. l + 1 : (i \in 1 .. l /\ i # l + 1) \/ i = l + 1
  BY <1>6
<1>e. \A s \in DOMAIN files : \A i \in DOMAIN Items(s) :
        i \in DOMAIN Items(s)' /\ (Items(s)[i])' = Items(s)[i] /\ ~Begun(s, i)'
  <2>1. \A i \in 1 .. l : i \in 1 .. l + 1 /\ i # l + 1
    BY <1>6
  <2>2. ASSUME NEW s \in DOMAIN files, s = a, NEW i \in DOMAIN Items(s)
        PROVE  i \in DOMAIN Items(s)' /\ (Items(s)[i])' = Items(s)[i] /\ ~Begun(s, i)'
    BY <1>6, <1>9, <1>10, <2>1, <2>2
  <2>3. ASSUME NEW s \in DOMAIN files, s # a, NEW i \in DOMAIN Items(s)
        PROVE  i \in DOMAIN Items(s)' /\ (Items(s)[i])' = Items(s)[i] /\ ~Begun(s, i)'
    BY <1>7, <1>10, <2>3
  <2> QED BY <2>2, <2>3
<1>11. BodyShape'
  <2>1. \A s \in DOMAIN files' : files'[s] \in [header : BOOLEAN, items : Seq(Recs)]
    <3>2. files'[a] \in [header : BOOLEAN, items : Seq(Recs)]
      <4>1. PICK y : y = Append(Items(a), r)
        OBVIOUS
      <4>2. files'[a] \in [header : BOOLEAN, items : {y}] /\ y \in Seq(Recs)
        <5>1. files'[a] \in [header : BOOLEAN, items : {y}]
          BY <1>7, <4>1
        <5>2. y = Items(a)' /\ Items(a)' \in Seq(Recs)
          BY <1>7, <1>9, <4>1
        <5> QED BY <5>1, <5>2
      <4> QED BY <4>2
    <3> QED BY <1>7, <3>2 DEF BodyInv, BodyShape
  <2>2. DOMAIN files' \subseteq Nat /\ files' \in [DOMAIN files' -> [header : BOOLEAN, items : Seq(Recs)]]
    BY <1>7, <2>1 DEF BodyInv, BodyShape
  <2> QED BY <1>1, <1>2, <1>5, <2>2 DEF BodyInv, BodyShape
<1>12. Ordered'
  <2>1. ASSUME NEW s \in DOMAIN files, s # a
        PROVE  /\ \A i \in DOMAIN Items(s)' : s <= (Items(s)[i].seq)'
               /\ \A i, j \in DOMAIN Items(s)' : i < j => (Items(s)[i].seq)' < (Items(s)[j].seq)'
               /\ \A u \in DOMAIN files : s < u => \A i \in DOMAIN Items(s)' : (Items(s)[i].seq)' < u
    BY <1>7, <2>1 DEF BodyInv, Ordered
  <2>2. \A i \in 1 .. l : a <= Items(a)[i].seq /\ Items(a)[i].seq < n
    BY <1>2, <1>3, <1>6 DEF BodyInv, Ordered
  <2>3. \A i \in 1 .. l + 1 : a <= Items(a)'[i].seq
    BY <1>3, <1>8, <1>9, <1>i, <1>2, <2>2
  <2>4. ASSUME NEW i \in 1 .. l + 1, NEW j \in 1 .. l + 1, i < j
        PROVE  Items(a)'[i].seq < Items(a)'[j].seq
    <3>1. i \in 1 .. l
      BY <1>6, <2>4
    <3>2. CASE j \in 1 .. l
      <4>1. Items(a)[i].seq < Items(a)[j].seq
        BY <1>2, <1>6, <2>4, <3>1, <3>2 DEF BodyInv, Ordered
      <4>2. Items(a)'[i] = Items(a)[i] /\ Items(a)'[j] = Items(a)[j]
        BY <1>9, <3>1, <3>2
      <4> QED BY <4>1, <4>2
    <3>3. CASE j = l + 1
      BY <1>8, <1>9, <2>2, <3>1, <3>3
    <3> QED BY <1>i, <3>2, <3>3
  <2>5. \A u \in DOMAIN files : ~(a < u)
    BY <1>2
  <2>6. ASSUME NEW s \in DOMAIN files, s = a
        PROVE  /\ \A i \in DOMAIN Items(s)' : s <= (Items(s)[i].seq)'
               /\ \A i, j \in DOMAIN Items(s)' : i < j => (Items(s)[i].seq)' < (Items(s)[j].seq)'
               /\ \A u \in DOMAIN files : s < u => \A i \in DOMAIN Items(s)' : (Items(s)[i].seq)' < u
    BY <1>9, <2>3, <2>4, <2>5, <2>6
  <2> QED BY <1>7, <2>1, <2>6 DEF Ordered
<1>13. AllWhole'
  <2>1. \A s \in DOMAIN files : s # a => s # n
    BY <1>2, <1>3
  <2>2. \A s \in DOMAIN files : s # a => Items(s) # << >>
    BY <2>1 DEF BodyInv, AllWhole, Made
  <2>3. \A s : ~Made(s)'
    BY <1>5 DEF Made
  <2>4. \A s \in DOMAIN files : files[s].header
    BY <1>1 DEF BodyInv, AllWhole
  <2>5. \A s \in DOMAIN files : \A i \in DOMAIN Items(s) : Items(s)[i].whole
    BY <1>2 DEF BodyInv, AllWhole
  <2>6. \A i \in 1 .. l + 1 : Items(a)'[i].whole <=> i # l + 1
    <3>1. Items(a)'[l + 1].whole = FALSE
      BY <1>8, <1>9
    <3>2. \A i \in 1 .. l : Items(a)'[i] = Items(a)[i] /\ Items(a)[i].whole
      BY <1>2, <1>6, <1>9, <2>5
    <3> QED BY <1>i, <3>1, <3>2
  <2>7. \A s \in DOMAIN files : \A i \in DOMAIN Items(s)' : (Items(s)[i].whole)' <=> ~Begun(s, i)'
    <3>1. ASSUME NEW s \in DOMAIN files, s # a, NEW i \in DOMAIN Items(s)'
          PROVE  (Items(s)[i].whole)' <=> ~Begun(s, i)'
      BY <1>7, <1>10, <2>5, <3>1
    <3>2. ASSUME NEW i \in DOMAIN Items(a)' PROVE (Items(a)[i].whole)' <=> ~Begun(a, i)'
      BY <1>9, <1>10, <2>6
    <3> QED BY <3>1, <3>2
  <2>8. \A s \in DOMAIN files : Items(s)' # << >>
    BY <1>7, <1>9, <2>2
  <2>9. \A s \in DOMAIN files : files'[s].header
    BY <1>7, <2>4
  <2> QED BY <1>5, <1>7, <2>3, <2>7, <2>8, <2>9 DEF AllWhole
<1>c. \A s : Body!LoadCipher(s)' = Body!LoadCipher(s)
  BY <1>1 DEF Body!LoadCipher
<1>14. Keyed'
  <2>1. ASSUME NEW i \in DOMAIN Items(a)' PROVE (Items(a)[i].dek)' = Body!LoadCipher(a).dek
    <3>1. \A x \in 1 .. l : Items(a)[x].dek = Body!LoadCipher(a).dek
      BY <1>2, <1>6 DEF BodyInv, Keyed
    <3> QED BY <1>8, <1>9, <1>i, <3>1
  <2>2. ASSUME NEW s \in DOMAIN files, s # a, NEW i \in DOMAIN Items(s)'
        PROVE  (Items(s)[i].dek)' = Body!LoadCipher(s).dek
    BY <1>7, <2>2 DEF BodyInv, Keyed
  <2>3. \A s \in DOMAIN files : Body!LoadCipher(s).ok
    BY DEF BodyInv, Keyed
  <2>4. handle.active = 0 => DOMAIN metas = {}
    BY DEF BodyInv, Keyed
  <2>5. \A s \in DOMAIN files' :
          /\ (Body!LoadCipher(s).ok)'
          /\ \A i \in DOMAIN Items(s)' : (Items(s)[i].dek)' = (Body!LoadCipher(s).dek)'
    BY <1>7, <1>c, <2>1, <2>2, <2>3
  <2> QED BY <1>1, <1>5, <2>4, <2>5 DEF Keyed
<1>15. Listed'
  <2>1. Closable' = DOMAIN files /\ Starts' = Starts /\ Closable = DOMAIN files
    BY <1>1, <1>5, <1>7 DEF Closable, Starts
  <2>2. /\ Lists(k, Starts, DOMAIN files) /\ store.segments # << >>
        /\ \A i \in DOMAIN store.segments :
             /\ Topped(store.segments[i].start, store.segments[i].max_seq)
             /\ store.segments[i].dek = Body!LoadCipher(store.segments[i].start).dek
             /\ store.segments[i].start \in DOMAIN files
    BY <1>1, <1>2, <2>1, WritableIs DEF BodyInv, Listed
  <2>3. ASSUME NEW s \in DOMAIN files, NEW m, Topped(s, m) PROVE Topped(s, m)'
    <3>1. CASE s # a
      BY <1>2, <1>7, <1>10, <2>3, <3>1 DEF Topped
    <3>2. CASE s = a
      <4>1. \A i \in 1 .. l : Items(a)[i].seq <= m
        BY <1>2, <1>6, <2>3, <3>2 DEF Topped
      <4>2. \A i \in DOMAIN Items(a)' : ~Begun(a, i)' => (Items(a)[i].seq)' <= m
        BY <1>9, <1>10, <1>i, <4>1
      <4>3. m # -1 => \E i \in 1 .. l : Items(a)[i].seq = m
        BY <1>6, <2>3, <3>2 DEF Topped
      <4>4. \A i \in 1 .. l : i \in 1 .. l + 1 /\ i # l + 1
        BY <1>6
      <4>5. m # -1 => \E i \in DOMAIN Items(a)' : ~Begun(a, i)' /\ (Items(a)[i].seq)' = m
        BY <1>9, <1>10, <4>3, <4>4
      <4> QED BY <3>2, <4>2, <4>5 DEF Topped
    <3> QED BY <3>1, <3>2
  <2>4. \A i \in DOMAIN store.segments :
          Topped(store.segments[i].start, store.segments[i].max_seq)'
    BY <1>1, <2>2, <2>3
  <2>5. \A s \in DOMAIN files : \A i \in DOMAIN Items(s)' :
          IF Begun(s, i)' THEN (Items(s)[i].seq)' = n ELSE (Items(s)[i].seq)' < n
    <3>1. ASSUME NEW s \in DOMAIN files, s # a, NEW i \in DOMAIN Items(s)'
          PROVE  ~Begun(s, i)' /\ (Items(s)[i].seq)' < n
      BY <1>3, <1>7, <1>10, <3>1
    <3>2. ASSUME NEW i \in DOMAIN Items(a)'
          PROVE  IF Begun(a, i)' THEN (Items(a)[i].seq)' = n ELSE (Items(a)[i].seq)' < n
      <4>1. CASE i = l + 1
        BY <1>8, <1>9, <1>10, <4>1
      <4>2. CASE i \in 1 .. l /\ i # l + 1
        BY <1>2, <1>3, <1>6, <1>9, <1>10, <4>2
      <4> QED BY <1>9, <1>i, <4>1, <4>2
    <3> QED BY <3>1, <3>2
  <2>6. Body!Writable' = Body!Writable /\ Body!Record' = Body!Record
    BY <1>1 DEF Body!Writable, Body!Record
  <2>7. (Body!Item(Body!Record, FALSE))' = r
    BY <1>0, <2>6 DEF Body!Item
  <2>8. Items(Body!Writable.start)' = Items(a)'
    BY <2>6 DEF Items
  <2> QED BY <1>1, <1>2, <1>3, <1>5, <1>7, <1>9, <1>c, <2>1, <2>2, <2>4, <2>5, <2>6, <2>7, <2>8 DEF Listed
<1>16. Lasting'
  <2>1. ASSUME NEW q \in acked, q.seq >= floor
        PROVE  \E s \in DOMAIN files' : \E i \in DOMAIN Items(s)' : (Items(s)[i])' = Body!Item(q, TRUE)
    <3>1. PICK s \in DOMAIN files : \E i \in DOMAIN Items(s) : Items(s)[i] = Body!Item(q, TRUE)
      BY <2>1 DEF BodyInv, Lasting
    <3>2. PICK i \in DOMAIN Items(s) : Items(s)[i] = Body!Item(q, TRUE)
      BY <3>1
    <3>3. i \in DOMAIN Items(s)' /\ (Items(s)[i])' = Items(s)[i]
      BY <1>7, <1>e
    <3>4. s \in DOMAIN files' /\ (Items(s)[i])' = Body!Item(q, TRUE)
      BY <1>7, <3>2, <3>3
    <3> QED BY <3>3, <3>4
  <2>2. ASSUME NEW q \in acked
        PROVE  \E s \in DOMAIN files' : \E i \in DOMAIN Items(s)' :
                 q.seq <= (Items(s)[i].seq)' /\ ~Begun(s, i)'
    <3>1. PICK s \in DOMAIN files : \E i \in DOMAIN Items(s) : q.seq <= Items(s)[i].seq
      BY DEF BodyInv, Lasting
    <3>2. PICK i \in DOMAIN Items(s) : q.seq <= Items(s)[i].seq
      BY <3>1
    <3>3. i \in DOMAIN Items(s)' /\ (Items(s)[i])' = Items(s)[i] /\ ~Begun(s, i)'
      BY <1>7, <1>e
    <3> QED BY <1>7, <3>2, <3>3
  <2>3. Body!SeqsFresh'
    BY <1>1 DEF BodyInv, Lasting, Body!SeqsFresh
  <2> QED BY <1>1, <2>1, <2>2, <2>3 DEF Lasting, Body!Item
<1> QED BY <1>11, <1>12, <1>13, <1>14, <1>15, <1>16 DEF BodyInv

LEMMA UpdateIs ==
  ASSUME NEW S, NEW s \in Seq(S), NEW l \in Nat, l = Len(s), NEW j \in 1 .. l, NEW x \in S, NEW z,
         z = [i \in 1 .. l |-> IF i = j THEN x ELSE s[i]]
  PROVE  /\ z \in Seq(S) /\ Len(z) = l /\ DOMAIN z = 1 .. l /\ z # << >> /\ z[j] = x
         /\ \A i \in 1 .. l : i # j => z[i] = s[i]
<1>1. \A i \in 1 .. l : s[i] \in S
  OBVIOUS
<1>2. z \in [1 .. l -> S]
  BY <1>1
<1>3. z \in Seq(S) /\ Len(z) = l
  BY <1>2
<1> QED BY <1>2, <1>3

\* The payload: the append returns.
LEMMA BodyPayload ==
  ASSUME BodyInv, Body!WritePayload
  PROVE  BodyInv'
<1>0. PICK n, k, a, r, l, w :
        /\ n = store.next_seq /\ k = Len(store.segments) /\ a = Body!Writable.start
        /\ r = Body!Record /\ l = Len(Items(a)) /\ w = Body!Writable
  OBVIOUS
<1>z. n = store.next_seq /\ k = Len(store.segments) /\ a = Body!Writable.start
  BY <1>0
<1> USE <1>z
<1>1. /\ UNCHANGED <<metas, handle, count, floor>> /\ pc = "payload" /\ pc' = "idle"
      /\ acked' = acked \cup {r}
      /\ files' = [files EXCEPT ![a].items[l] = Body!Item(r, TRUE)]
      /\ store' = [segments |-> [store.segments EXCEPT ![k] =
                                   [start |-> a, max_seq |-> n, size |-> w.size + 1, dek |-> w.dek]],
                   next_seq |-> n + 1]
  BY <1>0 DEF Body!WritePayload, Items
<1>2. /\ Body!IsOpen /\ n \in Nat /\ n # -1 /\ a \in DOMAIN files /\ a \in Nat
      /\ \A s \in DOMAIN files : s <= a /\ s \in Nat
      /\ k \in Nat /\ k \in DOMAIN store.segments /\ w = store.segments[k] /\ w \in Segs
      /\ w.start = a /\ w.dek = Body!LoadCipher(a).dek
      /\ \A i \in DOMAIN store.segments :
           /\ store.segments[i].start \in DOMAIN files
           /\ i # k => store.segments[i].start # a
  BY <1>0, <1>1, WritableIs, BodyParts DEF BodyInv
<1>3. /\ files = [s \in DOMAIN files |-> files[s]] /\ Items(a) \in Seq(Recs) /\ l \in Nat
      /\ DOMAIN Items(a) = 1 .. l
      /\ \A s \in DOMAIN files :
           /\ Items(s) \in Seq(Recs)
           /\ \A i \in DOMAIN Items(s) : Items(s)[i].seq \in Nat
      /\ store = [segments |-> store.segments, next_seq |-> n]
      /\ store.segments \in Seq(Segs) /\ DOMAIN store.segments = 1 .. k
  BY <1>0, <1>2, BodyParts DEF BodyInv
<1>4. /\ Items(a) # << >> /\ Items(a)[l] = Body!Item(r, FALSE)
      /\ \A s \in DOMAIN files : s <= n
  BY <1>0, <1>1, <1>2 DEF BodyInv, Listed
<1>5. l \in 1 .. l
  BY <1>0, <1>3, <1>4
<1>6. \A s, i : (Begun(s, i) <=> s = a /\ i = l) /\ ~Begun(s, i)'
  BY <1>0, <1>1 DEF Begun
<1>7. \A s \in DOMAIN files : \A i \in DOMAIN Items(s) :
        IF s = a /\ i = l THEN Items(s)[i].seq = n ELSE Items(s)[i].seq < n
  BY <1>2, <1>6 DEF BodyInv, Listed
<1>8. /\ r = [seq |-> n, event |-> count.appends, dek |-> w.dek]
      /\ r \in [seq : Nat, event : Nat, dek : Nat] /\ r.seq = n
      /\ Body!Item(r, TRUE) \in Recs
      /\ Body!Item(r, TRUE).seq = n /\ Body!Item(r, TRUE).dek = w.dek /\ Body!Item(r, TRUE).whole
  <2>1. w.dek \in Nat /\ count.appends \in Nat
    BY <1>2 DEF Segs, BodyInv, BodyShape
  <2>2. r = [seq |-> n, event |-> count.appends, dek |-> w.dek]
    BY <1>0 DEF Body!Record
  <2> QED BY <1>2, <2>1, <2>2 DEF Body!Item, Recs
<1>9. /\ DOMAIN files' = DOMAIN files
      /\ Items(a)' = [i \in 1 .. l |-> IF i = l THEN Body!Item(r, TRUE) ELSE Items(a)[i]]
      /\ files'[a] \in [header : BOOLEAN, items : {Items(a)'}]
      /\ \A s \in DOMAIN files : s # a => files'[s] = files[s] /\ Items(s)' = Items(s)
      /\ \A s \in DOMAIN files : files'[s].header <=> files[s].header
      /\ files' = [s \in DOMAIN files' |-> files'[s]]
  <2> DEFINE z == [i \in 1 .. l |-> IF i = l THEN Body!Item(r, TRUE) ELSE Items(a)[i]]
  <2>1. [Items(a) EXCEPT ![l] = Body!Item(r, TRUE)] = z
    BY <1>3
  <2>2. files' = [s \in DOMAIN files |->
                    IF s = a THEN [files[a] EXCEPT !.items = [Items(a) EXCEPT ![l] = Body!Item(r, TRUE)]]
                    ELSE files[s]]
    BY <1>1 DEF Items
  <2>p. PICK b \in BOOLEAN : files[a] = [header |-> b, items |-> Items(a)]
    BY <1>2, BodyParts DEF BodyInv
  <2> HIDE DEF z
  <2>3. [files[a] EXCEPT !.items = z] = [header |-> b, items |-> z]
    BY <2>p, ItemsSet
  <2>4. /\ DOMAIN files' = DOMAIN files
        /\ files'[a] = [header |-> b, items |-> z]
        /\ \A s \in DOMAIN files : s # a => files'[s] = files[s]
        /\ files' = [s \in DOMAIN files' |-> files'[s]]
    BY <1>2, <2>1, <2>2, <2>3
  <2>5. files'[a].header <=> files[a].header
    BY <2>p, <2>4
  <2>7. Items(a)' = z
    BY <2>4 DEF Items
  <2>6. files'[a] \in [header : BOOLEAN, items : {Items(a)'}]
    BY <2>4, <2>7
  <2>8. \A s \in DOMAIN files : s # a => Items(s)' = Items(s)
    BY <2>4 DEF Items
  <2> QED BY <2>4, <2>5, <2>6, <2>7, <2>8 DEF z
<1>10. /\ Items(a)' \in Seq(Recs) /\ DOMAIN Items(a)' = 1 .. l /\ Items(a)'[l] = Body!Item(r, TRUE)
       /\ \A i \in 1 .. l : i # l => Items(a)'[i] = Items(a)[i]
       /\ Items(a)' # << >>
  <2>1. PICK s, z, x : s = Items(a) /\ z = Items(a)' /\ x = Body!Item(r, TRUE)
    OBVIOUS
  <2>2. l = Len(s) /\ s \in Seq(Recs) /\ x \in Recs /\ z = [i \in 1 .. l |-> IF i = l THEN x ELSE s[i]]
    BY <1>0, <1>3, <1>8, <1>9, <2>1
  <2>3. /\ z \in Seq(Recs) /\ DOMAIN z = 1 .. l /\ z # << >> /\ z[l] = x
        /\ \A i \in 1 .. l : i # l => z[i] = s[i]
    <3>1. l \in Nat /\ l \in 1 .. l
      BY <1>3, <1>5
    <3> QED BY <2>2, <3>1, UpdateIs
  <2> QED BY <2>1, <2>3
<1>11. /\ store'.next_seq = n + 1
       /\ store'.segments[k] = [start |-> a, max_seq |-> n, size |-> w.size + 1, dek |-> w.dek]
       /\ DOMAIN store'.segments = 1 .. k /\ Len(store'.segments) = k
       /\ \A i \in 1 .. k : i # k => store'.segments[i] = store.segments[i]
       /\ store'.segments \in Seq(Segs)
       /\ store' = [segments |-> store'.segments, next_seq |-> n + 1]
  <2>1. w.size \in Nat /\ w.size + 1 \in Nat /\ w.dek \in Nat
    BY <1>2 DEF Segs
  <2>2. PICK g : g = [start |-> a, max_seq |-> n, size |-> w.size + 1, dek |-> w.dek]
    OBVIOUS
  <2>3. g \in Segs
    BY <1>2, <2>1, <2>2 DEF Segs
  <2>4. PICK q : q = [i \in 1 .. k |-> IF i = k THEN g ELSE store.segments[i]]
    OBVIOUS
  <2>5. /\ q \in Seq(Segs) /\ DOMAIN q = 1 .. k /\ Len(q) = k /\ q[k] = g
        /\ \A i \in 1 .. k : i # k => q[i] = store.segments[i]
    <3>1. store.segments \in Seq(Segs) /\ k \in Nat /\ k \in 1 .. k /\ k = Len(store.segments)
      BY <1>2, <1>3
    <3> QED BY <2>3, <2>4, <3>1, UpdateIs
  <2>6. store' = [segments |-> q, next_seq |-> n + 1]
    BY <1>1, <1>3, <2>2, <2>4
  <2>7. store'.segments = q /\ store'.next_seq = n + 1
    BY <2>6
  <2> QED BY <2>2, <2>5, <2>6, <2>7
<1>e. \A s \in DOMAIN files :
        /\ DOMAIN Items(s)' = DOMAIN Items(s)
        /\ \A i \in DOMAIN Items(s) :
             /\ ~(s = a /\ i = l) => (Items(s)[i])' = Items(s)[i]
             /\ (Items(s)[i].seq)' = Items(s)[i].seq /\ (Items(s)[i].dek)' = Items(s)[i].dek
             /\ (Items(s)[i].whole)'
  <2>1. \A s \in DOMAIN files : \A i \in DOMAIN Items(s) : ~(s = a /\ i = l) => Items(s)[i].whole
    BY <1>6 DEF BodyInv, AllWhole
  <2>2. Items(a)[l].seq = n /\ Items(a)[l].dek = w.dek
    BY <1>4, <1>8 DEF Body!Item
  <2>3. ASSUME NEW s \in DOMAIN files, s = a
        PROVE  /\ DOMAIN Items(s)' = DOMAIN Items(s)
               /\ \A i \in DOMAIN Items(s) :
                    /\ i # l => (Items(s)[i])' = Items(s)[i]
                    /\ (Items(s)[i].seq)' = Items(s)[i].seq /\ (Items(s)[i].dek)' = Items(s)[i].dek
                    /\ (Items(s)[i].whole)'
    <3>1. ASSUME NEW i \in 1 .. l, i # l
          PROVE  Items(a)'[i] = Items(a)[i] /\ Items(a)'[i].whole
      BY <1>2, <1>3, <1>10, <2>1, <3>1
    <3>2. /\ Items(a)'[l].seq = Items(a)[l].seq /\ Items(a)'[l].dek = Items(a)[l].dek
          /\ Items(a)'[l].whole
      BY <1>8, <1>10, <2>2
    <3> QED BY <1>3, <1>10, <2>3, <3>1, <3>2
  <2>4. ASSUME NEW s \in DOMAIN files, s # a
        PROVE  /\ Items(s)' = Items(s) /\ \A i \in DOMAIN Items(s) : Items(s)[i].whole
    BY <1>9, <2>1, <2>4
  <2> QED BY <2>3, <2>4
<1>12. BodyShape'
  <2>1. \A s \in DOMAIN files' : files'[s] \in [header : BOOLEAN, items : Seq(Recs)]
    <3>1. files'[a] \in [header : BOOLEAN, items : Seq(Recs)]
      BY <1>9, <1>10
    <3> QED BY <1>9, <3>1 DEF BodyInv, BodyShape
  <2>2. DOMAIN files' \subseteq Nat /\ files' \in [DOMAIN files' -> [header : BOOLEAN, items : Seq(Recs)]]
    BY <1>9, <2>1 DEF BodyInv, BodyShape
  <2>3. store' \in [segments : Seq(Segs), next_seq : Nat \cup {-1}] /\ store'.next_seq # -1
    BY <1>2, <1>11
  <2>4. acked' \subseteq [seq : Nat, event : Nat, dek : Nat]
    BY <1>1, <1>8 DEF BodyInv, BodyShape
  <2> QED BY <1>1, <2>2, <2>3, <2>4 DEF BodyInv, BodyShape
<1>13. Ordered'
  BY <1>9, <1>e DEF BodyInv, Ordered
<1>14. AllWhole'
  <2>1. \A s \in DOMAIN files : Items(s)' # << >> /\ ~Made(s)' /\ files'[s].header
    <3>1. \A s \in DOMAIN files : Items(s) # << >> /\ files[s].header
      BY <1>1 DEF BodyInv, AllWhole, Made
    <3>2. ASSUME NEW s \in DOMAIN files PROVE Items(s)' # << >>
      <4>1. CASE s = a
        <5>1. Items(a)' # << >>
          BY <1>10
        <5> QED BY <4>1, <5>1
      <4>2. CASE s # a
        <5>1. Items(s)' = Items(s)
          BY <1>9, <4>2
        <5> QED BY <3>1, <5>1
      <4> QED BY <4>1, <4>2
    <3>3. \A s : ~Made(s)'
      BY <1>1 DEF Made
    <3> QED BY <1>9, <3>1, <3>2, <3>3
  <2> QED BY <1>1, <1>6, <1>9, <1>e, <2>1 DEF AllWhole
<1>c. \A s : Body!LoadCipher(s)' = Body!LoadCipher(s)
  BY <1>1 DEF Body!LoadCipher
<1>15. Keyed'
  <2>1. \A s \in DOMAIN files' :
          /\ (Body!LoadCipher(s).ok)'
          /\ \A i \in DOMAIN Items(s)' : (Items(s)[i].dek)' = (Body!LoadCipher(s).dek)'
    BY <1>9, <1>c, <1>e DEF BodyInv, Keyed
  <2>2. handle.active = 0 => DOMAIN metas = {}
    BY DEF BodyInv, Keyed
  <2> QED BY <1>1, <2>1, <2>2 DEF Keyed
<1>16. Listed'
  <2>1. Closable' = DOMAIN files /\ Closable = DOMAIN files
    BY <1>1, <1>9 DEF Closable
  <2>2. Starts' = Starts
    <3>1. \A i \in 1 .. k : store'.segments[i].start = store.segments[i].start
      BY <1>2, <1>11
    <3> QED BY <1>11, <3>1 DEF Starts
  <2>3. /\ Lists(k, Starts, DOMAIN files)
        /\ \A i \in 1 .. k :
             /\ Topped(store.segments[i].start, store.segments[i].max_seq)
             /\ store.segments[i].dek = Body!LoadCipher(store.segments[i].start).dek
    BY <1>2, <1>3, <2>1 DEF BodyInv, Listed
  <2>4. Topped(a, n)'
    <3>1. \A i \in DOMAIN Items(a)' : (Items(a)[i].seq)' <= n
      BY <1>2, <1>3, <1>7, <1>e
    <3>2. l \in DOMAIN Items(a)' /\ (Items(a)[l].seq)' = n
      BY <1>5, <1>8, <1>10
    <3> QED BY <1>6, <3>1, <3>2 DEF Topped
  <2>5. ASSUME NEW s \in DOMAIN files, s # a, NEW m, Topped(s, m) PROVE Topped(s, m)'
    BY <1>6, <1>9, <2>5 DEF Topped
  <2>6. ASSUME NEW i \in 1 .. k
        PROVE  /\ Topped(store.segments[i].start, store.segments[i].max_seq)'
               /\ store'.segments[i].dek = Body!LoadCipher(store'.segments[i].start).dek
    <3>1. CASE i = k
      <4>1. store'.segments[i].start = a /\ store'.segments[i].max_seq = n /\ store'.segments[i].dek = w.dek
        BY <1>11, <3>1
      <4> QED BY <1>2, <2>4, <4>1
    <3>2. CASE i # k
      <4>1. store'.segments[i] = store.segments[i]
        BY <1>11, <3>2
      <4>2. store.segments[i].start \in DOMAIN files /\ store.segments[i].start # a
        BY <1>2, <1>3, <3>2
      <4> QED BY <2>3, <2>5, <4>1, <4>2
    <3> QED BY <3>1, <3>2
  <2>7. \A s \in DOMAIN files : \A i \in DOMAIN Items(s)' : (Items(s)[i].seq)' < n + 1
    <3>1. ASSUME NEW s \in DOMAIN files, NEW i \in DOMAIN Items(s)
          PROVE  Items(s)[i].seq < n + 1
      BY <1>2, <1>3, <1>7
    <3> QED BY <1>e, <3>1
  <2>8. \A s \in DOMAIN files : s <= n + 1
    BY <1>2, <1>4
  <2>9. n + 1 # -1
    BY <1>2
  <2>10. \A i \in DOMAIN store'.segments :
           /\ Topped(store.segments[i].start, store.segments[i].max_seq)'
           /\ store'.segments[i].dek = (Body!LoadCipher(store.segments[i].start).dek)'
    BY <1>11, <1>c, <2>6
  <2>11. Lists(Len(store'.segments), Starts', Closable')
    BY <1>11, <2>1, <2>2, <2>3
  <2> QED BY <1>1, <1>6, <1>9, <1>11, <2>7, <2>8, <2>9, <2>10, <2>11 DEF Listed
<1>17. Lasting'
  <2>a. a \in DOMAIN files' /\ l \in DOMAIN Items(a)' /\ (Items(a)[l])' = Body!Item(r, TRUE)
    BY <1>2, <1>5, <1>9, <1>10
  <2>1. ASSUME NEW q \in acked, q.seq >= floor
        PROVE  \E s \in DOMAIN files' : \E i \in DOMAIN Items(s)' : (Items(s)[i])' = Body!Item(q, TRUE)
    <3>1. PICK s \in DOMAIN files : \E i \in DOMAIN Items(s) : Items(s)[i] = Body!Item(q, TRUE)
      BY <2>1 DEF BodyInv, Lasting
    <3>2. PICK i \in DOMAIN Items(s) : Items(s)[i] = Body!Item(q, TRUE)
      BY <3>1
    <3>3. Items(s)[i].whole
      BY <3>2 DEF Body!Item
    <3>4. ~(s = a /\ i = l)
      BY <1>4, <3>3 DEF Body!Item
    <3>5. s \in DOMAIN files' /\ i \in DOMAIN Items(s)' /\ (Items(s)[i])' = Items(s)[i]
      BY <1>9, <1>e, <3>4
    <3> QED BY <3>2, <3>5
  <2>2. ASSUME NEW q \in acked
        PROVE  /\ q.seq < n
               /\ \E s \in DOMAIN files' : \E i \in DOMAIN Items(s)' :
                    q.seq <= (Items(s)[i].seq)' /\ ~Begun(s, i)'
    <3>1. PICK s \in DOMAIN files : \E i \in DOMAIN Items(s) : q.seq <= Items(s)[i].seq /\ ~Begun(s, i)
      BY DEF BodyInv, Lasting
    <3>2. PICK i \in DOMAIN Items(s) : q.seq <= Items(s)[i].seq /\ ~Begun(s, i)
      BY <3>1
    <3>3. Items(s)[i].seq < n /\ q.seq \in Nat /\ Items(s)[i].seq \in Nat
      BY <1>3, <1>6, <1>7, <3>2 DEF BodyInv, BodyShape
    <3>4. q.seq < n
      BY <1>2, <3>2, <3>3
    <3> QED BY <1>6, <1>9, <1>e, <3>2, <3>4
  <2>3. Body!SeqsFresh'
    <3>1. \A q, p \in acked : q.seq = p.seq => q = p
      BY DEF BodyInv, Lasting, Body!SeqsFresh
    <3>2. \A q \in acked : q.seq # r.seq
      <4>1. \A q \in acked : q.seq \in Nat
        BY DEF BodyInv, BodyShape
      <4> QED BY <1>2, <1>8, <2>2, <4>1
    <3> QED BY <1>1, <3>1, <3>2 DEF Body!SeqsFresh
  <2>4. \A q \in acked' : q.seq >= floor =>
          \E s \in DOMAIN files' : \E i \in DOMAIN Items(s)' : (Items(s)[i])' = Body!Item(q, TRUE)
    BY <1>1, <2>1, <2>a
  <2>5. r.seq <= (Items(a)[l].seq)' /\ ~Begun(a, l)'
    <3>1. (Items(a)[l].seq)' = n
      BY <1>8, <2>a
    <3> QED BY <1>2, <1>6, <1>8, <3>1
  <2>6. \A q \in acked' : \E s \in DOMAIN files' : \E i \in DOMAIN Items(s)' :
          q.seq <= (Items(s)[i].seq)' /\ ~Begun(s, i)'
    BY <1>1, <2>2, <2>5, <2>a
  <2> QED BY <1>1, <2>3, <2>4, <2>6 DEF Lasting, Body!Item
<1> QED BY <1>12, <1>13, <1>14, <1>15, <1>16, <1>17 DEF BodyInv

-----------------------------------------------------------------------------

\* The process ends where every file is whole.
LEMMA BodyCrash ==
  ASSUME BodyInv, Survivable, Body!Crash
  PROVE  BodyInv'
<1>1. /\ UNCHANGED <<files, metas, handle, acked, floor>> /\ store' = Body!Closed /\ pc' = "idle"
      /\ Body!IsOpen /\ pc \in {"idle", "meta", "file"}
      /\ count' = [count EXCEPT !.crashes = @ + 1]
  BY DEF Body!Crash, Survivable
<1>2. /\ Closable = DOMAIN files
      /\ \A s \in DOMAIN files :
           /\ files[s].header /\ Items(s) # << >>
           /\ \A i \in DOMAIN Items(s) : Items(s)[i].whole /\ ~Begun(s, i)
  BY <1>1, AtRest
<1>3. \A s : Items(s)' = Items(s) /\ ~Made(s)' /\ \A i : ~Begun(s, i)'
  BY <1>1 DEF Items, Begun, Made
<1>4. store'.next_seq = -1 /\ store'.segments = << >>
  BY <1>1 DEF Body!Closed
<1>5. BodyShape'
  <2>1. count' \in [appends : Nat, crashes : Nat]
    <3>1. count \in [appends : Nat, crashes : Nat]
      BY DEF BodyInv, BodyShape
    <3> QED BY <1>1, <3>1
  <2>2. store' \in [segments : Seq(Segs), next_seq : Nat \cup {-1}] /\ store' = Body!Closed'
    <3>1. << >> \in Seq(Segs)
      OBVIOUS
    <3> QED BY <1>1, <3>1 DEF Body!Closed
  <2> QED BY <1>1, <2>1, <2>2 DEF BodyInv, BodyShape
<1>6. Ordered'
  BY <1>1, <1>3 DEF BodyInv, Ordered
<1>7. AllWhole'
  BY <1>1, <1>2, <1>3 DEF AllWhole
<1>8. Keyed'
  <2>1. \A s \in DOMAIN files : Body!LoadCipher(s)' = Body!LoadCipher(s)
    BY <1>1 DEF Body!LoadCipher, Body!Unwraps
  <2> QED BY <1>1, <1>3, <2>1 DEF BodyInv, Keyed
<1>9. Listed'
  <2>1. Lists(Len(store.segments), Starts, DOMAIN files) /\ Len(store.segments) \in Nat
    BY <1>1, <1>2, BodyParts DEF BodyInv, Listed
  <2>2. PICK n \in Nat : \E q \in [1 .. n -> DOMAIN files] : Lists(n, q, DOMAIN files)
    BY <2>1 DEF Lists
  <2>3. PICK q \in [1 .. n -> DOMAIN files] : Lists(n, q, DOMAIN files)
    BY <2>2
  <2>4. \E m \in Nat : \E z \in [1 .. m -> DOMAIN files'] : Lists(m, z, DOMAIN files')
    BY <1>1, <2>3
  <2> QED BY <1>4, <2>4 DEF Listed, Lists
<1>10. Lasting'
  BY <1>1, <1>2, <1>3 DEF BodyInv, Lasting, Body!SeqsFresh
<1> QED BY <1>5, <1>6, <1>7, <1>8, <1>9, <1>10 DEF BodyInv

\* A list without its first element.
LEMMA TailIs ==
  ASSUME NEW S, NEW s \in Seq(S), NEW k \in Nat, k = Len(s), k > 1
  PROVE  /\ Tail(s) \in Seq(S) /\ Len(Tail(s)) = k - 1 /\ DOMAIN Tail(s) = 1 .. k - 1
         /\ \A i \in 1 .. k - 1 : i + 1 \in 1 .. k /\ Tail(s)[i] = s[i + 1]
         /\ Head(s) = s[1]
  OBVIOUS

\* The first segment is collected.
LEMMA BodyGc ==
  ASSUME BodyInv, NEW min \in Nat, Body!Gc(min)
  PROVE  BodyInv'
<1>0. PICK n, k, b, t, m, z :
        n = store.next_seq /\ k = Len(store.segments) /\ b = store.segments[1].start
        /\ t = store.segments[2].start /\ m = store.segments[1].max_seq /\ z = Tail(store.segments)
  OBVIOUS
<1> USE <1>0
<1>g. z = Tail(store.segments)
  BY <1>0
<1>1. /\ UNCHANGED <<metas, handle, pc, count, acked>> /\ Body!IsOpen /\ pc = "idle"
      /\ k > 1 /\ Body!Superseded(Head(store.segments), min)
      /\ files' = [s \in DOMAIN files \ {Head(store.segments).start} |-> files[s]]
      /\ store' = [store EXCEPT !.segments = Tail(@)]
      /\ floor' = IF min > floor THEN min ELSE floor
  BY DEF Body!Gc
<1>2. /\ n \in Nat /\ n # -1 /\ store.segments \in Seq(Segs) /\ k \in Nat
      /\ DOMAIN store.segments = 1 .. k
      /\ store = [segments |-> store.segments, next_seq |-> n]
      /\ files = [s \in DOMAIN files |-> files[s]] /\ floor \in Nat
      /\ \A i \in 1 .. k : store.segments[i].start \in Nat /\ store.segments[i].max_seq \in Int
  BY <1>1, BodyParts DEF BodyInv, BodyShape
<1>3. /\ Tail(store.segments) \in Seq(Segs) /\ Len(Tail(store.segments)) = k - 1
      /\ DOMAIN Tail(store.segments) = 1 .. k - 1
      /\ \A i \in 1 .. k - 1 : i + 1 \in 1 .. k /\ Tail(store.segments)[i] = store.segments[i + 1]
      /\ Head(store.segments) = store.segments[1]
  BY <1>1, <1>2, TailIs
<1>4. /\ DOMAIN files' = DOMAIN files \ {b} /\ \A s \in DOMAIN files' : files'[s] = files[s] /\ s \in DOMAIN files /\ s # b
      /\ files' = [s \in DOMAIN files' |-> files'[s]]
      /\ store' = [segments |-> z, next_seq |-> n]
      /\ m < min /\ m \in Int /\ b \in Nat
  <2>1. store' = [segments |-> z, next_seq |-> n]
    BY <1>1, <1>2
  <2>2. m < min /\ m \in Int /\ b \in Nat
    <3>1. 1 \in 1 .. k
      BY <1>1, <1>2
    <3>2. Head(store.segments).max_seq < min
      BY <1>1 DEF Body!Superseded
    <3> QED BY <1>2, <1>3, <3>1, <3>2
  <2>3. files' = [s \in DOMAIN files \ {b} |-> files[s]]
    BY <1>1, <1>3
  <2> QED BY <2>1, <2>2, <2>3
<1>5. store'.segments = z /\ store'.next_seq = n /\ floor' \in Nat /\ min <= floor'
      /\ floor <= floor'
  BY <1>1, <1>2, <1>4
<1>6. \A s \in DOMAIN files' : Items(s)' = Items(s)
  BY <1>4 DEF Items
<1>7. \A s, i : ~Begun(s, i)' /\ ~Begun(s, i) /\ ~Made(s)' /\ ~Made(s)
  BY <1>1 DEF Begun, Made
<1>8. /\ Closable = DOMAIN files /\ Closable' = DOMAIN files'
      /\ \A s \in DOMAIN files :
           /\ files[s].header /\ Items(s) # << >>
           /\ \A i \in DOMAIN Items(s) : Items(s)[i].whole
  BY <1>1, AtRest DEF Closable
<1>9. /\ Lists(k, Starts, DOMAIN files) /\ \A i \in 1 .. k : Starts[i] = store.segments[i].start
      /\ \A i \in 1 .. k : Topped(store.segments[i].start, store.segments[i].max_seq)
                            /\ store.segments[i].dek = Body!LoadCipher(store.segments[i].start).dek
  <2>1. Lists(k, Starts, DOMAIN files)
    BY <1>2, <1>8 DEF BodyInv, Listed
  <2>2. \A i \in 1 .. k : Topped(store.segments[i].start, store.segments[i].max_seq)
                          /\ store.segments[i].dek = Body!LoadCipher(store.segments[i].start).dek
    BY <1>2 DEF BodyInv, Listed
  <2> QED BY <2>1, <2>2 DEF Starts
<1>10. /\ 1 \in 1 .. k /\ 2 \in 1 .. k /\ b = Starts[1] /\ t = Starts[2] /\ b < t
       /\ t \in DOMAIN files /\ b \in DOMAIN files /\ t \in DOMAIN files' /\ t \in Nat
  <2>1. 1 \in 1 .. k /\ 2 \in 1 .. k
    BY <1>1, <1>2
  <2>2. b = Starts[1] /\ t = Starts[2] /\ b < t /\ t \in DOMAIN files /\ b \in DOMAIN files
    <3>1. b = Starts[1] /\ t = Starts[2]
      BY <1>9, <2>1
    <3>2. Starts[1] < Starts[2] /\ Starts[1] \in DOMAIN files /\ Starts[2] \in DOMAIN files
      <4>1. PICK q : q = Starts
        OBVIOUS
      <4>2. q \in [1 .. k -> DOMAIN files] /\ \A i, j \in 1 .. k : i < j => q[i] < q[j]
        BY <1>9, <4>1 DEF Lists
      <4>3. q[1] < q[2] /\ q[1] \in DOMAIN files /\ q[2] \in DOMAIN files
        BY <2>1, <4>2
      <4> QED BY <4>1, <4>3
    <3> QED BY <3>1, <3>2
  <2>3. t \in Nat
    BY <1>2, <2>1
  <2> QED BY <1>4, <2>1, <2>2, <2>3
<1>11. \A i \in DOMAIN Items(b) : Items(b)[i].seq <= m
  BY <1>7, <1>9, <1>10 DEF Topped
<1>12. /\ 1 \in DOMAIN Items(t) /\ t <= Items(t)[1].seq /\ Items(t)[1].seq \in Nat
       /\ \A i \in DOMAIN Items(b) : Items(b)[i].seq \in Nat /\ Items(b)[i].seq < t
  <2>1. /\ Items(t) \in Seq(Recs) /\ DOMAIN Items(t) = 1 .. Len(Items(t))
        /\ \A i \in DOMAIN Items(t) : Items(t)[i].seq \in Nat
        /\ \A i \in DOMAIN Items(b) : Items(b)[i].seq \in Nat
    BY <1>10, BodyParts DEF BodyInv
  <2>2. 1 \in DOMAIN Items(t)
    BY <1>8, <1>10, <2>1
  <2>3. t <= Items(t)[1].seq /\ \A i \in DOMAIN Items(b) : Items(b)[i].seq < t
    BY <1>10, <2>2 DEF BodyInv, Ordered
  <2> QED BY <2>1, <2>2, <2>3
<1>13. BodyShape'
  <2>1. files' \in [DOMAIN files' -> [header : BOOLEAN, items : Seq(Recs)]] /\ DOMAIN files' \subseteq Nat
    <3>1. /\ \A s \in DOMAIN files : files[s] \in [header : BOOLEAN, items : Seq(Recs)]
          /\ DOMAIN files \subseteq Nat
      BY DEF BodyInv, BodyShape
    <3> QED BY <1>4, <3>1
  <2>2. store' \in [segments : Seq(Segs), next_seq : Nat \cup {-1}] /\ store'.next_seq # -1
    BY <1>2, <1>3, <1>4
  <2> QED BY <1>1, <1>5, <2>1, <2>2 DEF BodyInv, BodyShape
<1>14. Ordered'
  <2>1. \A s \in DOMAIN files' : s \in DOMAIN files
    BY <1>4
  <2> QED BY <1>6, <2>1 DEF BodyInv, Ordered
<1>15. AllWhole'
  BY <1>1, <1>4, <1>6, <1>7, <1>8 DEF AllWhole
<1>c. \A s : Body!LoadCipher(s)' = Body!LoadCipher(s)
  BY <1>1 DEF Body!LoadCipher, Body!Unwraps
<1>16. Keyed'
  <2>1. \A s \in DOMAIN files' : s \in DOMAIN files
    BY <1>4
  <2> QED BY <1>1, <1>6, <1>c, <2>1 DEF BodyInv, Keyed
<1>17. Listed'
  <2>1. Starts' = [i \in 1 .. k - 1 |-> Starts[i + 1]]
    BY <1>2, <1>3, <1>5, <1>9 DEF Starts
  <2>2. Lists(k - 1, [i \in 1 .. k - 1 |-> Starts[i + 1]], DOMAIN files')
    <3>1. PICK q : q = Starts
      OBVIOUS
    <3>2. /\ q \in [1 .. k -> DOMAIN files] /\ \A s \in DOMAIN files : \E i \in 1 .. k : q[i] = s
          /\ \A i, j \in 1 .. k : i < j => q[i] < q[j]
      BY <1>9, <3>1 DEF Lists
    <3>3. \A i \in 1 .. k : q[i] \in Nat
      BY <1>2, <1>9, <3>1
    <3>4. \A i \in 1 .. k - 1 : i + 1 \in 1 .. k /\ 1 < i + 1
      BY <1>2
    <3>5. \A i \in 1 .. k - 1 : q[i + 1] \in DOMAIN files'
      <4> SUFFICES ASSUME NEW i \in 1 .. k - 1 PROVE q[i + 1] \in DOMAIN files'
        OBVIOUS
      <4>1. q[1] < q[i + 1] /\ q[1] \in Nat /\ q[i + 1] \in Nat
        BY <1>10, <3>2, <3>3, <3>4
      <4>2. q[i + 1] # b
        BY <1>10, <3>1, <4>1
      <4> QED BY <1>4, <3>2, <3>4, <4>2
    <3>6. ASSUME NEW s \in DOMAIN files' PROVE \E i \in 1 .. k - 1 : q[i + 1] = s
      <4>1. PICK j \in 1 .. k : q[j] = s
        BY <1>4, <3>2
      <4>2. j # 1
        BY <1>4, <1>10, <3>1, <4>1
      <4>3. j - 1 \in 1 .. k - 1 /\ (j - 1) + 1 = j
        BY <1>2, <4>2
      <4> QED BY <4>1, <4>3
    <3>7. \A i, j \in 1 .. k - 1 : i < j => q[i + 1] < q[j + 1]
      BY <1>2, <3>2, <3>4
    <3> QED BY <3>1, <3>5, <3>6, <3>7 DEF Lists
  <2>3. Lists(k - 1, Starts', DOMAIN files')
    BY <2>1, <2>2
  <2>4. ASSUME NEW i \in 1 .. k - 1
        PROVE  /\ z[i].start \in DOMAIN files'
               /\ Topped(z[i].start, z[i].max_seq)
               /\ z[i].dek = Body!LoadCipher(z[i].start).dek
    <3>1. i + 1 \in 1 .. k /\ z[i] = store.segments[i + 1]
      BY <1>3
    <3>2. Starts'[i] = Starts[i + 1] /\ Starts'[i] \in DOMAIN files'
      BY <2>1, <2>3 DEF Lists
    <3> QED BY <1>9, <3>1, <3>2
  <2>5. ASSUME NEW s \in DOMAIN files', NEW x, Topped(s, x) PROVE Topped(s, x)'
    BY <1>6, <1>7, <2>5 DEF Topped
  <2>6. ASSUME NEW i \in 1 .. k - 1
        PROVE  /\ Topped(z[i].start, z[i].max_seq)'
               /\ z[i].dek = Body!LoadCipher(z[i].start)'.dek
    BY <1>c, <2>4, <2>5
  <2>7. \A s \in DOMAIN files : s <= n /\ \A i \in DOMAIN Items(s) : Items(s)[i].seq < n
    BY <1>2, <1>7 DEF BodyInv, Listed
  <2>8. \A s \in DOMAIN files' : s <= n /\ \A i \in DOMAIN Items(s)' : Items(s)'[i].seq < n
    BY <1>4, <1>6, <2>7
  <2> QED BY <1>1, <1>2, <1>3, <1>5, <1>7, <1>8, <2>3, <2>6, <2>8 DEF Listed
<1>18. Lasting'
  <2>1. ASSUME NEW r \in acked, r.seq >= floor'
        PROVE  \E s \in DOMAIN files' : \E i \in DOMAIN Items(s)' : Items(s)'[i] = Body!Item(r, TRUE)
    <3>1. r.seq \in Nat
      BY DEF BodyInv, BodyShape
    <3>2. r.seq >= floor
      BY <1>2, <1>5, <2>1, <3>1
    <3>3. PICK s \in DOMAIN files : \E i \in DOMAIN Items(s) : Items(s)[i] = Body!Item(r, TRUE)
      BY <3>2 DEF BodyInv, Lasting
    <3>4. PICK i \in DOMAIN Items(s) : Items(s)[i] = Body!Item(r, TRUE)
      BY <3>3
    <3>5. s # b
      <4> SUFFICES ASSUME s = b PROVE FALSE
        OBVIOUS
      <4>1. r.seq <= m
        <5>1. Items(b)[i].seq <= m
          BY <1>11, <3>4
        <5>2. Items(b)[i].seq = r.seq
          BY <3>4 DEF Body!Item
        <5> QED BY <5>1, <5>2
      <4>2. m < min /\ min <= floor' /\ m \in Int /\ floor' \in Nat
        BY <1>4, <1>5
      <4> QED BY <2>1, <3>1, <4>1, <4>2
    <3>6. s \in DOMAIN files' /\ Items(s)' = Items(s)
      <4>1. s \in DOMAIN files'
        BY <1>4, <3>5
      <4> QED BY <1>6, <4>1
    <3> QED BY <3>4, <3>6
  <2>2. ASSUME NEW r \in acked
        PROVE  \E s \in DOMAIN files' : \E i \in DOMAIN Items(s)' : r.seq <= Items(s)'[i].seq
    <3>1. r.seq \in Nat
      BY DEF BodyInv, BodyShape
    <3>2. PICK s \in DOMAIN files : \E i \in DOMAIN Items(s) : r.seq <= Items(s)[i].seq
      BY DEF BodyInv, Lasting
    <3>3. CASE s = b
      <4>1. r.seq <= Items(t)[1].seq
        BY <1>10, <1>12, <3>1, <3>2, <3>3
      <4> QED BY <1>6, <1>10, <1>12, <4>1
    <3>4. CASE s # b
      BY <1>4, <1>6, <3>2, <3>4
    <3> QED BY <3>3, <3>4
  <2>3. Body!SeqsFresh'
    BY <1>1 DEF BodyInv, Lasting, Body!SeqsFresh
  <2> QED BY <1>1, <1>7, <2>1, <2>2, <2>3 DEF Lasting, Body!Item
<1> QED BY <1>13, <1>14, <1>15, <1>16, <1>17, <1>18 DEF BodyInv

-----------------------------------------------------------------------------

\* The names read from a directory that can be listed, sorted.
LEMMA AscendingIs ==
  ASSUME NEW S \in SUBSET Nat, NEW n \in Nat, NEW q, Lists(n, q, S)
  PROVE  Lists(n, Body!Ascending(S), S)
<1> DEFINE z == Body!Ascending(S)
           Inc(y) == \A i, j \in DOMAIN y : i < j => y[i] < y[j]
<1>1. /\ q \in [1 .. n -> S] /\ \A s \in S : \E i \in 1 .. n : q[i] = s
      /\ \A i, j \in 1 .. n : i < j => q[i] < q[j]
  BY DEF Lists
<1>2. ASSUME NEW y \in [1 .. n -> S], \A i, j \in 1 .. n : i < j => y[i] < y[j]
      PROVE  y \in Injection(1 .. n, S)
  <2> SUFFICES ASSUME NEW i \in 1 .. n, NEW j \in 1 .. n, y[i] = y[j] PROVE i = j
    BY <1>2 DEF Injection, IsInjective
  <2>1. y[i] \in Nat /\ y[j] \in Nat
    OBVIOUS
  <2>2. CASE i < j
    BY <1>2, <2>1, <2>2
  <2>3. CASE j < i
    BY <1>2, <2>1, <2>3
  <2> QED BY <2>2, <2>3
<1>3. IsFiniteSet(1 .. n) /\ Cardinality(1 .. n) = n
  BY FS_Interval
<1>4. q \in Bijection(1 .. n, S)
  <2>1. q \in Injection(1 .. n, S)
    BY <1>1, <1>2
  <2>2. q \in Surjection(1 .. n, S)
    BY <1>1 DEF Surjection
  <2> QED BY <2>1, <2>2 DEF Bijection
<1>5. IsFiniteSet(S) /\ Cardinality(S) = n
  BY <1>3, <1>4, FS_Bijection DEF ExistsBijection
<1>6. Body!Cardinality(S) = n
  BY <1>5 DEF Body!Cardinality, Cardinality
<1>7. z = CHOOSE y \in [1 .. n -> S] : Inc(y)
  BY <1>6 DEF Body!Ascending
<1>8. Inc(q)
  BY <1>1
<1>9. z \in [1 .. n -> S] /\ Inc(z)
  <2> HIDE DEF Inc, z
  <2> QED BY <1>1, <1>7, <1>8
<1> HIDE DEF z
<1>10. \A i, j \in 1 .. n : i < j => z[i] < z[j]
  BY <1>9
<1>11. z \in Surjection(1 .. n, S)
  BY <1>2, <1>3, <1>5, <1>9, <1>10, FS_Injection
<1>12. \A s \in S : \E i \in 1 .. n : z[i] = s
  BY <1>11 DEF Surjection
<1>13. Lists(n, z, S)
  BY <1>9, <1>10, <1>12 DEF Lists
<1> QED BY <1>13 DEF z

\* A segment as open finds it.
LEMMA SegmentIs ==
  ASSUME BodyInv, ~Body!IsOpen, NEW s \in DOMAIN files
  PROVE  /\ Body!Segment(s) \in Segs /\ Body!Segment(s).start = s
         /\ Body!Segment(s).dek = Body!LoadCipher(s).dek /\ Body!Segment(s).max_seq \in Nat
         /\ \A i \in DOMAIN Items(s) : Items(s)[i].seq <= Body!Segment(s).max_seq
         /\ \E i \in DOMAIN Items(s) : Items(s)[i].seq = Body!Segment(s).max_seq
<1> DEFINE l == Len(Items(s))
<1>1. pc = "idle"
  BY BodyParts DEF BodyInv, BodyShape
<1>2. Body!Scan(s) = Items(s) /\ Items(s) # << >>
  BY <1>1, AtRest, ScanIs
<1>3. /\ Items(s) \in Seq(Recs) /\ l \in Nat /\ DOMAIN Items(s) = 1 .. l /\ s \in Nat
      /\ \A i \in DOMAIN Items(s) : Items(s)[i].seq \in Nat
  BY BodyParts DEF BodyInv
<1>4. l \in 1 .. l
  BY <1>2, <1>3
<1>5. Body!Last(Items(s)) = Items(s)[l]
  BY DEF Body!Last
<1>6. Body!LoadCipher(s).dek \in Nat
  BY DEF BodyInv, BodyShape, Body!LoadCipher
<1>7. Body!Segment(s) = [start |-> s, max_seq |-> Items(s)[l].seq, size |-> l, dek |-> Body!LoadCipher(s).dek]
  BY <1>2, <1>5 DEF Body!Segment, Items
<1>8. \A i \in 1 .. l : Items(s)[i].seq <= Items(s)[l].seq
  <2> SUFFICES ASSUME NEW i \in 1 .. l PROVE Items(s)[i].seq <= Items(s)[l].seq
    OBVIOUS
  <2>1. CASE i = l
    BY <1>3, <2>1
  <2>2. CASE i # l
    <3>1. i < l
      <4> HIDE DEF l
      <4> QED BY <1>3, <2>2
    <3>2. Items(s)[i].seq < Items(s)[l].seq
      BY <1>3, <1>4, <3>1 DEF BodyInv, Ordered
    <3> QED BY <1>3, <1>4, <3>2
  <2> QED BY <2>1, <2>2
<1>9. Items(s)[l].seq \in Nat
  BY <1>3, <1>4
<1>10. Body!Segment(s) \in Segs
  BY <1>3, <1>6, <1>7, <1>9 DEF Segs
<1> QED BY <1>3, <1>4, <1>7, <1>8, <1>9, <1>10

\* A process opens the store that another left.
LEMMA BodyOpen ==
  ASSUME BodyInv, Body!Open
  PROVE  BodyInv'
<1>1. /\ UNCHANGED <<files, metas, handle, pc, count, acked, floor>> /\ ~Body!IsOpen
      /\ store' = Body!Recovered(Body!Ascending(DOMAIN files))
  BY DEF Body!Open
<1>2. pc = "idle" /\ store.next_seq = -1 /\ DOMAIN files \in SUBSET Nat
  BY <1>1, BodyParts DEF BodyInv, BodyShape
<1>3. PICK n \in Nat : \E q \in [1 .. n -> DOMAIN files] : Lists(n, q, DOMAIN files)
  BY <1>2 DEF BodyInv, Listed
<1>4. PICK z : z = Body!Ascending(DOMAIN files)
  OBVIOUS
<1>5. Lists(n, z, DOMAIN files)
  BY <1>2, <1>3, <1>4, AscendingIs
<1>6. /\ z \in [1 .. n -> DOMAIN files] /\ DOMAIN z = 1 .. n
      /\ \A i, j \in 1 .. n : i < j => z[i] < z[j]
      /\ \A s \in DOMAIN files : \E i \in 1 .. n : z[i] = s
  BY <1>5 DEF Lists
<1> DEFINE Behind(g) == CHOOSE x \in {0} \cup {g[i].max_seq + 1 : i \in DOMAIN g} :
                          \A i \in DOMAIN g : x > g[i].max_seq
<1>f. PICK f : f = [i \in DOMAIN z |-> Body!Segment(z[i])]
  OBVIOUS
<1>7. f = [i \in 1 .. n |-> Body!Segment(z[i])]
  BY <1>6, <1>f
<1>8. \A i \in 1 .. n :
        /\ f[i] \in Segs /\ f[i].start = z[i] /\ f[i].dek = Body!LoadCipher(z[i]).dek
        /\ f[i].max_seq \in Nat /\ z[i] \in DOMAIN files /\ z[i] \in Nat
        /\ \A j \in DOMAIN Items(z[i]) : Items(z[i])[j].seq <= f[i].max_seq
        /\ \E j \in DOMAIN Items(z[i]) : Items(z[i])[j].seq = f[i].max_seq
  <2> SUFFICES ASSUME NEW i \in 1 .. n
               PROVE  /\ f[i] \in Segs /\ f[i].start = z[i] /\ f[i].dek = Body!LoadCipher(z[i]).dek
                      /\ f[i].max_seq \in Nat /\ z[i] \in DOMAIN files /\ z[i] \in Nat
                      /\ \A j \in DOMAIN Items(z[i]) : Items(z[i])[j].seq <= f[i].max_seq
                      /\ \E j \in DOMAIN Items(z[i]) : Items(z[i])[j].seq = f[i].max_seq
    OBVIOUS
  <2>1. f[i] = Body!Segment(z[i]) /\ z[i] \in DOMAIN files /\ z[i] \in Nat
    BY <1>2, <1>6, <1>7
  <2> QED BY <1>1, <2>1, SegmentIs
<1>9. f \in Seq(Segs) /\ Len(f) = n /\ DOMAIN f = 1 .. n
  <2>1. f \in [1 .. n -> Segs]
    BY <1>7, <1>8
  <2> QED BY <2>1
<1>10. PICK m : m = Behind(f)
  OBVIOUS
<1>11. \E x \in {0} \cup {f[i].max_seq + 1 : i \in DOMAIN f} : \A i \in DOMAIN f : x > f[i].max_seq
  <2>1. CASE n = 0
    BY <1>9, <2>1
  <2>2. CASE n # 0
    <3>1. n \in 1 .. n
      BY <2>2
    <3>2. ASSUME NEW i \in 1 .. n PROVE f[i].max_seq < f[n].max_seq + 1
      <4>1. f[i].max_seq \in Nat /\ f[n].max_seq \in Nat
        BY <1>8, <3>1
      <4>2. CASE i = n
        BY <4>1, <4>2
      <4>3. CASE i # n
        <5>1. z[i] < z[n] /\ z[i] \in DOMAIN files /\ z[n] \in DOMAIN files /\ z[n] \in Nat
          BY <1>6, <1>8, <3>1, <4>3
        <5>2. PICK j \in DOMAIN Items(z[i]) : Items(z[i])[j].seq = f[i].max_seq
          BY <1>8
        <5>3. PICK h \in DOMAIN Items(z[n]) : Items(z[n])[h].seq = f[n].max_seq
          BY <1>8, <3>1
        <5>4. Items(z[i])[j].seq < z[n] /\ z[n] <= Items(z[n])[h].seq
          BY <5>1 DEF BodyInv, Ordered
        <5>5. f[i].max_seq < z[n] /\ z[n] <= f[n].max_seq
          BY <5>2, <5>3, <5>4
        <5> QED BY <4>1, <5>1, <5>5
      <4> QED BY <4>2, <4>3
    <3>3. f[n].max_seq + 1 \in {0} \cup {f[i].max_seq + 1 : i \in DOMAIN f}
      BY <1>9, <3>1
    <3>4. \A i \in DOMAIN f : f[n].max_seq + 1 > f[i].max_seq
      <4> SUFFICES ASSUME NEW i \in 1 .. n PROVE f[n].max_seq + 1 > f[i].max_seq
        BY <1>9
      <4>1. f[i].max_seq \in Nat /\ f[n].max_seq \in Nat
        BY <1>8, <3>1
      <4> QED BY <3>2, <4>1
    <3> QED BY <3>3, <3>4
  <2> QED BY <2>1, <2>2
<1>12. m \in {0} \cup {f[i].max_seq + 1 : i \in DOMAIN f} /\ \A i \in DOMAIN f : m > f[i].max_seq
  BY <1>10, <1>11
<1>13. m \in Nat
  BY <1>8, <1>9, <1>12
<1>14. store' = [segments |-> f, next_seq |-> m]
  <2>1. Body!Recovered(z) = [segments |-> [i \in DOMAIN z |-> Body!Segment(z[i])],
                             next_seq |-> Behind([i \in DOMAIN z |-> Body!Segment(z[i])])]
    BY DEF Body!Recovered
  <2> HIDE DEF Behind
  <2>2. Body!Recovered(z) = [segments |-> f, next_seq |-> Behind(f)]
    BY <1>f, <2>1
  <2> QED BY <1>1, <1>4, <1>10, <2>2
<1>15. store'.segments = f /\ store'.next_seq = m /\ m # -1
  BY <1>13, <1>14
<1>16. \A s : Items(s)' = Items(s) /\ ~Made(s)' /\ ~Made(s) /\ \A i : ~Begun(s, i)' /\ ~Begun(s, i)
  BY <1>1, <1>2 DEF Items, Begun, Made
<1>17. \A s \in DOMAIN files :
         /\ files[s].header /\ Items(s) # << >>
         /\ \A i \in DOMAIN Items(s) : Items(s)[i].whole
  BY <1>2, AtRest
<1>18. BodyShape'
  <2>1. store' \in [segments : Seq(Segs), next_seq : Nat \cup {-1}]
    BY <1>9, <1>13, <1>14
  <2> QED BY <1>1, <1>15, <2>1 DEF BodyInv, BodyShape
<1>19. Ordered'
  BY <1>1, <1>16 DEF BodyInv, Ordered
<1>20. AllWhole'
  BY <1>1, <1>2, <1>16, <1>17 DEF AllWhole
<1>c. \A s : Body!LoadCipher(s)' = Body!LoadCipher(s)
  BY <1>1 DEF Body!LoadCipher, Body!Unwraps
<1>21. Keyed'
  BY <1>1, <1>2, <1>16, <1>c DEF BodyInv, Keyed
<1>22. Listed'
  <2>1. Starts' = z
    <3>1. Starts' = [i \in 1 .. n |-> f[i].start]
      BY <1>9, <1>15 DEF Starts
    <3>2. [i \in 1 .. n |-> f[i].start] = [i \in 1 .. n |-> z[i]]
      BY <1>8
    <3>3. z = [i \in 1 .. n |-> z[i]]
      BY <1>6
    <3> QED BY <3>1, <3>2, <3>3
  <2>2. Closable' = DOMAIN files
    BY <1>1, <1>2 DEF Closable
  <2>3. \A i \in 1 .. n : Topped(f[i].start, f[i].max_seq)' /\ f[i].dek = Body!LoadCipher(f[i].start)'.dek
    <3> SUFFICES ASSUME NEW i \in 1 .. n
                 PROVE  Topped(f[i].start, f[i].max_seq)' /\ f[i].dek = Body!LoadCipher(f[i].start)'.dek
      OBVIOUS
    <3>1. PICK s : s = z[i] /\ s = f[i].start
      BY <1>8
    <3>2. /\ \A j \in DOMAIN Items(s) : Items(s)[j].seq <= f[i].max_seq
          /\ \E j \in DOMAIN Items(s) : Items(s)[j].seq = f[i].max_seq
          /\ f[i].dek = Body!LoadCipher(s).dek
      BY <1>8, <3>1
    <3>3. Topped(s, f[i].max_seq)'
      BY <1>16, <3>2 DEF Topped
    <3> QED BY <1>c, <3>1, <3>2, <3>3
  <2>4. ASSUME NEW s \in DOMAIN files PROVE s <= m /\ \A i \in DOMAIN Items(s) : Items(s)[i].seq < m
    <3>1. PICK i \in 1 .. n : z[i] = s
      BY <1>6
    <3>2. m > f[i].max_seq /\ f[i].max_seq \in Nat
      BY <1>8, <1>9, <1>12
    <3>3. \A j \in DOMAIN Items(s) : Items(s)[j].seq <= f[i].max_seq
      BY <1>8, <3>1
    <3>4. /\ \A j \in DOMAIN Items(s) : Items(s)[j].seq \in Nat
          /\ s \in Nat
      BY BodyParts DEF BodyInv
    <3>5. PICK j \in DOMAIN Items(s) : Items(s)[j].seq = f[i].max_seq
      BY <1>8, <3>1
    <3>6. s <= Items(s)[j].seq
      BY DEF BodyInv, Ordered
    <3>7. s <= f[i].max_seq
      BY <3>5, <3>6
    <3>8. s <= m
      BY <1>13, <3>2, <3>4, <3>7
    <3>9. \A h \in DOMAIN Items(s) : Items(s)[h].seq < m
      BY <1>13, <3>2, <3>3, <3>4
    <3> QED BY <3>8, <3>9
  <2> QED BY <1>1, <1>2, <1>5, <1>9, <1>15, <1>16, <2>1, <2>2, <2>3, <2>4 DEF Listed
<1>23. Lasting'
  BY <1>1, <1>16 DEF BodyInv, Lasting, Body!SeqsFresh
<1> QED BY <1>18, <1>19, <1>20, <1>21, <1>22, <1>23 DEF BodyInv

\* For any segment size, appends, crashes between appends or before the file
\* of a new segment is there, rotations, collections and first encryption, every
\* body whose append returned is found by a replay until it is released
\* (iter_from), no sequence number is given to two events, open never refuses
\* what a process left, and no record is sealed with another key than its
\* segment's sidecar names.
THEOREM BodiesSurvive ==
  ASSUME Survivable
  PROVE  Body!Spec => [](Body!BodiesKept /\ Body!SeqsFresh /\ Body!OpensAgain /\ Body!SealedAsTold)
<1>1. BodyInv /\ [Body!Next]_(Body!vars) => BodyInv'
  <2> SUFFICES ASSUME BodyInv, [Body!Next]_(Body!vars) PROVE BodyInv'
    OBVIOUS
  <2>1. CASE UNCHANGED Body!vars
    <3>1. UNCHANGED <<files, metas, store, handle, pc, count, acked, floor>>
      BY <2>1 DEF Body!vars
    <3>2. \A s : /\ Items(s)' = Items(s) /\ (Made(s)' <=> Made(s)) /\ Body!LoadCipher(s)' = Body!LoadCipher(s)
                /\ \A i : Begun(s, i)' <=> Begun(s, i)
      BY <3>1 DEF Items, Made, Begun, Body!LoadCipher, Body!Unwraps, Body!Writable, Body!Last
    <3>3. \A s, m : Topped(s, m)' <=> Topped(s, m)
      BY <3>2 DEF Topped
    <3>4. Closable' = Closable /\ Starts' = Starts /\ Body!Writable' = Body!Writable
          /\ Body!Record' = Body!Record
      BY <3>1 DEF Closable, Starts, Body!Writable, Body!Record, Body!Last
    <3>5. BodyShape'
      BY <3>1 DEF BodyInv, BodyShape, Body!Closed
    <3>6. Ordered' /\ AllWhole' /\ Keyed'
      BY <3>1, <3>2 DEF BodyInv, Ordered, AllWhole, Keyed, Body!Wrap
    <3>7. Listed'
      BY <3>1, <3>2, <3>3, <3>4 DEF BodyInv, Listed, Lists, Body!Item
    <3>8. Lasting'
      BY <3>1, <3>2 DEF BodyInv, Lasting, Body!SeqsFresh, Body!Item
    <3> QED BY <3>5, <3>6, <3>7, <3>8 DEF BodyInv
  <2>2. CASE Body!BeginAppend \/ Body!Enable \/ Body!Rotate
    BY <2>2, BodyAsked
  <2>3. CASE Body!WriteMeta
    BY <2>3, BodyMeta
  <2>4. CASE Body!CreateFile
    BY <2>4, BodyCreate
  <2>5. CASE Body!WriteHeader
    BY <2>5, BodyHeader
  <2>6. CASE Body!WriteRecord
    BY <2>6, BodyRecord
  <2>7. CASE Body!WritePayload
    BY <2>7, BodyPayload
  <2>8. CASE Body!Crash
    BY <2>8, BodyCrash
  <2>9. CASE Body!Open
    BY <2>9, BodyOpen
  <2>10. CASE \E min \in 1 .. MaxAppends : Body!IsOpen /\ min <= store.next_seq /\ Body!Gc(min)
    <3>1. PICK min \in 1 .. MaxAppends : Body!Gc(min)
      BY <2>10
    <3>2. min \in Nat
      BY DEF Survivable
    <3> QED BY <3>1, <3>2, BodyGc
  <2> QED BY <2>1, <2>2, <2>3, <2>4, <2>5, <2>6, <2>7, <2>8, <2>9, <2>10 DEF Body!Next
<1> QED BY <1>1, BodyInit, BodyFound, PTL DEF Body!Spec
=============================================================================
