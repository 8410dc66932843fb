------------------------ MODULE Connectors_proofs ------------------------
(***************************************************************************)
(* What the connectors promise, for any number of outputs or messages, any *)
(* batch size, ring and number of faults: what a confirming sink reports   *)
(* is in the downstream system, and with one publish or one transaction at *)
(* a time nothing reaches it before an earlier output; what the sources    *)
(* can lose; and what the spill count of the push buffer behind some of    *)
(* them can drift to, for any senders.                                     *)
(***************************************************************************)
EXTENDS SinkConnectors, FiniteSetTheorems, TLAPS

\* The sources.
CONSTANTS SourceKind, MaxMade, Batch, Cap, Ring, FlushEvery, MaxBreaks, MaxCrashes
VARIABLES st, made, conn, reader, hold, pend, buf, flight, delivered, cursor, unflushed, token,
          breaks, crashes

Src == INSTANCE SourceConnectors WITH Kind <- SourceKind, N <- MaxMade, pc <- reader

\* The push buffer.
CONSTANTS Senders, Checking, ChannelCapacity, SpillThreshold, MaxGone
VARIABLES sends, seen, queue, chan, spill_count, overloaded, at, taken, remaining, gone

Buffer == INSTANCE PushBuffer WITH pc <- sends, batch <- taken

-----------------------------------------------------------------------------
(* What is reported is there.                                              *)

\* A sink that reports what it saw confirmed: it hands nothing over to a client
\* task, and does not rely on Kafka's flush.  Only Kafka has transactions.
Confirming ==
  /\ Kind # "queue" /\ ~(Kind = "kafka" /\ Strategy = "UnorderedBatch")
  /\ Transactional \in BOOLEAN /\ (Transactional => Kind = "kafka")
  /\ N \in Nat /\ BatchSize \in Nat \ {0} /\ MaxFaults \in Nat

Publishes == [id : Outputs, st : {"wait", "ok", "err"}]

\* Types; a confirmation that is waited for or kept is one of a publish.
SinkTypes ==
  /\ next \in 1..(N + 1) /\ sent \in Seq(Publishes) /\ dropped \in 0..Len(sent)
  /\ staged \in Seq(Outputs) /\ broker \in Seq(Outputs)
  /\ pc \in {"idle", "send", "ended"} /\ batch \in Seq(Outputs)
  /\ futures \in Seq(Nat) /\ \A i \in 1..Len(futures) : futures[i] \in 1..Len(sent)
  /\ stash \in Seq(Nat) /\ \A i \in 1..Len(stash) : stash[i] \in 1..Len(sent)
  /\ pending \subseteq Outputs /\ reported \subseteq Outputs

\* What was published and what is left of a batch are the outputs from next on.
BatchInOrder ==
  pc = "send" =>
    /\ next + Len(futures) + Len(batch) <= N + 1
    /\ \A i \in 1..Len(futures) : sent[futures[i]].id = next + i - 1
    /\ \A i \in 1..Len(batch) : batch[i] = next + Len(futures) + i - 1

\* What was confirmed was taken: at once, or in the open transaction.
ConfirmedTaken ==
  /\ ~Transactional => \A h \in 1..Len(sent) : Is(h, "ok") => sent[h].id \in ToSet(broker)
  /\ Transactional /\ pc = "send" =>
       \A i \in 1..Len(futures) : Is(futures[i], "ok") => sent[futures[i]].id \in ToSet(staged)

\* Every pending output has a confirmation kept for flush.
PendingKept == pending \subseteq Ids(stash) /\ (pending # {} => Strategy = "UnorderedBatch")

ReportInv == SinkTypes /\ BatchInOrder /\ ConfirmedTaken /\ PendingKept /\ ReportedIsThere

\* What a sequence holds after an append or a concatenation.
LEMMA ToSetAppend ==
  ASSUME NEW S, NEW s \in Seq(S), NEW x \in S
  PROVE  Append(s, x) \in Seq(S) /\ ToSet(Append(s, x)) = ToSet(s) \cup {x}
  <1>1. /\ Append(s, x) \in Seq(S) /\ Len(Append(s, x)) = Len(s) + 1
        /\ \A i \in 1..Len(s) : Append(s, x)[i] = s[i]
        /\ Append(s, x)[Len(s) + 1] = x
    OBVIOUS
  <1>2. DOMAIN s = 1..Len(s) /\ DOMAIN Append(s, x) = 1..(Len(s) + 1) /\ Len(s) \in Nat
    BY <1>1
  <1>3. ToSet(s) \subseteq ToSet(Append(s, x)) /\ x \in ToSet(Append(s, x))
    BY <1>1, <1>2 DEF ToSet
  <1>4. ToSet(Append(s, x)) \subseteq ToSet(s) \cup {x}
    BY <1>1, <1>2 DEF ToSet
  <1> QED  BY <1>1, <1>3, <1>4

LEMMA ToSetConcat ==
  ASSUME NEW S, NEW s \in Seq(S), NEW t \in Seq(S)
  PROVE  s \o t \in Seq(S) /\ ToSet(s \o t) = ToSet(s) \cup ToSet(t)
  <1>1. s \o t \in Seq(S) /\ ToSet(s \o t) \subseteq ToSet(s) \cup ToSet(t)
    BY DEF ToSet
  <1>2. ToSet(s) \subseteq ToSet(s \o t)
    BY DEF ToSet
  <1>3. ASSUME NEW i \in 1..Len(t)  PROVE t[i] \in ToSet(s \o t)
    <2>1. Len(s) + i \in 1..Len(s \o t) /\ (s \o t)[Len(s) + i] = t[i]
      OBVIOUS
    <2> QED  BY <1>1, <2>1 DEF ToSet
  <1>4. ToSet(t) \subseteq ToSet(s \o t)
    BY <1>3 DEF ToSet
  <1> QED  BY <1>1, <1>2, <1>4

\* A sequence is one over any set that has its elements.
LEMMA SeqOver ==
  ASSUME NEW S, NEW T, NEW s \in Seq(S), \A i \in 1..Len(s) : s[i] \in T
  PROVE  s \in Seq(T)
  OBVIOUS

\* A set of natural numbers that has a member has a least one.
LEMMA LeastExists ==
  ASSUME NEW T \in SUBSET Nat, T # {}
  PROVE  \E n \in T : \A m \in T : n <= m
  <1> DEFINE R == {mn \in Nat \X Nat : mn[1] < mn[2]}
  <1>1. IsWellFoundedOn(R, Nat)
    BY NatLessThanWellFounded, Zenon DEF OpToRel
  <1>2. \E n \in T : \A m \in T : <<m, n>> \notin R
    BY <1>1, WFMin, Zenon
  <1>3. \A m, n \in Nat : m < n => <<m, n>> \in R
    OBVIOUS
  <1> HIDE DEF R
  <1>4. PICK n \in T : \A m \in T : <<m, n>> \notin R
    BY <1>2
  <1>5. ASSUME NEW m \in T  PROVE n <= m
    <2>1. m \in Nat /\ n \in Nat
      OBVIOUS
    <2>2. ~(m < n)
      BY <1>3, <1>4, <2>1, Zenon
    <2> QED  BY <2>1, <2>2
  <1> QED  BY <1>5

\* The start of a new pipeline: the first output that was not reported.
LEMMA FirstUnreported ==
  ASSUME N \in Nat, reported \subseteq Outputs
  PROVE  LET n == CHOOSE n \in 1..(N + 1) : n \notin reported /\ \A m \in 1..(n - 1) : m \in reported
         IN  n \in 1..(N + 1) /\ \A m \in 1..(n - 1) : m \in reported
  <1> DEFINE T == {n \in 1..(N + 1) : n \notin reported}
  <1>1. T \in SUBSET Nat /\ N + 1 \in T
    BY DEF Outputs
  <1>2. PICK n \in T : \A m \in T : n <= m
    BY <1>1, LeastExists
  <1>3. \A m \in 1..(n - 1) : m \in reported
    BY <1>2
  <1> QED  BY <1>2, <1>3

\* An answer changes what became of one publish and no output.
LEMMA AnswerShape ==
  ASSUME SinkTypes, NEW h \in 1..Len(sent), NEW a \in {"ok", "err"},
         sent' = [sent EXCEPT ![h].st = a]
  PROVE  /\ sent' \in Seq(Publishes) /\ Len(sent') = Len(sent)
         /\ \A g \in 1..Len(sent) : /\ sent'[g].id = sent[g].id
                                   /\ sent'[g].st = IF g = h THEN a ELSE sent[g].st
  <1>1. sent \in Seq(Publishes) /\ sent[h] \in Publishes
    BY DEF SinkTypes
  <1>2. \A g \in 1..Len(sent) : sent'[g] = IF g = h THEN [sent[h] EXCEPT !.st = a] ELSE sent[g]
    BY <1>1
  <1>3. [sent[h] EXCEPT !.st = a] \in Publishes /\ [sent[h] EXCEPT !.st = a].id = sent[h].id
        /\ [sent[h] EXCEPT !.st = a].st = a
    BY <1>1 DEF Publishes
  <1>4. sent' \in Seq(Publishes) /\ Len(sent') = Len(sent)
    BY <1>1, <1>3
  <1> QED  BY <1>2, <1>3, <1>4

\* What waits was published, and carries an output.
LEMMA WaitingSent ==
  ASSUME SinkTypes, NEW h \in Waiting
  PROVE  h \in 1..Len(sent) /\ sent[h].id \in Outputs /\ Is(h, "wait")
  <1>1. h \in (dropped + 1)..Len(sent) /\ Is(h, "wait")
    BY DEF Waiting
  <1>2. h \in 1..Len(sent)
    BY <1>1 DEF SinkTypes
  <1>3. sent[h] \in Publishes
    BY <1>2 DEF SinkTypes
  <1> QED  BY <1>1, <1>2, <1>3 DEF Publishes

\* A publish is added behind the others and waits.
LEMMA PublishShape ==
  ASSUME SinkTypes, NEW x \in Outputs, sent' = Append(sent, [id |-> x, st |-> "wait"])
  PROVE  /\ sent' \in Seq(Publishes) /\ Len(sent') = Len(sent) + 1
         /\ \A g \in 1..Len(sent) : sent'[g] = sent[g]
         /\ sent'[Len(sent) + 1] = [id |-> x, st |-> "wait"]
  <1>1. [id |-> x, st |-> "wait"] \in Publishes
    BY DEF Publishes
  <1> QED  BY <1>1 DEF SinkTypes

\* The downstream system takes an output: it only adds to what it has.
LEMMA TakesAdds ==
  ASSUME SinkTypes, NEW x \in Outputs, Transactional \in BOOLEAN, Takes(x)
  PROVE  /\ broker' \in Seq(Outputs) /\ staged' \in Seq(Outputs)
         /\ ToSet(broker) \subseteq ToSet(broker') /\ ToSet(staged) \subseteq ToSet(staged')
         /\ ~Transactional => x \in ToSet(broker')
         /\ Transactional => x \in ToSet(staged')
  <1>1. CASE Transactional
    <2>1. staged' = Append(staged, x) /\ broker' = broker
      BY <1>1 DEF Takes
    <2>2. staged' \in Seq(Outputs) /\ ToSet(staged') = ToSet(staged) \cup {x}
      BY <2>1, ToSetAppend DEF SinkTypes
    <2> QED  BY <1>1, <2>1, <2>2 DEF SinkTypes
  <1>2. CASE ~Transactional
    <2>1. broker' = Append(broker, x) /\ staged' = staged
      BY <1>2 DEF Takes
    <2>2. broker' \in Seq(Outputs) /\ ToSet(broker') = ToSet(broker) \cup {x}
      BY <2>1, ToSetAppend DEF SinkTypes
    <2> QED  BY <1>2, <2>1, <2>2 DEF SinkTypes
  <1> QED  BY <1>1, <1>2

\* A step of the downstream system keeps the invariant.
LEMMA AnswerKeepsReport ==
  ASSUME Confirming, ReportInv, Accept \/ Refuse
  PROVE  ReportInv'
  <1>1. PICK h \in Waiting, a \in {"ok", "err"} :
          /\ sent' = [sent EXCEPT ![h].st = a]
          /\ Takes(sent[h].id) \/ (a = "err" /\ UNCHANGED <<staged, broker>>)
          /\ UNCHANGED <<next, dropped, sink, reported>>
    <2>1. CASE Accept
      <3> PICK h \in Waiting : Takes(sent[h].id) /\ sent' = [sent EXCEPT ![h].st = "ok"]
        BY <2>1 DEF Accept
      <3> QED  BY <2>1 DEF Accept, report
    <2>2. CASE Refuse
      <3> PICK h \in Waiting : /\ Takes(sent[h].id) \/ UNCHANGED <<staged, broker>>
                               /\ sent' = [sent EXCEPT ![h].st = "err"]
        BY <2>2 DEF Refuse
      <3> QED  BY <2>2 DEF Refuse, report
    <2> QED  BY <2>1, <2>2
  <1>2. h \in 1..Len(sent) /\ sent[h].id \in Outputs
    BY WaitingSent DEF ReportInv
  <1>3. /\ sent' \in Seq(Publishes) /\ Len(sent') = Len(sent)
        /\ \A g \in 1..Len(sent) : /\ sent'[g].id = sent[g].id
                                  /\ sent'[g].st = IF g = h THEN a ELSE sent[g].st
    BY <1>1, <1>2, AnswerShape DEF ReportInv
  <1>4. /\ broker' \in Seq(Outputs) /\ staged' \in Seq(Outputs)
        /\ ToSet(broker) \subseteq ToSet(broker') /\ ToSet(staged) \subseteq ToSet(staged')
        /\ a = "ok" => /\ ~Transactional => sent[h].id \in ToSet(broker')
                       /\ Transactional => sent[h].id \in ToSet(staged')
    <2>1. CASE Takes(sent[h].id)
      BY <1>2, <2>1, TakesAdds DEF ReportInv, Confirming
    <2>2. CASE a = "err" /\ UNCHANGED <<staged, broker>>
      BY <2>2 DEF ReportInv, SinkTypes
    <2> QED  BY <1>1, <2>1, <2>2
  <1>5. UNCHANGED <<next, dropped, pc, batch, futures, stash, pending, reported>>
    BY <1>1 DEF sink
  <1>6. SinkTypes'
    BY <1>3, <1>4, <1>5 DEF ReportInv, SinkTypes
  <1>7. BatchInOrder'
    BY <1>3, <1>5 DEF ReportInv, SinkTypes, BatchInOrder
  <1>8. ConfirmedTaken'
    BY <1>2, <1>3, <1>4, <1>5 DEF ReportInv, SinkTypes, ConfirmedTaken, Is
  <1>9. PendingKept'
    <2>0. DOMAIN stash = 1..Len(stash) /\ \A i \in 1..Len(stash) : stash[i] \in 1..Len(sent)
      BY DEF ReportInv, SinkTypes
    <2>1. ToSet(stash) \subseteq 1..Len(sent)
      BY <2>0 DEF ToSet
    <2>2. Ids(stash)' = Ids(stash)
      BY <1>3, <1>5, <2>1 DEF Ids
    <2> QED  BY <1>5, <2>2 DEF ReportInv, PendingKept
  <1>10. ReportedIsThere'
    BY <1>4, <1>5 DEF ReportInv, ReportedIsThere
  <1> QED  BY <1>6, <1>7, <1>8, <1>9, <1>10 DEF ReportInv

\* write_batch up to its publishes keeps the invariant.
LEMMA WriteKeepsReport ==
  ASSUME Confirming, ReportInv, Write
  PROVE  ReportInv'
  <1> DEFINE all == [i \in Outputs |-> i]
             last == IF next + BatchSize - 1 <= N THEN next + BatchSize - 1 ELSE N
  <1>1. all \in Seq(Outputs) /\ Len(all) = N /\ \A i \in 1..N : all[i] = i
    BY DEF Confirming, Outputs
  <1>2. next \in 1..N /\ last \in next..N
    BY DEF Write, ReportInv, SinkTypes, Confirming
  <1>3. batch' = SubSeq(all, next, last)
    BY DEF Write
  <1>4. /\ batch' \in Seq(Outputs) /\ Len(batch') = last - next + 1
        /\ \A i \in 1..Len(batch') : batch'[i] = next + i - 1
    <2> HIDE DEF all, last
    <2> QED  BY <1>1, <1>2, <1>3 DEF Confirming
  <1>5. /\ UNCHANGED <<next, sent, dropped, broker, stash, pending, reported>>
        /\ pc' = "send" /\ futures' = <<>> /\ staged' = <<>>
    BY DEF Write, report
  <1> HIDE DEF last
  <1>6. SinkTypes'
    BY <1>4, <1>5 DEF ReportInv, SinkTypes
  <1>7. BatchInOrder'
    BY <1>2, <1>4, <1>5 DEF BatchInOrder, Confirming
  <1>8. ConfirmedTaken'
    BY <1>5 DEF ReportInv, ConfirmedTaken, Is
  <1>9. PendingKept' /\ ReportedIsThere'
    BY <1>5 DEF ReportInv, PendingKept, ReportedIsThere, Ids
  <1> QED  BY <1>6, <1>7, <1>8, <1>9 DEF ReportInv

\* A publish keeps the invariant.
LEMMA PublishKeepsReport ==
  ASSUME Confirming, ReportInv, Publish
  PROVE  ReportInv'
  <1>1. /\ batch \in Seq(Outputs) /\ batch # <<>> /\ Head(batch) \in Outputs
        /\ Head(batch) = batch[1] /\ batch' = Tail(batch)
    BY DEF Publish, ReportInv, SinkTypes
  <1>2. /\ Tail(batch) \in Seq(Outputs) /\ Len(Tail(batch)) = Len(batch) - 1 /\ Len(batch) >= 1
        /\ \A i \in 1..(Len(batch) - 1) : Tail(batch)[i] = batch[i + 1]
    BY <1>1
  <1>3. /\ sent' \in Seq(Publishes) /\ Len(sent') = Len(sent) + 1
        /\ \A g \in 1..Len(sent) : sent'[g] = sent[g]
        /\ sent'[Len(sent) + 1] = [id |-> Head(batch), st |-> "wait"]
    BY <1>1, PublishShape DEF Publish, ReportInv
  <1>4. /\ futures' \in Seq(Nat) /\ Len(futures') = Len(futures) + 1
        /\ \A i \in 1..Len(futures) : futures'[i] = futures[i]
        /\ futures'[Len(futures) + 1] = Len(sent) + 1
    BY DEF Publish, ReportInv, SinkTypes
  <1>5. pc = "send" /\ UNCHANGED <<next, dropped, staged, broker, pc, stash, pending, reported>>
    BY DEF Publish, report
  <1>a. /\ Len(sent) \in Nat /\ Len(futures) \in Nat /\ Len(batch) \in Nat /\ next \in Nat
        /\ \A j \in 1..Len(futures') : j \in 1..Len(futures) \/ j = Len(futures) + 1
        /\ \A g \in 1..Len(sent') : g \in 1..Len(sent) \/ g = Len(sent) + 1
    <2>1. Len(sent) \in Nat /\ Len(futures) \in Nat /\ Len(batch) \in Nat /\ next \in Nat
      BY DEF ReportInv, SinkTypes
    <2>2. Len(futures') = Len(futures) + 1 /\ Len(sent') = Len(sent) + 1
      BY <1>3, <1>4
    <2> QED  BY <2>1, <2>2
  <1>b. \A i \in 1..Len(futures) : futures[i] \in 1..Len(sent)
    BY DEF ReportInv, SinkTypes
  <1>6. SinkTypes'
    <2>1. ASSUME NEW i \in 1..Len(futures')  PROVE futures'[i] \in 1..Len(sent')
      <3>1. CASE i \in 1..Len(futures)
        <4>1. futures'[i] = futures[i] /\ futures[i] \in 1..Len(sent)
          BY <1>4, <1>b, <3>1
        <4> QED  BY <1>3, <1>a, <4>1
      <3>2. CASE i = Len(futures) + 1
        BY <1>3, <1>4, <1>a, <3>2
      <3> QED  BY <1>a, <3>1, <3>2
    <2>2. \A i \in 1..Len(stash') : stash'[i] \in 1..Len(sent')
      BY <1>3, <1>5, <1>a DEF ReportInv, SinkTypes
    <2>3. dropped' \in 0..Len(sent')
      BY <1>3, <1>5, <1>a DEF ReportInv, SinkTypes
    <2> QED  BY <1>1, <1>2, <1>3, <1>4, <1>5, <2>1, <2>2, <2>3 DEF ReportInv, SinkTypes
  <1>7. BatchInOrder'
    <2>0. /\ next + Len(futures) + Len(batch) <= N + 1
          /\ \A i \in 1..Len(futures) : sent[futures[i]].id = next + i - 1
          /\ \A i \in 1..Len(batch) : batch[i] = next + Len(futures) + i - 1
      BY <1>5 DEF ReportInv, BatchInOrder
    <2>1. ASSUME NEW i \in 1..Len(futures')  PROVE sent'[futures'[i]].id = next + i - 1
      <3>1. CASE i \in 1..Len(futures)
        <4>1. futures'[i] = futures[i] /\ futures[i] \in 1..Len(sent)
          BY <1>4, <1>b, <3>1
        <4>2. sent'[futures'[i]] = sent[futures[i]]
          BY <1>3, <4>1
        <4> QED  BY <2>0, <3>1, <4>2
      <3>2. CASE i = Len(futures) + 1
        <4>1. sent'[futures'[i]].id = batch[1]
          BY <1>1, <1>3, <1>4, <3>2
        <4>2. batch[1] = next + Len(futures) + 1 - 1
          BY <1>2, <1>a, <2>0
        <4> QED  BY <1>a, <3>2, <4>1, <4>2
      <3> QED  BY <1>a, <3>1, <3>2
    <2>2. /\ next + Len(futures') + Len(batch') <= N + 1
          /\ \A i \in 1..Len(batch') : batch'[i] = next + Len(futures') + i - 1
      BY <1>1, <1>2, <1>4, <1>a, <2>0 DEF Confirming
    <2> QED  BY <1>5, <2>1, <2>2 DEF BatchInOrder
  <1>8. ConfirmedTaken'
    <2>1. ASSUME ~Transactional, NEW h \in 1..Len(sent'), sent'[h].st = "ok"
          PROVE  sent'[h].id \in ToSet(broker')
      BY <1>3, <1>5, <1>a, <2>1 DEF ReportInv, ConfirmedTaken, Is
    <2>2. ASSUME Transactional, NEW i \in 1..Len(futures'), sent'[futures'[i]].st = "ok"
          PROVE  sent'[futures'[i]].id \in ToSet(staged')
      <3>1. i \in 1..Len(futures)
        BY <1>3, <1>4, <1>a, <2>2
      <3>2. sent'[futures'[i]] = sent[futures[i]]
        BY <1>3, <1>4, <1>b, <3>1
      <3> QED  BY <1>5, <2>2, <3>1, <3>2 DEF ReportInv, ConfirmedTaken, Is
    <2> QED  BY <2>1, <2>2 DEF ConfirmedTaken, Is
  <1>9. PendingKept'
    <2>0. DOMAIN stash = 1..Len(stash) /\ \A i \in 1..Len(stash) : stash[i] \in 1..Len(sent)
      BY DEF ReportInv, SinkTypes
    <2>1. ToSet(stash) \subseteq 1..Len(sent)
      BY <2>0 DEF ToSet
    <2> QED  BY <1>3, <1>5, <2>1 DEF ReportInv, PendingKept, Ids
  <1>10. ReportedIsThere'
    BY <1>5 DEF ReportInv, ReportedIsThere
  <1> QED  BY <1>6, <1>7, <1>8, <1>9, <1>10 DEF ReportInv

\* The outputs of the confirmations a write waits for.
LEMMA IdsOfFutures ==
  ASSUME SinkTypes, NEW x \in Ids(futures)
  PROVE  \E i \in 1..Len(futures) : /\ futures[i] \in 1..Len(sent) /\ futures[i] \in ToSet(futures)
                                   /\ x = sent[futures[i]].id /\ x \in Outputs
  <1>1. PICK h \in ToSet(futures) : x = sent[h].id
    BY DEF Ids
  <1>2. PICK i \in 1..Len(futures) : h = futures[i]
    BY <1>1 DEF ToSet, SinkTypes
  <1>3. h \in 1..Len(sent)
    BY <1>2 DEF SinkTypes
  <1>4. sent[h] \in Publishes
    BY <1>3 DEF SinkTypes
  <1> QED  BY <1>1, <1>2, <1>3, <1>4 DEF Publishes

\* A write that returns leaves the output after its batch as the next one.
LEMMA ReturnTypes ==
  ASSUME Confirming, ReportInv, pc = "send", batch = <<>>
  PROVE  Ids(futures) \subseteq Outputs /\ next + Len(futures) \in 1..(N + 1)
  <1>1. Ids(futures) \subseteq Outputs
    BY IdsOfFutures DEF ReportInv
  <1>2. Len(futures) \in Nat /\ next \in 1..(N + 1) /\ Len(batch) = 0
    BY DEF ReportInv, SinkTypes
  <1>3. next + Len(futures) + Len(batch) <= N + 1
    BY DEF ReportInv, BatchInOrder
  <1> QED  BY <1>1, <1>2, <1>3 DEF Confirming

\* A write that reports what it saw confirmed keeps the invariant, with or
\* without a transaction.
LEMMA ReturnKeepsReport ==
  ASSUME Confirming, ReportInv, Delivered \/ Commit
  PROVE  ReportInv'
  <1>1. /\ pc = "send" /\ batch = <<>> /\ All(futures, "ok")
        /\ reported' = reported \cup Ids(futures) /\ next' = next + Len(futures)
        /\ futures' = <<>> /\ pc' = "idle" /\ UNCHANGED <<sent, dropped, batch, stash, pending>>
    BY DEF Delivered, Commit, Return
  <1>2. /\ broker' \in Seq(Outputs) /\ staged' \in Seq(Outputs)
        /\ ToSet(broker) \subseteq ToSet(broker')
        /\ Transactional => ToSet(staged) \subseteq ToSet(broker')
    <2>1. CASE Delivered
      BY <2>1 DEF Delivered, ReportInv, SinkTypes
    <2>2. CASE Commit
      <3>1. broker' = broker \o staged /\ staged' = <<>>
        BY <2>2 DEF Commit
      <3>2. broker \in Seq(Outputs) /\ staged \in Seq(Outputs)
        BY DEF ReportInv, SinkTypes
      <3>3. broker' \in Seq(Outputs) /\ ToSet(broker') = ToSet(broker) \cup ToSet(staged)
        BY <3>1, <3>2, ToSetConcat
      <3> QED  BY <3>1, <3>3
    <2> QED  BY <2>1, <2>2
  <1>3. Ids(futures) \subseteq Outputs /\ next + Len(futures) \in 1..(N + 1)
    BY <1>1, ReturnTypes
  <1>4. Ids(futures) \subseteq ToSet(broker')
    <2> SUFFICES ASSUME NEW x \in Ids(futures)  PROVE x \in ToSet(broker')
      OBVIOUS
    <2>1. PICK i \in 1..Len(futures) :
            /\ futures[i] \in 1..Len(sent) /\ futures[i] \in ToSet(futures)
            /\ x = sent[futures[i]].id
      BY IdsOfFutures DEF ReportInv
    <2>2. Is(futures[i], "ok")
      BY <1>1, <2>1 DEF All
    <2>3. CASE Transactional
      BY <1>1, <1>2, <2>1, <2>2, <2>3 DEF ReportInv, ConfirmedTaken
    <2>4. CASE ~Transactional
      BY <1>2, <2>1, <2>2, <2>4 DEF ReportInv, ConfirmedTaken
    <2> QED  BY <2>3, <2>4
  <1>5. SinkTypes'
    BY <1>1, <1>2, <1>3 DEF ReportInv, SinkTypes
  <1>6. BatchInOrder' /\ PendingKept'
    BY <1>1 DEF ReportInv, BatchInOrder, PendingKept, Ids
  <1>7. ConfirmedTaken'
    BY <1>1, <1>2 DEF ReportInv, ConfirmedTaken, Is
  <1>8. ReportedIsThere'
    BY <1>1, <1>2, <1>4 DEF ReportInv, ReportedIsThere
  <1> QED  BY <1>5, <1>6, <1>7, <1>8 DEF ReportInv

\* An error ends the sink task and reports nothing.
LEMMA FailKeepsReport ==
  ASSUME Confirming, ReportInv, CommitFails \/ WriteFails \/ PublishFails \/ FlushFails
  PROVE  ReportInv'
  <1>1. pc' = "ended" /\ UNCHANGED <<next, sent, dropped, batch, futures, stash, pending, reported>>
    BY DEF CommitFails, WriteFails, PublishFails, FlushFails, Fail
  <1>2. /\ broker' \in Seq(Outputs) /\ staged' \in Seq(Outputs)
        /\ ToSet(broker) \subseteq ToSet(broker')
    <2>1. broker \in Seq(Outputs) /\ staged \in Seq(Outputs)
      BY DEF ReportInv, SinkTypes
    <2>2. broker' \in {broker, broker \o staged} /\ staged' \in {staged, <<>>}
      BY DEF CommitFails, WriteFails, PublishFails, FlushFails
    <2>3. broker \o staged \in Seq(Outputs) /\ ToSet(broker) \subseteq ToSet(broker \o staged)
      BY <2>1, ToSetConcat
    <2>4. <<>> \in Seq(Outputs)
      OBVIOUS
    <2> QED  BY <2>1, <2>2, <2>3, <2>4
  <1>3. SinkTypes'
    BY <1>1, <1>2 DEF ReportInv, SinkTypes
  <1>4. BatchInOrder' /\ PendingKept'
    BY <1>1 DEF ReportInv, BatchInOrder, PendingKept, Ids
  <1>5. ConfirmedTaken' /\ ReportedIsThere'
    BY <1>1, <1>2 DEF ReportInv, ConfirmedTaken, ReportedIsThere, Is
  <1> QED  BY <1>3, <1>4, <1>5 DEF ReportInv

\* Outputs that are reported as pending keep their confirmations.
LEMMA PendKeepsReport ==
  ASSUME Confirming, ReportInv, Pend
  PROVE  ReportInv'
  <1>1. /\ pc = "send" /\ batch = <<>> /\ stash' = stash \o futures
        /\ pending' = pending \cup Ids(futures) /\ next' = next + Len(futures)
        /\ futures' = <<>> /\ pc' = "idle"
        /\ UNCHANGED <<sent, dropped, staged, broker, batch, reported>>
        /\ Strategy = "UnorderedBatch"
    BY DEF Pend, report
  <1>2. Ids(futures) \subseteq Outputs /\ next + Len(futures) \in 1..(N + 1)
    BY <1>1, ReturnTypes
  <1>3. stash \in Seq(1..Len(sent)) /\ futures \in Seq(1..Len(sent))
    BY SeqOver DEF ReportInv, SinkTypes
  <1>4. /\ stash' \in Seq(1..Len(sent))
        /\ ToSet(stash') = ToSet(stash) \cup ToSet(futures)
    BY <1>1, <1>3, ToSetConcat
  <1>5. stash' \in Seq(Nat) /\ \A i \in 1..Len(stash') : stash'[i] \in 1..Len(sent')
    BY <1>1, <1>4
  <1>6. SinkTypes'
    BY <1>1, <1>2, <1>5 DEF ReportInv, SinkTypes
  <1>7. BatchInOrder' /\ ConfirmedTaken' /\ ReportedIsThere'
    BY <1>1 DEF ReportInv, BatchInOrder, ConfirmedTaken, ReportedIsThere, Is
  <1>8. PendingKept'
    <2>1. Ids(stash)' = {sent[h].id : h \in ToSet(stash')}
      BY <1>1 DEF Ids
    <2> QED  BY <1>1, <1>4, <2>1 DEF ReportInv, PendingKept, Ids
  <1> QED  BY <1>6, <1>7, <1>8 DEF ReportInv

\* A flush reports the pending outputs, whose confirmations it has looked at.
LEMMA FlushKeepsReport ==
  ASSUME Confirming, ReportInv, Flush
  PROVE  ReportInv'
  <1>1. /\ IF Kind = "kafka" THEN Decided(stash) ELSE All(stash, "ok")
        /\ reported' = reported \cup pending /\ pending' = {} /\ stash' = <<>>
        /\ UNCHANGED <<next, sent, dropped, staged, broker, pc, batch, futures>>
    BY DEF Flush
  <1>2. pending \subseteq ToSet(broker)
    <2> SUFFICES ASSUME NEW x \in pending  PROVE x \in ToSet(broker)
      OBVIOUS
    <2>1. PICK h \in ToSet(stash) : x = sent[h].id
      BY DEF ReportInv, PendingKept, Ids
    <2>2. h \in 1..Len(sent)
      BY <2>1 DEF ReportInv, SinkTypes, ToSet
    <2>3. Kind # "kafka" /\ ~Transactional
      BY DEF ReportInv, PendingKept, Confirming
    <2>4. Is(h, "ok")
      BY <1>1, <2>1, <2>3 DEF All
    <2> QED  BY <2>1, <2>2, <2>3, <2>4 DEF ReportInv, ConfirmedTaken
  <1>3. SinkTypes'
    BY <1>1 DEF ReportInv, SinkTypes
  <1>4. BatchInOrder' /\ ConfirmedTaken'
    BY <1>1 DEF ReportInv, BatchInOrder, ConfirmedTaken, Is
  <1>5. PendingKept' /\ ReportedIsThere'
    BY <1>1, <1>2 DEF ReportInv, PendingKept, ReportedIsThere
  <1> QED  BY <1>3, <1>4, <1>5 DEF ReportInv

\* A new pipeline writes from the first output that was not reported.
LEMMA RestartKeepsReport ==
  ASSUME Confirming, ReportInv, Restart
  PROVE  ReportInv'
  <1>1. /\ dropped' = Len(sent) /\ staged' = <<>> /\ pc' = "idle" /\ batch' = <<>>
        /\ futures' = <<>> /\ stash' = <<>> /\ pending' = {} /\ UNCHANGED <<sent, reported>>
        /\ next' = CHOOSE n \in 1..(N + 1) : n \notin reported /\ \A m \in 1..(n - 1) : m \in reported
    BY DEF Restart, report
  <1>2. next' \in 1..(N + 1)
    BY <1>1, FirstUnreported DEF Confirming, ReportInv, SinkTypes
  <1>3. broker' \in Seq(Outputs) /\ ToSet(broker) \subseteq ToSet(broker')
    <2>0. PICK k \in 0..Cardinality(Waiting) : \E f \in [1..k -> Waiting] :
            broker' = IF Transactional THEN broker ELSE broker \o [i \in 1..k |-> sent[f[i]].id]
      BY DEF Restart
    <2>1. PICK f \in [1..k -> Waiting] :
            broker' = IF Transactional THEN broker ELSE broker \o [i \in 1..k |-> sent[f[i]].id]
      BY <2>0
    <2>2. k \in Nat
      <3>1. Waiting \subseteq 1..Len(sent)
        BY WaitingSent DEF ReportInv
      <3>2. IsFiniteSet(1..Len(sent))
        BY FS_Interval DEF ReportInv, SinkTypes
      <3>3. Cardinality(Waiting) \in Nat
        BY <3>1, <3>2, FS_Subset, FS_CardinalityType
      <3> QED  BY <3>3
    <2>3. \A i \in 1..k : sent[f[i]].id \in Outputs
      BY <2>1, WaitingSent DEF ReportInv
    <2> DEFINE late == [i \in 1..k |-> sent[f[i]].id]
    <2>4. late \in Seq(Outputs)
      BY <2>2, <2>3
    <2>5. broker \in Seq(Outputs)
      BY DEF ReportInv, SinkTypes
    <2>6. broker' \in {broker, broker \o late}
      BY <2>1
    <2> HIDE DEF late
    <2>7. broker \o late \in Seq(Outputs) /\ ToSet(broker) \subseteq ToSet(broker \o late)
      BY <2>4, <2>5, ToSetConcat
    <2> QED  BY <2>5, <2>6, <2>7
  <1>4. SinkTypes'
    BY <1>1, <1>2, <1>3 DEF ReportInv, SinkTypes
  <1>5. BatchInOrder' /\ PendingKept'
    BY <1>1 DEF BatchInOrder, PendingKept
  <1>6. ConfirmedTaken' /\ ReportedIsThere'
    BY <1>1, <1>3 DEF ReportInv, ConfirmedTaken, ReportedIsThere, Is
  <1> QED  BY <1>4, <1>5, <1>6 DEF ReportInv

\* What a confirming sink reports as delivered is in the downstream system, for
\* every strategy, batch size and number of outputs, whatever is refused, lost
\* or written again.
THEOREM ReportsAreThere ==
  ASSUME Confirming
  PROVE  Spec => []ReportedIsThere
  <1>1. Init => ReportInv
    BY DEF Init, Confirming, ReportInv, SinkTypes, BatchInOrder, ConfirmedTaken, PendingKept,
           ReportedIsThere, Outputs, Publishes
  <1>2. ReportInv /\ [Next]_vars => ReportInv'
    <2> SUFFICES ASSUME ReportInv, [Next]_vars  PROVE ReportInv'
      OBVIOUS
    <2>1. CASE UNCHANGED vars
      BY <2>1 DEF vars, ReportInv, SinkTypes, BatchInOrder, ConfirmedTaken, PendingKept,
                  ReportedIsThere, Ids, Is
    <2>2. ~HandedOver
      BY DEF HandedOver, Confirming
    <2> QED
      BY <2>1, <2>2, AnswerKeepsReport, WriteKeepsReport, PublishKeepsReport, ReturnKeepsReport,
         FailKeepsReport, PendKeepsReport, FlushKeepsReport, RestartKeepsReport
      DEF Next, SinkStep
  <1>3. ReportInv => ReportedIsThere
    BY DEF ReportInv
  <1> QED  BY <1>1, <1>2, <1>3, PTL DEF Spec

---------------------------------------------------------------------------
(* Order.                                                                    *)

\* One publish at a time, or one transaction at a time.
InTurn == Confirming /\ Strategy # "UnorderedBatch" /\ (Transactional \/ Strategy = "PerEvent")

\* Every output before the next one was reported.
ReportedBefore == \A m \in 1..(next - 1) : m \in reported

\* Every output the downstream system has was taken after all earlier ones.
Climbing(b) == \A i \in 1..Len(b) : \A a \in 1..(b[i] - 1) : \E j \in 1..(i - 1) : b[j] = a
Climbs == Climbing(broker)

\* One at a time: what is published comes after outputs that were taken.
SentInTurn ==
  ~Transactional =>
    \A h \in (dropped + 1)..Len(sent) : \A a \in 1..(sent[h].id - 1) : a \in ToSet(broker)

\* In transactions: the publishes of this write are the last ones, and nothing
\* else waits.
LastPublishes ==
  Transactional =>
    /\ pc = "idle" => Waiting = {}
    /\ pc = "send" => /\ dropped + Len(futures) <= Len(sent)
                      /\ \A i \in 1..Len(futures) : futures[i] = Len(sent) - Len(futures) + i
                      /\ \A h \in Waiting : h > Len(sent) - Len(futures)

\* Unless one was refused, the open transaction has the first of them in order.
StagedInTurn ==
  Transactional /\ pc = "send" /\ (\A i \in 1..Len(futures) : ~Is(futures[i], "err")) =>
    /\ Len(staged) <= Len(futures)
    /\ \A i \in 1..Len(staged) : staged[i] = next + i - 1
    /\ \A i \in 1..Len(futures) : Is(futures[i], "ok") <=> i <= Len(staged)

OrderInv ==
  ReportInv /\ ReportedBefore /\ Climbs /\ SentInTurn /\ LastPublishes /\ StagedInTurn

\* More outputs in order keep what is there in order.
LEMMA ClimbingConcat ==
  ASSUME NEW b \in Seq(Nat), NEW t \in Seq(Nat), Climbing(b),
         \A i \in 1..Len(t) : \A a \in 1..(t[i] - 1) :
            a \in ToSet(b) \/ \E j \in 1..(i - 1) : t[j] = a
  PROVE  Climbing(b \o t)
  <1> DEFINE c == b \o t
  <1>1. /\ Len(b) \in Nat /\ Len(t) \in Nat /\ Len(c) = Len(b) + Len(t)
        /\ \A i \in 1..Len(b) : c[i] = b[i]
        /\ \A i \in 1..Len(t) : c[Len(b) + i] = t[i]
    OBVIOUS
  <1> HIDE DEF c
  <1>2. ASSUME NEW i \in 1..Len(c), NEW a \in 1..(c[i] - 1)
        PROVE  \E j \in 1..(i - 1) : c[j] = a
    <2>1. CASE i \in 1..Len(b)
      <3>1. c[i] = b[i]
        BY <1>1, <2>1
      <3>2. PICK j \in 1..(i - 1) : b[j] = a
        BY <2>1, <3>1 DEF Climbing
      <3>3. j \in 1..Len(b)
        BY <1>1, <2>1
      <3> QED  BY <1>1, <3>2, <3>3
    <2>2. CASE i > Len(b)
      <3> DEFINE k == i - Len(b)
      <3>1. k \in 1..Len(t) /\ i = Len(b) + k
        BY <1>1, <2>2
      <3> HIDE DEF k
      <3>2. c[i] = t[k]
        BY <1>1, <3>1
      <3>3. CASE a \in ToSet(b)
        <4>1. PICK j \in 1..Len(b) : b[j] = a
          BY <3>3 DEF ToSet
        <4>2. j \in 1..(i - 1) /\ c[j] = a
          BY <1>1, <3>1, <4>1
        <4> QED  BY <4>2
      <3>4. CASE \E j \in 1..(k - 1) : t[j] = a
        <4>1. PICK j \in 1..(k - 1) : t[j] = a
          BY <3>4
        <4>2. j \in 1..Len(t) /\ Len(b) + j \in 1..(i - 1)
          BY <1>1, <3>1, <4>1
        <4>3. c[Len(b) + j] = a
          BY <1>1, <4>1, <4>2
        <4> QED  BY <4>2, <4>3
      <3> QED  BY <3>1, <3>2, <3>3, <3>4
    <2> QED  BY <1>1, <2>1, <2>2
  <1>3. Climbing(c)
    BY <1>2 DEF Climbing
  <1> QED  BY <1>3 DEF c

LEMMA ClimbingAppend ==
  ASSUME NEW b \in Seq(Nat), NEW x \in Nat, Climbing(b), \A a \in 1..(x - 1) : a \in ToSet(b)
  PROVE  Climbing(Append(b, x))
  <1>1. Append(b, x) = b \o <<x>> /\ <<x>> \in Seq(Nat) /\ Len(<<x>>) = 1 /\ <<x>>[1] = x
    OBVIOUS
  <1>2. \A i \in 1..Len(<<x>>) : <<x>>[i] = x
    BY <1>1
  <1> QED  BY <1>1, <1>2, ClimbingConcat

\* An output that is in a sequence has a first occurrence.
LEMMA FirstOccurrence ==
  ASSUME NEW b \in Seq(Nat), NEW x \in ToSet(b)
  PROVE  \E i \in DOMAIN b : b[i] = x /\ \A j \in 1..(i - 1) : b[j] # x
  <1> DEFINE T == {i \in 1..Len(b) : b[i] = x}
  <1>1. T \in SUBSET Nat /\ T # {} /\ DOMAIN b = 1..Len(b)
    BY DEF ToSet
  <1>2. PICK i \in T : \A j \in T : i <= j
    BY <1>1, LeastExists
  <1>3. \A j \in 1..(i - 1) : b[j] # x
    BY <1>2
  <1> QED  BY <1>1, <1>2, <1>3

\* OrderKept speaks of first occurrences: they climb with the outputs.
LEMMA ClimbsMeansOrder ==
  ASSUME SinkTypes, Climbs, N \in Nat
  PROVE  OrderKept
  <1>1. broker \in Seq(Nat) /\ DOMAIN broker = 1..Len(broker) /\ Len(broker) \in Nat
    BY SeqOver DEF SinkTypes, Outputs
  <1>2. \A x \in ToSet(broker) : /\ FirstAt(x) \in 1..Len(broker) /\ broker[FirstAt(x)] = x
                                 /\ \A j \in 1..(FirstAt(x) - 1) : broker[j] # x
    BY <1>1, FirstOccurrence DEF FirstAt
  <1> SUFFICES ASSUME NEW b \in ToSet(broker), NEW a \in 1..(b - 1)
               PROVE  a \in ToSet(broker) /\ FirstAt(a) < FirstAt(b)
    BY DEF OrderKept
  <1>3. FirstAt(b) \in 1..Len(broker) /\ broker[FirstAt(b)] = b
    BY <1>2
  <1>4. PICK j \in 1..(FirstAt(b) - 1) : broker[j] = a
    BY <1>3 DEF Climbs, Climbing
  <1>5. j \in 1..Len(broker)
    BY <1>1, <1>3, <1>4
  <1>6. a \in ToSet(broker)
    BY <1>1, <1>4, <1>5 DEF ToSet
  <1>7. FirstAt(a) \in 1..Len(broker) /\ \A i \in 1..(FirstAt(a) - 1) : broker[i] # a
    BY <1>2, <1>6
  <1>8. FirstAt(a) <= j
    BY <1>4, <1>5, <1>7
  <1> QED  BY <1>3, <1>4, <1>5, <1>6, <1>7, <1>8

\* A publish that waits in a transaction is one of this write.
LEMMA WaitingIsFuture ==
  ASSUME SinkTypes, LastPublishes, Transactional, pc = "send", NEW h \in Waiting
  PROVE  LET k == h - (Len(sent) - Len(futures)) IN k \in 1..Len(futures) /\ futures[k] = h
  <1>1. h \in 1..Len(sent) /\ h > Len(sent) - Len(futures) /\ dropped + Len(futures) <= Len(sent)
    BY WaitingSent DEF LastPublishes
  <1>2. Len(sent) \in Nat /\ Len(futures) \in Nat
    BY DEF SinkTypes
  <1>3. h - (Len(sent) - Len(futures)) \in 1..Len(futures)
    BY <1>1, <1>2
  <1> QED  BY <1>1, <1>2, <1>3 DEF LastPublishes

\* What is accepted in a transaction is the next output of the write.
LEMMA StagedGrows ==
  ASSUME InTurn, OrderInv, Transactional, pc = "send", NEW h \in Waiting, Earliest(h),
         \A i \in 1..Len(futures) : ~Is(futures[i], "err")
  PROVE  /\ Len(staged) + 1 <= Len(futures) /\ futures[Len(staged) + 1] = h
         /\ sent[h].id = next + Len(staged)
  <1> DEFINE k == h - (Len(sent) - Len(futures))
             m == Len(staged) + 1
  <1>1. k \in 1..Len(futures) /\ futures[k] = h /\ Is(h, "wait")
    BY WaitingIsFuture, WaitingSent DEF OrderInv, ReportInv
  <1>2. /\ Len(staged) \in Nat /\ Len(futures) \in Nat /\ Len(sent) \in Nat /\ next \in Nat
        /\ dropped \in Nat
    BY DEF OrderInv, ReportInv, SinkTypes
  <1>3. /\ dropped + Len(futures) <= Len(sent)
        /\ \A i \in 1..Len(futures) : futures[i] = Len(sent) - Len(futures) + i
    BY DEF OrderInv, LastPublishes
  <1>4. \A i \in 1..Len(futures) : Is(futures[i], "ok") <=> i <= Len(staged)
    BY DEF OrderInv, StagedInTurn
  <1>5. ~(k <= Len(staged))
    BY <1>1, <1>4 DEF Is
  <1>6. m \in 1..Len(futures) /\ m <= k
    BY <1>1, <1>2, <1>5
  <1>7. ~Is(futures[m], "ok") /\ ~Is(futures[m], "err")
    BY <1>2, <1>4, <1>6
  <1>8. futures[m] \in 1..Len(sent)
    BY <1>6 DEF OrderInv, ReportInv, SinkTypes
  <1>9. Is(futures[m], "wait")
    <2>1. sent[futures[m]] \in Publishes
      BY <1>8 DEF OrderInv, ReportInv, SinkTypes
    <2> QED  BY <1>7, <2>1 DEF Publishes, Is
  <1>10. futures[m] = Len(sent) - Len(futures) + m
    BY <1>3, <1>6
  <1>11. futures[m] \in Waiting
    <2>1. futures[m] \in (dropped + 1)..Len(sent)
      BY <1>2, <1>3, <1>6, <1>8, <1>10
    <2> QED  BY <1>9, <2>1 DEF Waiting
  <1>12. h <= futures[m]
    BY <1>11 DEF Earliest
  <1>13. k = m
    <2>1. h \in 1..Len(sent)
      BY WaitingSent DEF OrderInv, ReportInv
    <2> QED  BY <1>2, <1>6, <1>10, <1>12, <2>1
  <1>14. sent[futures[k]].id = next + k - 1
    BY <1>1 DEF OrderInv, ReportInv, BatchInOrder
  <1> QED  BY <1>1, <1>2, <1>6, <1>13, <1>14

\* A transaction whose publishes are all confirmed adds its outputs in order.
LEMMA StagedClimbs ==
  ASSUME InTurn, OrderInv, Transactional, pc = "send", All(futures, "ok")
  PROVE  Climbing(broker \o staged)
  <1>1. \A i \in 1..Len(futures) : Is(futures[i], "ok")
    BY DEF All, ToSet, OrderInv, ReportInv, SinkTypes
  <1>2. \A i \in 1..Len(futures) : ~Is(futures[i], "err")
    BY <1>1 DEF Is
  <1>3. \A i \in 1..Len(staged) : staged[i] = next + i - 1
    BY <1>2 DEF OrderInv, StagedInTurn
  <1>4. broker \in Seq(Nat) /\ staged \in Seq(Nat) /\ next \in 1..(N + 1) /\ N \in Nat
    BY SeqOver DEF OrderInv, ReportInv, SinkTypes, Outputs, InTurn, Confirming
  <1>5. \A m \in 1..(next - 1) : m \in ToSet(broker)
    BY DEF OrderInv, ReportInv, ReportedBefore, ReportedIsThere
  <1>6. ASSUME NEW i \in 1..Len(staged), NEW a \in 1..(staged[i] - 1)
        PROVE  a \in ToSet(broker) \/ \E j \in 1..(i - 1) : staged[j] = a
    <2>1. CASE a <= next - 1
      BY <1>4, <1>5, <2>1
    <2>2. CASE a >= next
      <3>1. staged[i] = next + i - 1
        BY <1>3
      <3>2. a - next + 1 \in 1..(i - 1)
        BY <1>4, <2>2, <3>1
      <3>3. staged[a - next + 1] = a
        <4> DEFINE j == a - next + 1
        <4>1. j \in 1..Len(staged) /\ next + j - 1 = a
          BY <1>4, <3>2
        <4> HIDE DEF j
        <4>2. staged[j] = a
          BY <1>3, <4>1
        <4> QED  BY <4>2 DEF j
      <3> QED  BY <3>2, <3>3
    <2> QED  BY <1>4, <2>1, <2>2
  <1>7. Climbing(broker)
    BY DEF OrderInv, Climbs
  <1> QED  BY <1>4, <1>6, <1>7, ClimbingConcat

\* What the downstream system takes or refuses keeps the order.
LEMMA AnswerKeepsOrder ==
  ASSUME InTurn, OrderInv, Accept \/ Refuse
  PROVE  OrderInv'
  <1>0. ReportInv'
    BY AnswerKeepsReport DEF InTurn, OrderInv
  <1>1. PICK h \in Waiting, a \in {"ok", "err"} :
          /\ Earliest(h) /\ sent' = [sent EXCEPT ![h].st = a]
          /\ Takes(sent[h].id) \/ (a = "err" /\ UNCHANGED <<staged, broker>>)
          /\ UNCHANGED <<next, dropped, sink, reported>>
    <2>1. CASE Accept
      <3> PICK h \in Waiting : /\ Earliest(h) /\ Takes(sent[h].id)
                               /\ sent' = [sent EXCEPT ![h].st = "ok"]
        BY <2>1 DEF Accept
      <3> QED  BY <2>1 DEF Accept, report
    <2>2. CASE Refuse
      <3> PICK h \in Waiting : /\ Earliest(h)
                               /\ Takes(sent[h].id) \/ UNCHANGED <<staged, broker>>
                               /\ sent' = [sent EXCEPT ![h].st = "err"]
        BY <2>2 DEF Refuse
      <3> QED  BY <2>2 DEF Refuse, report
    <2> QED  BY <2>1, <2>2
  <1>2. h \in (dropped + 1)..Len(sent) /\ h \in 1..Len(sent) /\ sent[h].id \in Outputs
        /\ Is(h, "wait")
    <2>1. h \in 1..Len(sent) /\ sent[h].id \in Outputs /\ Is(h, "wait")
      BY WaitingSent DEF OrderInv, ReportInv
    <2>2. h \in (dropped + 1)..Len(sent)
      BY DEF Waiting
    <2> QED  BY <2>1, <2>2
  <1>3. /\ Len(sent') = Len(sent)
        /\ \A g \in 1..Len(sent) : /\ sent'[g].id = sent[g].id
                                  /\ sent'[g].st = IF g = h THEN a ELSE sent[g].st
    BY <1>1, <1>2, AnswerShape DEF OrderInv, ReportInv
  <1>4. UNCHANGED <<next, dropped, pc, batch, futures, stash, pending, reported>>
    BY <1>1 DEF sink
  <1>5. /\ broker \in Seq(Nat) /\ staged \in Seq(Nat) /\ dropped \in Nat /\ Len(sent) \in Nat
        /\ sent[h].id \in Nat
    BY <1>2, SeqOver DEF OrderInv, ReportInv, SinkTypes, Outputs, InTurn, Confirming
  <1>6. /\ Transactional => broker' = broker
        /\ ~Transactional => broker' \in {broker, Append(broker, sent[h].id)}
        /\ Transactional /\ a = "ok" => staged' = Append(staged, sent[h].id)
    BY <1>1 DEF Takes
  <1>7. ToSet(broker) \subseteq ToSet(broker')
    <2>1. ToSet(broker) \subseteq ToSet(Append(broker, sent[h].id))
      BY <1>5, ToSetAppend
    <2>2. broker' = broker \/ broker' = Append(broker, sent[h].id)
      BY <1>6
    <2> QED  BY <2>1, <2>2
  <1>8. ReportedBefore'
    BY <1>4 DEF OrderInv, ReportedBefore
  <1>9. Climbs'
    <2>1. CASE broker' = broker
      BY <2>1 DEF OrderInv, Climbs
    <2>2. CASE ~Transactional /\ broker' = Append(broker, sent[h].id)
      <3>1. \A x \in 1..(sent[h].id - 1) : x \in ToSet(broker)
        BY <1>2, <2>2 DEF OrderInv, SentInTurn
      <3>2. Climbing(broker)
        BY DEF OrderInv, Climbs
      <3>3. Climbing(broker')
        BY <1>5, <2>2, <3>1, <3>2, ClimbingAppend
      <3> QED  BY <3>3 DEF Climbs
    <2> QED  BY <1>6, <2>1, <2>2
  <1>10. SentInTurn'
    <2> SUFFICES ASSUME ~Transactional, NEW g \in (dropped + 1)..Len(sent),
                        NEW x \in 1..(sent'[g].id - 1)
                 PROVE  x \in ToSet(broker')
      BY <1>3, <1>4 DEF SentInTurn
    <2>1. sent'[g].id = sent[g].id
      BY <1>3, <1>5
    <2>2. x \in ToSet(broker)
      BY <2>1 DEF OrderInv, SentInTurn
    <2> QED  BY <1>7, <2>2
  <1>11. Waiting' \subseteq Waiting
    BY <1>1, <1>3, <1>4, <1>5 DEF Waiting, Is
  <1>12. LastPublishes'
    BY <1>3, <1>4, <1>11 DEF OrderInv, LastPublishes
  <1>13. StagedInTurn'
    <2> SUFFICES ASSUME Transactional, pc = "send",
                        \A i \in 1..Len(futures) : sent'[futures[i]].st # "err"
                 PROVE  /\ Len(staged') <= Len(futures)
                        /\ \A i \in 1..Len(staged') : staged'[i] = next + i - 1
                        /\ \A i \in 1..Len(futures) : sent'[futures[i]].st = "ok" <=> i <= Len(staged')
      BY <1>4 DEF StagedInTurn, Is
    <2>1. \A i \in 1..Len(futures) : futures[i] \in 1..Len(sent)
      BY DEF OrderInv, ReportInv, SinkTypes
    <2>2. \E k \in 1..Len(futures) : futures[k] = h
      BY WaitingIsFuture DEF OrderInv, ReportInv
    <2>3. a = "ok"
      BY <1>1, <1>3, <2>1, <2>2
    <2>4. \A i \in 1..Len(futures) : ~Is(futures[i], "err")
      BY <1>2, <1>3, <2>1 DEF Is
    <2>5. /\ Len(staged) + 1 <= Len(futures) /\ futures[Len(staged) + 1] = h
          /\ sent[h].id = next + Len(staged)
      BY <1>1, <2>4, StagedGrows
    <2>6. /\ \A i \in 1..Len(staged) : staged[i] = next + i - 1
          /\ \A i \in 1..Len(futures) : sent[futures[i]].st = "ok" <=> i <= Len(staged)
      BY <2>4 DEF OrderInv, StagedInTurn, Is
    <2>7. /\ Len(staged') = Len(staged) + 1 /\ staged'[Len(staged) + 1] = sent[h].id
          /\ \A i \in 1..Len(staged) : staged'[i] = staged[i]
          /\ Len(staged) \in Nat /\ Len(futures) \in Nat /\ next \in Nat
      <3>1. staged' = Append(staged, sent[h].id)
        BY <1>6, <2>3
      <3>2. Len(staged) \in Nat /\ Len(futures) \in Nat /\ next \in Nat
        BY DEF OrderInv, ReportInv, SinkTypes
      <3> QED  BY <1>5, <3>1, <3>2
    <2>8. ASSUME NEW i \in 1..Len(staged')  PROVE staged'[i] = next + i - 1
      <3>1. CASE i \in 1..Len(staged)
        BY <2>6, <2>7, <3>1
      <3>2. CASE i = Len(staged) + 1
        BY <2>5, <2>7, <3>2
      <3> QED  BY <2>7, <3>1, <3>2
    <2>9. ASSUME NEW i \in 1..Len(futures)
          PROVE  sent'[futures[i]].st = "ok" <=> i <= Len(staged')
      <3>1. CASE i = Len(staged) + 1
        BY <1>3, <2>1, <2>3, <2>5, <2>7, <3>1
      <3>2. CASE i # Len(staged) + 1
        <4>1. futures[i] # h
          <5>1. /\ futures[i] = Len(sent) - Len(futures) + i
                /\ h = Len(sent) - Len(futures) + (Len(staged) + 1)
            BY <2>5, <2>7 DEF OrderInv, LastPublishes
          <5> QED  BY <1>5, <2>7, <3>2, <5>1
        <4>2. sent'[futures[i]].st = sent[futures[i]].st
          BY <1>3, <2>1, <4>1
        <4> QED  BY <2>6, <2>7, <3>2, <4>2
      <3> QED  BY <3>1, <3>2
    <2> QED  BY <2>5, <2>7, <2>8, <2>9
  <1> QED  BY <1>0, <1>8, <1>9, <1>10, <1>12, <1>13 DEF OrderInv

\* The start of a write keeps the order.
LEMMA WriteKeepsOrder ==
  ASSUME InTurn, OrderInv, Write
  PROVE  OrderInv'
  <1>0. ReportInv'
    BY WriteKeepsReport DEF InTurn, OrderInv
  <1>1. /\ pc = "idle" /\ pc' = "send" /\ futures' = <<>> /\ staged' = <<>>
        /\ UNCHANGED <<next, sent, dropped, broker, reported>>
    BY DEF Write, report
  <1>2. ReportedBefore' /\ Climbs' /\ SentInTurn'
    BY <1>1 DEF OrderInv, ReportedBefore, Climbs, SentInTurn
  <1>3. dropped \in 0..Len(sent) /\ Len(sent) \in Nat /\ Len(futures') = 0 /\ Len(staged') = 0
    BY <1>1 DEF OrderInv, ReportInv, SinkTypes
  <1>4. Waiting' = Waiting
    BY <1>1 DEF Waiting, Is
  <1>5. LastPublishes'
    BY <1>1, <1>3, <1>4 DEF OrderInv, LastPublishes
  <1>6. StagedInTurn'
    BY <1>3 DEF StagedInTurn
  <1> QED  BY <1>0, <1>2, <1>5, <1>6 DEF OrderInv

\* A publish keeps the order: alone, it comes after confirmed outputs.
LEMMA PublishKeepsOrder ==
  ASSUME InTurn, OrderInv, Publish
  PROVE  OrderInv'
  <1>0. ReportInv'
    BY PublishKeepsReport DEF InTurn, OrderInv
  <1>1. /\ pc = "send" /\ batch # <<>> /\ (Strategy = "PerEvent" => All(futures, "ok"))
        /\ sent' = Append(sent, [id |-> Head(batch), st |-> "wait"])
        /\ futures' = Append(futures, Len(sent) + 1)
        /\ UNCHANGED <<next, dropped, staged, broker, pc, reported>>
    BY DEF Publish, report, InTurn, Confirming
  <1>2. /\ Head(batch) \in Outputs /\ Head(batch) = batch[1] /\ Len(batch) >= 1
        /\ Len(sent) \in Nat /\ Len(futures) \in Nat /\ Len(batch) \in Nat /\ dropped \in 0..Len(sent)
        /\ next \in 1..(N + 1) /\ N \in Nat
    BY <1>1 DEF OrderInv, ReportInv, SinkTypes, InTurn, Confirming
  <1>3. /\ Len(sent') = Len(sent) + 1 /\ \A g \in 1..Len(sent) : sent'[g] = sent[g]
        /\ sent'[Len(sent) + 1] = [id |-> Head(batch), st |-> "wait"]
    BY <1>1, <1>2, PublishShape DEF OrderInv, ReportInv
  <1>4. /\ Len(futures') = Len(futures) + 1 /\ \A i \in 1..Len(futures) : futures'[i] = futures[i]
        /\ futures'[Len(futures) + 1] = Len(sent) + 1
    BY <1>1 DEF OrderInv, ReportInv, SinkTypes
  <1>5. /\ Head(batch) = next + Len(futures)
        /\ \A i \in 1..Len(futures) : sent[futures[i]].id = next + i - 1
    BY <1>1, <1>2 DEF OrderInv, ReportInv, BatchInOrder
  <1>6. \A i \in 1..Len(futures) : futures[i] \in 1..Len(sent) /\ futures[i] \in ToSet(futures)
    BY DEF OrderInv, ReportInv, SinkTypes, ToSet
  <1>7. ReportedBefore' /\ Climbs'
    BY <1>1 DEF OrderInv, ReportedBefore, Climbs
  <1>8. SentInTurn'
    <2> SUFFICES ASSUME ~Transactional, NEW h \in (dropped + 1)..(Len(sent) + 1),
                        NEW a \in 1..(sent'[h].id - 1)
                 PROVE  a \in ToSet(broker)
      BY <1>1, <1>3 DEF SentInTurn
    <2>1. CASE h \in (dropped + 1)..Len(sent)
      <3>1. h \in 1..Len(sent) /\ sent'[h] = sent[h]
        BY <1>2, <1>3, <2>1
      <3> QED  BY <2>1, <3>1 DEF OrderInv, SentInTurn
    <2>2. CASE h = Len(sent) + 1
      <3>1. sent'[h].id = next + Len(futures)
        BY <1>3, <1>5, <2>2
      <3>2. CASE a <= next - 1
        BY <1>2, <3>2 DEF OrderInv, ReportInv, ReportedBefore, ReportedIsThere
      <3>3. CASE a >= next
        <4> DEFINE i == a - next + 1
        <4>1. i \in 1..Len(futures) /\ next + i - 1 = a
          BY <1>2, <3>1, <3>3
        <4> HIDE DEF i
        <4>2. sent[futures[i]].id = a /\ futures[i] \in 1..Len(sent) /\ futures[i] \in ToSet(futures)
          BY <1>5, <1>6, <4>1
        <4>3. Is(futures[i], "ok")
          BY <1>1, <4>2 DEF InTurn, All
        <4> QED  BY <4>2, <4>3 DEF OrderInv, ReportInv, ConfirmedTaken
      <3> QED  BY <1>2, <3>2, <3>3
    <2> QED  BY <1>2, <2>1, <2>2
  <1>9. LastPublishes'
    <2> SUFFICES ASSUME Transactional
                 PROVE  /\ dropped + Len(futures') <= Len(sent')
                        /\ \A i \in 1..Len(futures') : futures'[i] = Len(sent') - Len(futures') + i
                        /\ \A h \in Waiting' : h > Len(sent') - Len(futures')
      BY <1>1 DEF LastPublishes
    <2>1. /\ dropped + Len(futures) <= Len(sent)
          /\ \A i \in 1..Len(futures) : futures[i] = Len(sent) - Len(futures) + i
          /\ \A h \in Waiting : h > Len(sent) - Len(futures)
      BY <1>1 DEF OrderInv, LastPublishes
    <2>2. ASSUME NEW i \in 1..Len(futures')  PROVE futures'[i] = Len(sent') - Len(futures') + i
      <3>1. CASE i \in 1..Len(futures)
        BY <1>2, <1>3, <1>4, <2>1, <3>1
      <3>2. CASE i = Len(futures) + 1
        BY <1>2, <1>3, <1>4, <3>2
      <3> QED  BY <1>2, <1>4, <3>1, <3>2
    <2>3. ASSUME NEW h \in Waiting'  PROVE h > Len(sent') - Len(futures')
      <3>1. h \in (dropped + 1)..(Len(sent) + 1) /\ sent'[h].st = "wait"
        BY <1>1, <1>3 DEF Waiting, Is
      <3>2. CASE h \in (dropped + 1)..Len(sent)
        <4>1. h \in 1..Len(sent) /\ sent'[h] = sent[h]
          BY <1>2, <1>3, <3>2
        <4>2. h \in Waiting
          BY <3>1, <3>2, <4>1 DEF Waiting, Is
        <4> QED  BY <1>2, <1>3, <1>4, <2>1, <4>2
      <3>3. CASE h = Len(sent) + 1
        BY <1>2, <1>3, <1>4, <3>3
      <3> QED  BY <1>2, <3>1, <3>2, <3>3
    <2> QED  BY <1>2, <1>3, <1>4, <2>1, <2>2, <2>3
  <1>10. StagedInTurn'
    <2> SUFFICES ASSUME Transactional, \A i \in 1..Len(futures') : sent'[futures'[i]].st # "err"
                 PROVE  /\ Len(staged) <= Len(futures')
                        /\ \A i \in 1..Len(staged) : staged[i] = next + i - 1
                        /\ \A i \in 1..Len(futures') : sent'[futures'[i]].st = "ok" <=> i <= Len(staged)
      BY <1>1 DEF StagedInTurn, Is
    <2>1. \A i \in 1..Len(futures) : i \in 1..Len(futures') /\ sent'[futures'[i]] = sent[futures[i]]
      BY <1>2, <1>3, <1>4, <1>6
    <2>2. /\ Len(staged) <= Len(futures)
          /\ \A i \in 1..Len(staged) : staged[i] = next + i - 1
          /\ \A i \in 1..Len(futures) : sent[futures[i]].st = "ok" <=> i <= Len(staged)
      BY <1>1, <2>1 DEF OrderInv, StagedInTurn, Is
    <2>3. Len(staged) \in Nat
      BY DEF OrderInv, ReportInv, SinkTypes
    <2>4. ASSUME NEW i \in 1..Len(futures')
          PROVE  sent'[futures'[i]].st = "ok" <=> i <= Len(staged)
      <3>1. CASE i \in 1..Len(futures)
        BY <2>1, <2>2, <3>1
      <3>2. CASE i = Len(futures) + 1
        <4>1. sent'[futures'[i]].st = "wait"
          BY <1>3, <1>4, <3>2
        <4> QED  BY <1>2, <2>2, <2>3, <3>2, <4>1
      <3> QED  BY <1>2, <1>4, <3>1, <3>2
    <2> QED  BY <1>2, <1>4, <2>2, <2>3, <2>4
  <1> QED  BY <1>0, <1>7, <1>8, <1>9, <1>10 DEF OrderInv

\* A write that returns keeps the order: all its outputs are reported.
LEMMA ReturnKeepsOrder ==
  ASSUME InTurn, OrderInv, Delivered \/ Commit
  PROVE  OrderInv'
  <1>0. ReportInv'
    BY ReturnKeepsReport DEF InTurn, OrderInv
  <1>1. /\ pc = "send" /\ batch = <<>> /\ All(futures, "ok") /\ pc' = "idle"
        /\ reported' = reported \cup Ids(futures) /\ next' = next + Len(futures)
        /\ UNCHANGED <<sent, dropped>>
    BY DEF Delivered, Commit, Return
  <1>2. ReportedBefore'
    <2> SUFFICES ASSUME NEW m \in 1..(next' - 1)  PROVE m \in reported'
      BY DEF ReportedBefore
    <2>1. next \in 1..(N + 1) /\ N \in Nat /\ Len(futures) \in Nat
      BY DEF OrderInv, ReportInv, SinkTypes, InTurn, Confirming
    <2>2. CASE m <= next - 1
      BY <1>1, <2>1, <2>2 DEF OrderInv, ReportedBefore
    <2>3. CASE m >= next
      <3> DEFINE i == m - next + 1
      <3>1. i \in 1..Len(futures) /\ next + i - 1 = m
        BY <1>1, <2>1, <2>3
      <3> HIDE DEF i
      <3>2. sent[futures[i]].id = m
        BY <1>1, <3>1 DEF OrderInv, ReportInv, BatchInOrder
      <3>3. futures[i] \in ToSet(futures)
        BY <3>1 DEF ToSet, OrderInv, ReportInv, SinkTypes
      <3>4. m \in Ids(futures)
        BY <3>2, <3>3 DEF Ids
      <3> QED  BY <1>1, <3>4
    <2> QED  BY <1>1, <2>1, <2>2, <2>3
  <1>3. Climbs'
    <2>1. CASE Delivered
      BY <2>1 DEF Delivered, OrderInv, Climbs
    <2>2. CASE Commit
      <3>1. Climbing(broker \o staged) /\ broker' = broker \o staged
        BY <1>1, <2>2, StagedClimbs DEF Commit
      <3> QED  BY <3>1 DEF Climbs
    <2> QED  BY <2>1, <2>2
  <1>4. SentInTurn'
    <2>1. ~Transactional => broker' = broker
      BY DEF Delivered, Commit
    <2> QED  BY <1>1, <2>1 DEF OrderInv, SentInTurn
  <1>5. LastPublishes'
    <2> SUFFICES ASSUME Transactional, NEW h \in Waiting  PROVE FALSE
      <3>1. Waiting' = Waiting
        BY <1>1 DEF Waiting, Is
      <3> QED  BY <1>1, <3>1 DEF LastPublishes
    <2> DEFINE k == h - (Len(sent) - Len(futures))
    <2>1. k \in 1..Len(futures) /\ futures[k] = h
      BY <1>1, WaitingIsFuture DEF OrderInv, ReportInv
    <2>2. h \in ToSet(futures)
      BY <2>1 DEF ToSet, OrderInv, ReportInv, SinkTypes
    <2>3. Is(h, "ok") /\ Is(h, "wait")
      BY <1>1, <2>2, WaitingSent DEF All, OrderInv, ReportInv
    <2> QED  BY <2>3 DEF Is
  <1>6. StagedInTurn'
    BY <1>1 DEF StagedInTurn
  <1> QED  BY <1>0, <1>2, <1>3, <1>4, <1>5, <1>6 DEF OrderInv

\* An error keeps the order, also where the commit took effect.
LEMMA FailKeepsOrder ==
  ASSUME InTurn, OrderInv, CommitFails \/ WriteFails \/ PublishFails \/ FlushFails
  PROVE  OrderInv'
  <1>0. ReportInv'
    BY FailKeepsReport DEF InTurn, OrderInv
  <1>1. pc' = "ended" /\ UNCHANGED <<next, sent, dropped, reported>>
    BY DEF CommitFails, WriteFails, PublishFails, FlushFails, Fail
  <1>2. Climbs'
    <2>1. CASE broker' = broker
      BY <2>1 DEF OrderInv, Climbs
    <2>2. CASE CommitFails /\ broker' = broker \o staged
      <3>1. Climbing(broker \o staged)
        BY <2>2, StagedClimbs DEF CommitFails
      <3> QED  BY <2>2, <3>1 DEF Climbs
    <2> QED  BY <2>1, <2>2 DEF CommitFails, WriteFails, PublishFails, FlushFails
  <1>3. ReportedBefore'
    BY <1>1 DEF OrderInv, ReportedBefore
  <1>4. SentInTurn'
    <2>1. ~Transactional => broker' = broker
      BY DEF CommitFails, WriteFails, PublishFails, FlushFails
    <2> QED  BY <1>1, <2>1 DEF OrderInv, SentInTurn
  <1>5. LastPublishes' /\ StagedInTurn'
    BY <1>1 DEF LastPublishes, StagedInTurn
  <1> QED  BY <1>0, <1>2, <1>3, <1>4, <1>5 DEF OrderInv

\* A new pipeline keeps the order: the publishes of the old connection that
\* still arrive come after outputs that were taken.
LEMMA RestartKeepsOrder ==
  ASSUME InTurn, OrderInv, Restart
  PROVE  OrderInv'
  <1>0. ReportInv'
    BY RestartKeepsReport DEF InTurn, OrderInv
  <1>1. /\ dropped' = Len(sent) /\ pc' = "idle" /\ UNCHANGED <<sent, reported>>
        /\ next' = CHOOSE n \in 1..(N + 1) : n \notin reported /\ \A m \in 1..(n - 1) : m \in reported
    BY DEF Restart, report
  <1>2. ReportedBefore'
    BY <1>1, FirstUnreported DEF InTurn, Confirming, OrderInv, ReportInv, SinkTypes, ReportedBefore
  <1>3. Climbs'
    <2>1. PICK k \in 0..Cardinality(Waiting) : \E f \in [1..k -> Waiting] :
            broker' = IF Transactional THEN broker ELSE broker \o [i \in 1..k |-> sent[f[i]].id]
      BY DEF Restart
    <2>2. PICK f \in [1..k -> Waiting] :
            broker' = IF Transactional THEN broker ELSE broker \o [i \in 1..k |-> sent[f[i]].id]
      BY <2>1
    <2>3. k \in Nat
      <3>1. Waiting \subseteq 1..Len(sent)
        BY WaitingSent DEF OrderInv, ReportInv
      <3>2. IsFiniteSet(1..Len(sent))
        BY FS_Interval DEF OrderInv, ReportInv, SinkTypes
      <3>3. Cardinality(Waiting) \in Nat
        BY <3>1, <3>2, FS_Subset, FS_CardinalityType
      <3> QED  BY <3>3
    <2> DEFINE late == [i \in 1..k |-> sent[f[i]].id]
    <2>4. \A i \in 1..k : sent[f[i]].id \in Nat
      BY <2>2, WaitingSent DEF OrderInv, ReportInv, Outputs
    <2>5. late \in Seq(Nat) /\ Len(late) = k /\ \A i \in 1..k : late[i] = sent[f[i]].id
      BY <2>3, <2>4
    <2>6. CASE Transactional
      BY <2>2, <2>6 DEF OrderInv, Climbs
    <2>7. CASE ~Transactional
      <3>1. broker' = broker \o late
        BY <2>2, <2>7
      <3> HIDE DEF late
      <3>2. ASSUME NEW i \in 1..Len(late), NEW a \in 1..(late[i] - 1)  PROVE a \in ToSet(broker)
        <4>1. f[i] \in (dropped + 1)..Len(sent) /\ late[i] = sent[f[i]].id
          BY <2>2, <2>5 DEF Waiting
        <4> QED  BY <2>7, <4>1 DEF OrderInv, SentInTurn
      <3>3. broker \in Seq(Nat)
        BY SeqOver DEF OrderInv, ReportInv, SinkTypes, Outputs, InTurn, Confirming
      <3>4. Climbing(broker)
        BY DEF OrderInv, Climbs
      <3>5. Climbing(broker \o late)
        BY <2>5, <3>2, <3>3, <3>4, ClimbingConcat
      <3> QED  BY <3>1, <3>5 DEF Climbs
    <2> QED  BY <2>6, <2>7
  <1>4. Len(sent) \in Nat
    BY DEF OrderInv, ReportInv, SinkTypes
  <1>5. SentInTurn' /\ LastPublishes' /\ StagedInTurn'
    BY <1>1, <1>4 DEF SentInTurn, LastPublishes, StagedInTurn, Waiting
  <1> QED  BY <1>0, <1>2, <1>3, <1>5 DEF OrderInv

\* With one publish or one transaction at a time, the downstream system first
\* gets an output after every earlier one and every reported output is there,
\* at any batch size and number of outputs, whatever is refused and replayed.
THEOREM OutputsInOrder ==
  ASSUME InTurn
  PROVE  Spec => [](OrderKept /\ ReportedIsThere)
  <1>1. Init => OrderInv
    <2> SUFFICES ASSUME Init  PROVE OrderInv
      OBVIOUS
    <2>1. ReportInv
      BY DEF Init, InTurn, Confirming, ReportInv, SinkTypes, BatchInOrder, ConfirmedTaken,
             PendingKept, ReportedIsThere, Outputs, Publishes
    <2>2. Waiting = {}
      BY DEF Init, Waiting
    <2> QED  BY <2>1, <2>2 DEF Init, OrderInv, ReportedBefore, Climbs, Climbing, SentInTurn,
                               LastPublishes, StagedInTurn
  <1>2. OrderInv /\ [Next]_vars => OrderInv'
    <2> SUFFICES ASSUME OrderInv, [Next]_vars  PROVE OrderInv'
      OBVIOUS
    <2>1. CASE UNCHANGED vars
      BY <2>1 DEF vars, OrderInv, ReportInv, SinkTypes, BatchInOrder, ConfirmedTaken, PendingKept,
                  ReportedIsThere, Ids, Is, ReportedBefore, Climbs, SentInTurn, LastPublishes,
                  StagedInTurn, Waiting
    <2>2. ~HandedOver /\ ~Pend /\ ~Flush
      BY DEF HandedOver, Pend, Flush, InTurn, Confirming, OrderInv, ReportInv, PendingKept
    <2> QED
      BY <2>1, <2>2, AnswerKeepsOrder, WriteKeepsOrder, PublishKeepsOrder, ReturnKeepsOrder,
         FailKeepsOrder, RestartKeepsOrder
      DEF Next, SinkStep
  <1>3. OrderInv => OrderKept /\ ReportedIsThere
    BY ClimbsMeansOrder DEF OrderInv, ReportInv, InTurn, Confirming
  <1> QED  BY <1>1, <1>2, <1>3, PTL DEF Spec

---------------------------------------------------------------------------
(* The source connectors.                                                    *)

\* The settings of a source and the bounds.
Sized ==
  /\ SourceKind \in {"redis", "nats", "rabbit", "postgres", "mongo"}
  /\ MaxMade \in Nat /\ Batch \in Nat /\ Ring \in Nat /\ MaxBreaks \in Nat /\ MaxCrashes \in Nat

\* What has been produced is what is anywhere, and only that was handed out.
Types ==
  /\ st \in [Src!Messages -> {"new", "out", "done"}] /\ made \in 0..MaxMade
  /\ hold \in Seq(Src!Produced) /\ pend \subseteq Src!Produced
  /\ buf \in Seq(Src!Produced) /\ flight \in Seq(Src!Produced)
  /\ delivered \subseteq Src!Produced
  /\ cursor \in 0..made /\ token \in 0..made
  /\ breaks \in 0..MaxBreaks /\ crashes \in 0..MaxCrashes
  /\ \A m \in Src!Messages : m > made => st[m] = "new"
  /\ SourceKind \in {"nats", "rabbit"} /\ reader \in {"push", "ack"} => hold # <<>>

\* Redis Streams and PostgreSQL pass on what they read at once, up to a batch
\* beyond what the pipeline holds; nothing is acknowledged that was not read.
PulledAtOnce ==
  SourceKind \in {"redis", "postgres"} =>
    /\ hold = <<>> /\ buf = <<>>
    /\ Len(flight) <= Ring + Batch
    /\ SourceKind = "redis" /\ reader = "read" => Len(flight) <= Ring
    /\ \A m \in pend : st[m] # "new"

\* NATS: the message being acknowledged is held; what is acknowledged is here.
AckedIsHeld ==
  SourceKind = "nats" /\ crashes = 0 =>
    /\ \A m \in Src!Produced : st[m] = "done" => m \in delivered \cup Src!InProcess

\* RabbitMQ: the reader holds the one delivery it works on, and what is
\* acknowledged has left its hands.
AckedIsPushed ==
  SourceKind = "rabbit" /\ crashes = 0 =>
    LET past == delivered \cup Src!ToSet(buf) \cup Src!ToSet(flight) IN
    /\ reader = "start" => hold = <<>>
    /\ reader \in {"push", "ack"} => Len(hold) = 1
    /\ reader = "ack" => hold[1] \in past
    /\ reader \in {"start", "push", "ack"}
    /\ \A m \in Src!Produced : st[m] = "done" => m \in past

\* MongoDB: what the change stream has passed is here.
ReadIsHeld ==
  SourceKind = "mongo" /\ crashes = 0 =>
    /\ reader \in {"start", "flush"} => hold = <<>>
    /\ token <= cursor
    /\ \A m \in 1..cursor : m \in delivered \cup Src!InProcess

---------------------------------------------------------------------------
(* What a sequence contains.                                                 *)

LEMMA SetOfEmpty == Src!ToSet(<<>>) = {}
  BY DEF Src!ToSet

LEMMA SetOfOne ==
  ASSUME NEW m PROVE Src!ToSet(<<m>>) = {m}
  BY DEF Src!ToSet

LEMMA SetOfType ==
  ASSUME NEW S, NEW a \in Seq(S)
  PROVE  Src!ToSet(a) \subseteq S /\ \A i \in 1 .. Len(a) : a[i] \in Src!ToSet(a)
  BY DEF Src!ToSet

LEMMA SetOfConcat ==
  ASSUME NEW S, NEW a \in Seq(S), NEW b \in Seq(S)
  PROVE  Src!ToSet(a \o b) = Src!ToSet(a) \cup Src!ToSet(b) /\ a \o b \in Seq(S)
<1>1. \A i \in 1 .. Len(a) : (a \o b)[i] = a[i] OBVIOUS
<1>2. \A i \in 1 .. Len(b) : (a \o b)[Len(a) + i] = b[i] OBVIOUS
<1>3. Src!ToSet(a) \subseteq Src!ToSet(a \o b) BY <1>1 DEF Src!ToSet
<1>4. Src!ToSet(b) \subseteq Src!ToSet(a \o b)
  <2> SUFFICES ASSUME NEW i \in 1 .. Len(b) PROVE b[i] \in Src!ToSet(a \o b) BY DEF Src!ToSet
  <2>1. Len(a) + i \in DOMAIN (a \o b) OBVIOUS
  <2> QED BY <1>2, <2>1 DEF Src!ToSet
<1>5. Src!ToSet(a \o b) \subseteq Src!ToSet(a) \cup Src!ToSet(b)
  <2> SUFFICES ASSUME NEW i \in 1 .. Len(a) + Len(b)
               PROVE  (a \o b)[i] \in Src!ToSet(a) \cup Src!ToSet(b)
    BY DEF Src!ToSet
  <2>1. CASE i <= Len(a) BY <1>1, <2>1 DEF Src!ToSet
  <2>2. CASE i > Len(a)
    <3>1. i - Len(a) \in 1 .. Len(b) /\ i = Len(a) + (i - Len(a)) BY <2>2
    <3>2. (a \o b)[i] = b[i - Len(a)] BY <1>2, <3>1
    <3> QED BY <3>1, <3>2 DEF Src!ToSet
  <2> QED BY <2>1, <2>2
<1> QED BY <1>3, <1>4, <1>5

LEMMA SetOfAppend ==
  ASSUME NEW S, NEW a \in Seq(S), NEW m \in S
  PROVE  Src!ToSet(Append(a, m)) = Src!ToSet(a) \cup {m} /\ Append(a, m) \in Seq(S)
<1>1. Append(a, m) = a \o <<m>> OBVIOUS
<1>2. <<m>> \in Seq(S) OBVIOUS
<1>3. Src!ToSet(a \o <<m>>) = Src!ToSet(a) \cup Src!ToSet(<<m>>) /\ a \o <<m>> \in Seq(S)
  BY <1>2, SetOfConcat
<1>4. Src!ToSet(<<m>>) = {m} BY SetOfOne
<1> QED BY <1>1, <1>3, <1>4

LEMMA SetOfTail ==
  ASSUME NEW S, NEW a \in Seq(S), a # <<>>
  PROVE  /\ Src!ToSet(a) = {Head(a)} \cup Src!ToSet(Tail(a)) /\ Tail(a) \in Seq(S)
         /\ Head(a) \in S /\ Len(Tail(a)) = Len(a) - 1
<1>1. a = <<Head(a)>> \o Tail(a) OBVIOUS
<1>2. <<Head(a)>> \in Seq(S) /\ Tail(a) \in Seq(S) OBVIOUS
<1>3. Src!ToSet(<<Head(a)>> \o Tail(a)) = Src!ToSet(<<Head(a)>>) \cup Src!ToSet(Tail(a))
  BY <1>2, SetOfConcat
<1>4. Src!ToSet(<<Head(a)>>) = {Head(a)} BY SetOfOne
<1>5. Src!ToSet(a) = {Head(a)} \cup Src!ToSet(Tail(a)) BY <1>1, <1>3, <1>4
<1>6. Head(a) \in S /\ Len(Tail(a)) = Len(a) - 1 OBVIOUS
<1> QED BY <1>2, <1>5, <1>6

LEMMA SetOfSplit ==
  ASSUME NEW S, NEW a \in Seq(S), NEW n \in 1 .. Len(a)
  PROVE  /\ SubSeq(a, 1, n) \in Seq(S) /\ SubSeq(a, n + 1, Len(a)) \in Seq(S)
         /\ Src!ToSet(a) = Src!ToSet(SubSeq(a, 1, n)) \cup Src!ToSet(SubSeq(a, n + 1, Len(a)))
<1>1. SubSeq(a, 1, n) \in Seq(S) /\ SubSeq(a, n + 1, Len(a)) \in Seq(S) OBVIOUS
<1>2. a = SubSeq(a, 1, n) \o SubSeq(a, n + 1, Len(a)) OBVIOUS
<1>3. Src!ToSet(SubSeq(a, 1, n) \o SubSeq(a, n + 1, Len(a)))
        = Src!ToSet(SubSeq(a, 1, n)) \cup Src!ToSet(SubSeq(a, n + 1, Len(a)))
  BY <1>1, SetOfConcat
<1> QED BY <1>1, <1>2, <1>3

\* The instances count the elements of a set as the library does.
LEMMA SameCardinality ==
  \A S : Src!Cardinality(S) = Cardinality(S) /\ Buffer!Cardinality(S) = Cardinality(S)
  BY DEF Src!Cardinality, Buffer!Cardinality, Cardinality

\* No more elements than places.
LEMMA SetOfCount ==
  ASSUME NEW S, NEW a \in Seq(S), NEW n \in Nat, Len(a) <= n
  PROVE  IsFiniteSet(Src!ToSet(a)) /\ Cardinality(Src!ToSet(a)) <= n
<1>1. IsFiniteSet(1 .. Len(a)) /\ Cardinality(1 .. Len(a)) = Len(a)
  <2>1. Len(a) \in Nat /\ Len(a) \in Int /\ 1 \in Int OBVIOUS
  <2>2. /\ IsFiniteSet(1 .. Len(a))
        /\ Cardinality(1 .. Len(a)) = IF 1 > Len(a) THEN 0 ELSE Len(a) - 1 + 1
    BY <2>1, FS_Interval
  <2> QED BY <2>1, <2>2
<1>2. a \in Surjection(1 .. Len(a), Src!ToSet(a)) BY DEF Surjection, Src!ToSet
<1>3. IsFiniteSet(Src!ToSet(a)) /\ Cardinality(Src!ToSet(a)) <= Cardinality(1 .. Len(a))
  BY <1>1, <1>2, FS_Surjection
<1>4. Cardinality(Src!ToSet(a)) \in Nat BY <1>3, FS_CardinalityType
<1> QED BY <1>1, <1>3, <1>4

LEMMA Widened ==
  ASSUME NEW n \in Nat, NEW a \in Seq(1 .. n)
  PROVE  a \in Seq(1 .. n + 1)
  OBVIOUS

---------------------------------------------------------------------------
(* Types.                                                                    *)

\* A read gives out at most a batch of what was not given out before.
LEMMA FetchGives ==
  ASSUME Sized, Types, NEW f \in Src!Fetches
  PROVE  f \in Seq(Src!Produced) /\ Len(f) <= Batch /\ Src!ToSet(f) \subseteq Src!New
<1> USE DEF Sized, Types
<1>1. Src!New \subseteq Src!Produced BY DEF Src!New
<1>2. IsFiniteSet(Src!Produced)
  <2>1. 1 \in Int /\ made \in Int OBVIOUS
  <2> QED BY <2>1, FS_Interval DEF Src!Produced
<1>3. Cardinality(Src!New) \in Nat BY <1>1, <1>2, FS_Subset, FS_CardinalityType
<1> DEFINE n == IF Cardinality(Src!New) < Batch THEN Cardinality(Src!New) ELSE Batch
<1>4. n \in Nat /\ n <= Batch BY <1>3
<1>5. f \in [1 .. n -> Src!New] BY SameCardinality DEF Src!Fetches
<1> HIDE DEF n
<1>6. f \in Seq(Src!New) /\ Len(f) = n BY <1>4, <1>5
<1>7. Src!ToSet(f) \subseteq Src!New BY <1>6, SetOfType
<1>8. f \in Seq(Src!Produced) BY <1>1, <1>6
<1> QED BY <1>4, <1>6, <1>7, <1>8

LEMMA MarkedType ==
  ASSUME Types, NEW S \in SUBSET Src!Produced, NEW s \in {"new", "out", "done"}
  PROVE  /\ Src!Marked(S, s) \in [Src!Messages -> {"new", "out", "done"}]
         /\ \A m \in Src!Messages : m > made => Src!Marked(S, s)[m] = "new"
  BY DEF Types, Src!Marked, Src!Messages, Src!Produced

LEMMA InitTypes == Sized /\ Src!Init => Types
  BY DEF Sized, Src!Init, Types, Src!Messages, Src!Produced

LEMMA TypesStep ==
  ASSUME Sized, Types, [Src!Next]_(Src!vars)
  PROVE  Types'
<1> DEFINE T == {"new", "out", "done"}
<1>0. /\ Src!Messages \subseteq Nat
      /\ Src!Produced \subseteq Src!Messages /\ Src!New \subseteq Src!Produced
  BY DEF Sized, Types, Src!Messages, Src!Produced, Src!New
<1> USE DEF Types, Sized, Src!upstream, Src!resume
<1>1. CASE Src!Produce
  <2>1. made' = made + 1 /\ made' \in 0..MaxMade BY <1>1 DEF Src!Produce
  <2>2. Src!Produced \subseteq Src!Produced' BY <2>1 DEF Src!Produced
  <2>3. /\ hold' \in Seq(Src!Produced') /\ buf' \in Seq(Src!Produced')
        /\ flight' \in Seq(Src!Produced')
    BY <1>1, <2>1, Widened DEF Src!Produce, Src!Produced
  <2>4. \A m \in Src!Messages : m > made' => st'[m] = "new" BY <1>0, <1>1, <2>1 DEF Src!Produce
  <2>5. pend' \subseteq Src!Produced' /\ delivered' \subseteq Src!Produced'
    BY <1>1, <2>2 DEF Src!Produce
  <2>6. cursor' \in 0..made' /\ token' \in 0..made' BY <1>1, <2>1 DEF Src!Produce
  <2> QED BY <1>1, <2>1, <2>3, <2>4, <2>5, <2>6 DEF Src!Produce
<1>2. CASE Src!Deliver
  <2>1. Tail(flight) \in Seq(Src!Produced) /\ Head(flight) \in Src!Produced
    BY <1>2, SetOfTail DEF Src!Deliver
  <2> QED BY <1>2, <2>1 DEF Src!Deliver, Src!Produced
<1>3. CASE Src!RedisReconnect BY <1>3 DEF Src!RedisReconnect, Src!Produced
<1>4. CASE Src!RedisAck
  <2>1. st' = Src!Marked(pend, "done") BY <1>4 DEF Src!RedisAck
  <2> QED BY <1>4, <2>1, MarkedType DEF Src!RedisAck, Src!Produced
<1>5. CASE Src!RedisAckFails
  <2>1. st' \in {st, Src!Marked(pend, "done")} BY <1>5 DEF Src!RedisAckFails
  <2>2. breaks' \in 0..MaxBreaks BY <1>5 DEF Src!RedisAckFails, Src!Breaks
  <2> QED BY <1>5, <2>1, <2>2, MarkedType DEF Src!RedisAckFails, Src!Produced
<1>6. CASE Src!RedisRead
  <2>1. PICK f \in Src!Fetches :
          /\ st' = Src!Marked(Src!ToSet(f), "out")
          /\ pend' = Src!ToSet(f) /\ flight' = flight \o f
    BY <1>6 DEF Src!RedisRead
  <2>2. f \in Seq(Src!Produced) /\ Src!ToSet(f) \subseteq Src!Produced BY <1>0, FetchGives
  <2>3. flight' \in Seq(Src!Produced) BY <2>1, <2>2
  <2> QED BY <1>6, <2>1, <2>2, <2>3, MarkedType DEF Src!RedisRead, Src!Produced
<1>7. CASE Src!RedisReadFails
  <2>0. breaks' \in 0..MaxBreaks BY <1>7 DEF Src!RedisReadFails, Src!Breaks
  <2>1. CASE st' = st BY <1>7, <2>0, <2>1 DEF Src!RedisReadFails, Src!Produced
  <2>2. CASE \E f \in Src!Fetches : st' = Src!Marked(Src!ToSet(f), "out")
    <3>1. PICK f \in Src!Fetches : st' = Src!Marked(Src!ToSet(f), "out") BY <2>2
    <3>2. Src!ToSet(f) \subseteq Src!Produced BY <1>0, FetchGives
    <3> QED BY <1>7, <2>0, <3>1, <3>2, MarkedType DEF Src!RedisReadFails, Src!Produced
  <2> QED BY <1>7, <2>1, <2>2 DEF Src!RedisReadFails
<1>8. CASE Src!NatsStream BY <1>8 DEF Src!NatsStream, Src!Produced
<1>9. CASE Src!NatsReceive
  <2>1. PICK m \in Src!New : st' = [st EXCEPT ![m] = "out"] /\ hold' = Append(hold, m)
    BY <1>9 DEF Src!NatsReceive
  <2>2. m \in Src!Produced /\ m \in Src!Messages /\ ~(m > made) BY <1>0 DEF Src!Produced
  <2>a. hold' \in Seq(Src!Produced) /\ Len(hold') = Len(hold) + 1 BY <2>1, <2>2
  <2>b. hold' # <<>> /\ Len(hold) \in Nat BY <2>a
  <2>3. hold' \in Seq(Src!Produced) /\ hold' # <<>> BY <2>a, <2>b
  <2> QED BY <1>9, <2>1, <2>2, <2>3 DEF Src!NatsReceive, Src!Produced
<1>10. CASE Src!NatsAck
  <2>1. CASE ~conn BY <1>10, <2>1 DEF Src!NatsAck, Src!Produced
  <2>2. CASE conn
    <3>1. Src!Last(hold) \in Src!Produced BY <1>10 DEF Src!NatsAck, Src!Last
    <3>2. Src!Last(hold) \in Src!Messages /\ ~(Src!Last(hold) > made)
      BY <1>0, <3>1 DEF Src!Produced
    <3> QED BY <1>10, <2>2, <3>2 DEF Src!NatsAck, Src!Produced
  <2> QED BY <2>1, <2>2 DEF Src!NatsAck
<1>11. CASE Src!NatsReturn BY <1>11 DEF Src!NatsReturn, Src!Produced
<1>12. CASE Src!NatsExpire BY <1>0, <1>12 DEF Src!NatsExpire, Src!Produced
<1>13. CASE Src!NatsBreak BY <1>13 DEF Src!NatsBreak, Src!Breaks, Src!Produced
<1>14. CASE Src!RabbitConnect BY <1>14 DEF Src!RabbitConnect, Src!Produced
<1>15. CASE Src!RabbitReceive
  <2>1. PICK m \in Src!New : st' = [st EXCEPT ![m] = "out"] /\ hold' = <<m>>
    BY <1>15 DEF Src!RabbitReceive
  <2>2. m \in Src!Produced /\ m \in Src!Messages /\ ~(m > made) BY <1>0 DEF Src!Produced
  <2>3. hold' \in Seq(Src!Produced) BY <2>1, <2>2
  <2> QED BY <1>15, <2>1, <2>2, <2>3 DEF Src!RabbitReceive, Src!Produced
<1>16. CASE Src!RabbitNack
  <2>1. st' \in {st, [st EXCEPT ![hold[1]] = "new"]} BY <1>16 DEF Src!RabbitNack
  <2>2. st' \in [Src!Messages -> T] /\ \A m \in Src!Messages : m > made => st'[m] = "new"
    BY <2>1
  <2> QED BY <1>16, <2>2 DEF Src!RabbitNack, Src!Produced
<1>17. CASE Src!RabbitPush BY <1>17 DEF Src!RabbitPush, Src!Produced
<1>18. CASE Src!RabbitAck
  <2>1. hold[1] \in Src!Produced BY <1>18 DEF Src!RabbitAck
  <2>2. hold[1] \in Src!Messages /\ ~(hold[1] > made) BY <1>0, <2>1 DEF Src!Produced
  <2> QED BY <1>18, <2>2 DEF Src!RabbitAck, Src!Produced
<1>19. CASE Src!RabbitBreak BY <1>19 DEF Src!RabbitBreak, Src!Breaks, Src!Produced
<1>20. CASE Src!PgConnect BY <1>20 DEF Src!PgConnect, Src!Produced
<1>21. CASE Src!PgQuery
  <2>1. PICK f \in Src!Fetches : st' = Src!Marked(Src!ToSet(f), "done") /\ flight' = flight \o f
    BY <1>21 DEF Src!PgQuery
  <2>2. f \in Seq(Src!Produced) /\ Src!ToSet(f) \subseteq Src!Produced BY <1>0, FetchGives
  <2>3. flight' \in Seq(Src!Produced) BY <2>1, <2>2
  <2> QED BY <1>21, <2>1, <2>2, <2>3, MarkedType DEF Src!PgQuery, Src!Produced
<1>22. CASE Src!PgQueryFails
  <2>1. PICK f \in Src!Fetches : st' \in {st, Src!Marked(Src!ToSet(f), "done")} BY <1>22 DEF
  Src!PgQueryFails
  <2>2. Src!ToSet(f) \subseteq Src!Produced BY <1>0, FetchGives
  <2>3. breaks' \in 0..MaxBreaks BY <1>22 DEF Src!PgQueryFails, Src!Breaks
  <2> QED BY <1>22, <2>1, <2>2, <2>3, MarkedType DEF Src!PgQueryFails, Src!Produced
<1>23. CASE Src!MongoReceive
  <2>1. hold' = <<cursor + 1>> /\ cursor + 1 \in Src!Produced
    BY <1>23 DEF Src!MongoReceive, Src!Produced
  <2> QED BY <1>23, <2>1 DEF Src!MongoReceive, Src!Produced
<1>24. CASE Src!MongoPush BY <1>24 DEF Src!MongoPush, Src!Produced
<1>25. CASE Src!MongoFlush BY <1>25 DEF Src!MongoFlush, Src!Breaks, Src!Produced
<1>26. CASE Src!BufferedBatch
  <2>1. PICK n \in 1 .. Len(buf) : /\ flight' = flight \o SubSeq(buf, 1, n)
                                  /\ buf' = SubSeq(buf, n + 1, Len(buf))
    <3>1. PICK n \in 1 .. Batch : /\ n <= Len(buf) /\ flight' = flight \o SubSeq(buf, 1, n)
                                 /\ buf' = SubSeq(buf, n + 1, Len(buf))
      BY <1>26 DEF Src!BufferedBatch
    <3>2. n \in 1 .. Len(buf) BY <3>1
    <3> QED BY <3>1, <3>2
  <2>2. buf' \in Seq(Src!Produced) /\ SubSeq(buf, 1, n) \in Seq(Src!Produced)
    BY <2>1, SetOfSplit
  <2>3. flight' \in Seq(Src!Produced) BY <2>1, <2>2
  <2> QED BY <1>26, <2>2, <2>3 DEF Src!BufferedBatch, Src!Produced
<1>27. CASE Src!Crash BY <1>27 DEF Src!Crash, Src!Produced
<1>29. CASE Src!MongoError BY <1>29 DEF Src!MongoError, Src!Breaks, Src!Produced
<1>30. CASE Src!MongoEnds BY <1>30 DEF Src!MongoEnds, Src!Breaks, Src!Produced
<1>28. CASE UNCHANGED Src!vars BY <1>28 DEF Src!vars, Src!Produced
<1> QED BY <1>1, <1>2, <1>3, <1>4, <1>5, <1>6, <1>7, <1>8, <1>9, <1>10, <1>11, <1>12, <1>13,
      <1>14,
           <1>15, <1>16, <1>17, <1>18, <1>19, <1>20, <1>21, <1>22, <1>23, <1>24, <1>25, <1>26,
           <1>27, <1>28, <1>29, <1>30
    DEF Src!Next, Src!Source, Src!Trouble, Src!Redis, Src!Nats, Src!Rabbit, Src!Postgres,
    Src!Mongo

---------------------------------------------------------------------------
(* Redis Streams and PostgreSQL.                                             *)

LEMMA PulledStep ==
  ASSUME Sized, Types, PulledAtOnce, [Src!Next]_(Src!vars)
  PROVE  PulledAtOnce'
<1> SUFFICES ASSUME SourceKind \in {"redis", "postgres"} PROVE PulledAtOnce'
  BY DEF PulledAtOnce
<1>0. /\ hold = <<>> /\ buf = <<>> /\ Len(flight) <= Ring + Batch
      /\ SourceKind = "redis" /\ reader = "read" => Len(flight) <= Ring
      /\ \A m \in pend : st[m] # "new"
      /\ flight \in Seq(Src!Produced) /\ Len(flight) \in Nat /\ Ring \in Nat /\ Batch \in Nat
  BY DEF PulledAtOnce, Types, Sized
<1> USE <1>0 DEF PulledAtOnce, Src!upstream, Src!resume
<1>1. CASE Src!Produce BY <1>1 DEF Src!Produce
<1>2. CASE Src!Deliver
  <2>1. Len(flight') = Len(flight) - 1 BY <1>2, SetOfTail DEF Src!Deliver
  <2> QED BY <1>2, <2>1 DEF Src!Deliver
<1>3. CASE Src!RedisReconnect BY <1>3 DEF Src!RedisReconnect
<1>4. CASE Src!RedisAck BY <1>4 DEF Src!RedisAck, Src!Asked
<1>5. CASE Src!RedisAckFails
  <2>1. st' \in {st, Src!Marked(pend, "done")} BY <1>5 DEF Src!RedisAckFails
  <2>2. \A m \in pend : st'[m] # "new" BY <2>1 DEF Src!Marked, Types, Src!Produced,
  Src!Messages, Sized
  <2> QED BY <1>5, <2>2 DEF Src!RedisAckFails
<1>6. CASE Src!RedisRead
  <2>1. PICK f \in Src!Fetches :
          /\ st' = Src!Marked(Src!ToSet(f), "out")
          /\ pend' = Src!ToSet(f) /\ flight' = flight \o f
    BY <1>6 DEF Src!RedisRead
  <2>2. f \in Seq(Src!Produced) /\ Len(f) <= Batch /\ Src!ToSet(f) \subseteq Src!New
    BY FetchGives
  <2>3. Len(flight') = Len(flight) + Len(f) /\ Len(f) \in Nat BY <2>1, <2>2
  <2>4. \A m \in pend' : st'[m] = "out"
    BY <2>1, <2>2 DEF Src!Marked, Src!New, Types, Src!Produced, Src!Messages, Sized
  <2> QED BY <1>6, <2>2, <2>3, <2>4 DEF Src!RedisRead
<1>7. CASE Src!RedisReadFails
  <2>1. st' = st \/ \E f \in Src!Fetches : st' = Src!Marked(Src!ToSet(f), "out")
    BY <1>7 DEF Src!RedisReadFails
  <2>2. \A m \in pend : st'[m] # "new" BY <2>1 DEF Src!Marked, Types, Src!Produced,
  Src!Messages, Sized
  <2> QED BY <1>7, <2>2 DEF Src!RedisReadFails
<1>8. CASE Src!PgConnect BY <1>8 DEF Src!PgConnect
<1>9. CASE Src!PgQuery
  <2>1. PICK f \in Src!Fetches : st' = Src!Marked(Src!ToSet(f), "done") /\ flight' = flight \o f
    BY <1>9 DEF Src!PgQuery
  <2>2. f \in Seq(Src!Produced) /\ Len(f) <= Batch BY FetchGives
  <2>3. Len(flight') = Len(flight) + Len(f) /\ Len(f) \in Nat BY <2>1, <2>2
  <2>4. \A m \in pend : st'[m] # "new" BY <2>1 DEF Src!Marked, Types, Src!Produced,
  Src!Messages, Sized
  <2> QED BY <1>9, <2>2, <2>3, <2>4 DEF Src!PgQuery, Src!Asked
<1>10. CASE Src!PgQueryFails
  <2>1. PICK f \in Src!Fetches : st' \in {st, Src!Marked(Src!ToSet(f), "done")} BY <1>10 DEF
  Src!PgQueryFails
  <2>2. \A m \in pend : st'[m] # "new" BY <2>1 DEF Src!Marked, Types, Src!Produced,
  Src!Messages, Sized
  <2> QED BY <1>10, <2>2 DEF Src!PgQueryFails
<1>11. CASE Src!Crash BY <1>11 DEF Src!Crash
<1>12. CASE UNCHANGED Src!vars BY <1>12 DEF Src!vars
<1>13. CASE Src!BufferedBatch BY <1>13 DEF Src!BufferedBatch
<1> QED BY <1>1, <1>2, <1>3, <1>4, <1>5, <1>6, <1>7, <1>8, <1>9, <1>10, <1>11, <1>12, <1>13
    DEF Src!Next, Src!Source, Src!Trouble, Src!Redis, Src!Nats, Src!Rabbit, Src!Postgres,
    Src!Mongo, Src!NatsStream, Src!NatsReceive, Src!NatsAck,
        Src!NatsReturn, Src!NatsExpire, Src!NatsBreak, Src!RabbitConnect, Src!RabbitReceive,
        Src!RabbitNack, Src!RabbitPush, Src!RabbitAck,
        Src!RabbitBreak, Src!MongoReceive, Src!MongoPush, Src!MongoFlush, Src!MongoError, Src!MongoEnds

\* What Redis and PostgreSQL have given out and nobody has.
Gone == {m \in Src!Produced : st[m] # "new" /\ m \notin delivered \cup Src!ToSet(flight)}

LEMMA LostIsGone ==
  ASSUME SourceKind \in {"redis", "postgres"}, PulledAtOnce, PulledAtOnce'
  PROVE  Src!Lost = Gone /\ Src!Lost' = Gone'
  BY SetOfEmpty DEF PulledAtOnce, Src!Lost, Src!InProcess, Src!Coming, Gone

\* A read that fails loses its batch, a crash loses what the pipeline holds,
\* nothing else loses anything.
LEMMA GoneStep ==
  ASSUME Sized, SourceKind \in {"redis", "postgres"}, Types, PulledAtOnce, Types',
         [Src!Next]_(Src!vars)
  PROVE  \/ Gone' \subseteq Gone /\ breaks' \in {breaks, breaks + 1} /\ crashes' = crashes
         \/ \E f \in Seq(Src!Produced) :
              Len(f) <= Batch /\ Gone' \subseteq Gone \cup Src!ToSet(f) /\ breaks' = breaks + 1
              /\ crashes' = crashes
         \/ Gone' \subseteq Gone \cup Src!ToSet(flight) /\ breaks' = breaks /\ crashes' = crashes + 1
<1>0. /\ flight \in Seq(Src!Produced) /\ st \in [Src!Messages -> {"new", "out", "done"}]
      /\ Src!Produced \subseteq Src!Messages /\ breaks \in Nat /\ crashes \in Nat
  BY DEF Types, Sized, Src!Produced, Src!Messages
<1> USE DEF Src!upstream, Src!resume
<1>1. CASE Src!Produce
  <2>1. made' = made + 1 /\ made \in Nat /\ made' <= MaxMade
    BY <1>1 DEF Src!Produce, Types, Sized
  <2>2. made + 1 \in Src!Messages /\ st[made + 1] = "new" BY <2>1 DEF Src!Messages, Types, Sized
  <2>3. Src!Produced' \subseteq Src!Produced \cup {made + 1} BY <2>1 DEF Src!Produced
  <2> QED BY <1>1, <2>2, <2>3 DEF Src!Produce, Gone
<1>2. CASE Src!Deliver
  <2>1. Src!ToSet(flight) = {Head(flight)} \cup Src!ToSet(Tail(flight))
    BY <1>0, <1>2, SetOfTail DEF Src!Deliver
  <2> QED BY <1>2, <2>1 DEF Src!Deliver, Gone, Src!Produced
<1>3. CASE Src!RedisReconnect BY <1>3 DEF Src!RedisReconnect, Gone, Src!Produced
<1>4. CASE Src!RedisAck
  <2>1. \A m \in Src!Produced : st'[m] # "new" => st[m] # "new"
    BY <1>0, <1>4 DEF Src!RedisAck, Src!Marked, PulledAtOnce
  <2> QED BY <1>4, <2>1 DEF Src!RedisAck, Gone, Src!Produced
<1>5. CASE Src!RedisAckFails
  <2>1. st' \in {st, Src!Marked(pend, "done")} BY <1>5 DEF Src!RedisAckFails
  <2>2. \A m \in Src!Produced : st'[m] # "new" => st[m] # "new"
    BY <1>0, <2>1 DEF Src!Marked, PulledAtOnce
  <2> QED BY <1>5, <2>2 DEF Src!RedisAckFails, Gone, Src!Produced, Src!Breaks
<1>6. CASE Src!RedisRead
  <2>1. PICK f \in Src!Fetches : st' = Src!Marked(Src!ToSet(f), "out") /\ flight' = flight \o f
    BY <1>6 DEF Src!RedisRead
  <2>2. f \in Seq(Src!Produced) BY FetchGives
  <2>3. Src!ToSet(flight') = Src!ToSet(flight) \cup Src!ToSet(f)
    BY <1>0, <2>1, <2>2, SetOfConcat
  <2>4. \A m \in Src!Produced : st'[m] # "new" => st[m] # "new" \/ m \in Src!ToSet(f)
    BY <1>0, <2>1 DEF Src!Marked
  <2> QED BY <1>6, <2>3, <2>4 DEF Src!RedisRead, Gone, Src!Produced
<1>7. CASE Src!RedisReadFails
  <2>1. CASE st' = st BY <1>7, <2>1 DEF Src!RedisReadFails, Src!Breaks, Gone, Src!Produced
  <2>2. CASE \E f \in Src!Fetches : st' = Src!Marked(Src!ToSet(f), "out")
    <3>1. PICK f \in Src!Fetches : st' = Src!Marked(Src!ToSet(f), "out") BY <2>2
    <3>2. f \in Seq(Src!Produced) /\ Len(f) <= Batch BY FetchGives
    <3>3. \A m \in Src!Produced : st'[m] # "new" => st[m] # "new" \/ m \in Src!ToSet(f)
      BY <1>0, <3>1 DEF Src!Marked
    <3>4. Gone' \subseteq Gone \cup Src!ToSet(f)
      BY <1>7, <3>3 DEF Src!RedisReadFails, Gone, Src!Produced
    <3> QED BY <1>7, <3>2, <3>4 DEF Src!RedisReadFails, Src!Breaks
  <2> QED BY <1>7, <2>1, <2>2 DEF Src!RedisReadFails
<1>8. CASE Src!PgConnect BY <1>8 DEF Src!PgConnect, Gone, Src!Produced
<1>9. CASE Src!PgQuery
  <2>1. PICK f \in Src!Fetches : st' = Src!Marked(Src!ToSet(f), "done") /\ flight' = flight \o f
    BY <1>9 DEF Src!PgQuery
  <2>2. f \in Seq(Src!Produced) BY FetchGives
  <2>3. Src!ToSet(flight') = Src!ToSet(flight) \cup Src!ToSet(f)
    BY <1>0, <2>1, <2>2, SetOfConcat
  <2>4. \A m \in Src!Produced : st'[m] # "new" => st[m] # "new" \/ m \in Src!ToSet(f)
    BY <1>0, <2>1 DEF Src!Marked
  <2> QED BY <1>9, <2>3, <2>4 DEF Src!PgQuery, Gone, Src!Produced
<1>10. CASE Src!PgQueryFails
  <2>1. PICK f \in Src!Fetches : st' \in {st, Src!Marked(Src!ToSet(f), "done")} BY <1>10 DEF
  Src!PgQueryFails
  <2>2. f \in Seq(Src!Produced) /\ Len(f) <= Batch BY FetchGives
  <2>3. \A m \in Src!Produced : st'[m] # "new" => st[m] # "new" \/ m \in Src!ToSet(f)
    BY <1>0, <2>1 DEF Src!Marked
  <2>4. Gone' \subseteq Gone \cup Src!ToSet(f) BY <1>10, <2>3 DEF Src!PgQueryFails, Gone,
  Src!Produced
  <2> QED BY <1>10, <2>2, <2>4 DEF Src!PgQueryFails, Src!Breaks
<1>11. CASE Src!Crash
  <2>1. \A m \in Src!Produced : st'[m] = st[m] BY <1>0, <1>11 DEF Src!Crash
  <2> QED BY <1>11, <2>1, SetOfEmpty DEF Src!Crash, Gone, Src!Produced
<1>12. CASE UNCHANGED Src!vars BY <1>12 DEF Src!vars, Gone, Src!Produced
<1>13. CASE Src!BufferedBatch BY <1>13 DEF Src!BufferedBatch, PulledAtOnce
<1> QED BY <1>1, <1>2, <1>3, <1>4, <1>5, <1>6, <1>7, <1>8, <1>9, <1>10, <1>11, <1>12, <1>13
    DEF Src!Next, Src!Source, Src!Trouble, Src!Redis, Src!Nats, Src!Rabbit, Src!Postgres,
    Src!Mongo, Src!NatsStream, Src!NatsReceive, Src!NatsAck,
        Src!NatsReturn, Src!NatsExpire, Src!NatsBreak, Src!RabbitConnect, Src!RabbitReceive,
        Src!RabbitNack, Src!RabbitPush, Src!RabbitAck,
        Src!RabbitBreak, Src!MongoReceive, Src!MongoPush, Src!MongoFlush, Src!MongoError, Src!MongoEnds

LEMMA GrowsBy ==
  ASSUME NEW A, NEW B, NEW X, IsFiniteSet(A), IsFiniteSet(X), B \subseteq A \cup X
  PROVE  /\ Cardinality(B) <= Cardinality(A) + Cardinality(X)
         /\ Cardinality(A) \in Nat /\ Cardinality(B) \in Nat /\ Cardinality(X) \in Nat
<1>1. /\ IsFiniteSet(A \cup X) /\ IsFiniteSet(A \cap X)
      /\ Cardinality(A \cup X) = Cardinality(A) + Cardinality(X) - Cardinality(A \cap X)
  BY FS_Union, FS_Intersection
<1>2. IsFiniteSet(B) /\ Cardinality(B) <= Cardinality(A \cup X) BY <1>1, FS_Subset
<1>3. /\ Cardinality(A) \in Nat /\ Cardinality(X) \in Nat /\ Cardinality(B) \in Nat
      /\ Cardinality(A \cap X) \in Nat /\ Cardinality(A \cup X) \in Nat
  BY <1>1, <1>2, FS_CardinalityType
<1> QED BY <1>1, <1>2, <1>3

LEMMA Times ==
  ASSUME NEW a \in Nat, NEW b \in Nat
  PROVE  a * b \in Nat /\ (a + 1) * b = a * b + b
  OBVIOUS

LEMMA BoundStep ==
  ASSUME Sized, SourceKind \in {"redis", "postgres"}, Types, PulledAtOnce, Types', PulledAtOnce',
         Src!LossBounded, [Src!Next]_(Src!vars)
  PROVE  Src!LossBounded'
<1> DEFINE R == Ring + Batch
           c == Cardinality(Gone)
           d == Cardinality(Gone')
           x == breaks * Batch
           y == crashes * R
<1>1. /\ Batch \in Nat /\ R \in Nat /\ breaks \in Nat /\ crashes \in Nat
      /\ flight \in Seq(Src!Produced) /\ Len(flight) <= R
  BY DEF Sized, Types, PulledAtOnce
<1>2. /\ x \in Nat /\ (breaks + 1) * Batch = x + Batch
      /\ y \in Nat /\ (crashes + 1) * R = y + R
  BY <1>1, Times
<1>3. IsFiniteSet(Gone)
  <2>1. 1 \in Int /\ made \in Int BY DEF Types, Sized
  <2>2. IsFiniteSet(Src!Produced) BY <2>1, FS_Interval DEF Src!Produced
  <2>3. Gone \subseteq Src!Produced BY DEF Gone
  <2> QED BY <2>2, <2>3, FS_Subset
<1>4. Src!Lost = Gone /\ Src!Lost' = Gone' BY LostIsGone
<1>5. c <= x + y BY <1>4, SameCardinality DEF Src!LossBounded
<1> HIDE DEF R, c, d, x, y
<1>6. CASE Gone' \subseteq Gone /\ breaks' \in {breaks, breaks + 1} /\ crashes' = crashes
  <2>1. d <= c + 0 /\ c \in Nat /\ d \in Nat
    <3>1. IsFiniteSet({}) /\ Cardinality({}) = 0 BY FS_EmptySet
    <3>2. Gone' \subseteq Gone \cup {} BY <1>6
    <3> QED BY <1>3, <3>1, <3>2, GrowsBy DEF c, d
  <2>2. d <= breaks' * Batch + crashes' * R
    <3>1. CASE breaks' = breaks BY <1>2, <1>5, <1>6, <2>1, <3>1 DEF x, y
    <3>2. CASE breaks' = breaks + 1
      <4>1. breaks' * Batch = x + Batch /\ crashes' * R = y BY <1>2, <1>6, <3>2 DEF y
      <4> QED BY <1>1, <1>2, <1>5, <2>1, <4>1
    <3> QED BY <1>6, <3>1, <3>2
  <2> QED BY <1>4, <2>2, SameCardinality DEF Src!LossBounded, d, R
<1>7. CASE \E f \in Seq(Src!Produced) :
             Len(f) <= Batch /\ Gone' \subseteq Gone \cup Src!ToSet(f) /\ breaks' = breaks + 1
             /\ crashes' = crashes
  <2>1. PICK f \in Seq(Src!Produced) :
          Len(f) <= Batch /\ Gone' \subseteq Gone \cup Src!ToSet(f) /\ breaks' = breaks + 1
          /\ crashes' = crashes
    BY <1>7
  <2>2. IsFiniteSet(Src!ToSet(f)) /\ Cardinality(Src!ToSet(f)) <= Batch
    BY <1>1, <2>1, SetOfCount
  <2>3. /\ d <= c + Cardinality(Src!ToSet(f)) /\ c \in Nat /\ d \in Nat
        /\ Cardinality(Src!ToSet(f)) \in Nat
    BY <1>3, <2>1, <2>2, GrowsBy DEF c, d
  <2>4. breaks' * Batch = x + Batch /\ crashes' * R = y BY <1>2, <2>1 DEF y
  <2>5. d <= breaks' * Batch + crashes' * R BY <1>1, <1>2, <1>5, <2>2, <2>3, <2>4
  <2> QED BY <1>4, <2>5, SameCardinality DEF Src!LossBounded, d, R
<1>8. CASE Gone' \subseteq Gone \cup Src!ToSet(flight) /\ breaks' = breaks /\ crashes' = crashes + 1
  <2>1. IsFiniteSet(Src!ToSet(flight)) /\ Cardinality(Src!ToSet(flight)) <= R
    BY <1>1, SetOfCount
  <2>2. /\ d <= c + Cardinality(Src!ToSet(flight)) /\ c \in Nat /\ d \in Nat
        /\ Cardinality(Src!ToSet(flight)) \in Nat
    BY <1>3, <1>8, <2>1, GrowsBy DEF c, d
  <2>3. breaks' * Batch = x /\ crashes' * R = y + R BY <1>2, <1>8 DEF x
  <2>4. d <= breaks' * Batch + crashes' * R BY <1>1, <1>2, <1>5, <2>1, <2>2, <2>3
  <2> QED BY <1>4, <2>4, SameCardinality DEF Src!LossBounded, d, R
<1> QED BY <1>6, <1>7, <1>8, GoneStep

\* RedisSource::next_batch and PostgresCdcSource::next_batch, for any stream,
\* batch size, ring and any number of broken connections and crashes: what is
\* neither delivered nor in the process nor to be read is at most one read for
\* every broken connection, and for every crash what the pipeline had taken.
THEOREM LossIsBounded ==
  ASSUME Sized, SourceKind \in {"redis", "postgres"}
  PROVE  Src!Spec => []Src!LossBounded
<1> DEFINE Inv == Types /\ PulledAtOnce /\ Src!LossBounded
<1>1. Src!Init => Inv
  <2> SUFFICES ASSUME Src!Init PROVE Inv OBVIOUS
  <2>1. Types BY InitTypes
  <2>2. PulledAtOnce BY DEF Src!Init, PulledAtOnce, Sized
  <2>3. Src!Lost = {} BY DEF Src!Init, Src!Lost, Src!Produced
  <2>4. Cardinality(Src!Lost) = 0 BY <2>3, FS_EmptySet
  <2>5. breaks * Batch = 0 /\ crashes * (Ring + Batch) = 0 BY DEF Src!Init, Sized
  <2> QED BY <2>1, <2>2, <2>4, <2>5, SameCardinality DEF Src!LossBounded
<1>2. Inv /\ [Src!Next]_(Src!vars) => Inv' BY TypesStep, PulledStep, BoundStep
<1> QED BY <1>1, <1>2, PTL DEF Src!Spec

---------------------------------------------------------------------------
(* NATS, RabbitMQ and MongoDB.                                               *)

\* What has left the reader's hands.
Past == delivered \cup Src!ToSet(buf) \cup Src!ToSet(flight)

\* Delivering an event, and handing out what is buffered, move events on.
LEMMA DeliverKeeps ==
  ASSUME Types, Src!Deliver
  PROVE  Past' = Past
<1>1. Src!ToSet(flight) = {Head(flight)} \cup Src!ToSet(Tail(flight))
  BY SetOfTail DEF Src!Deliver, Types
<1> QED BY <1>1 DEF Src!Deliver, Past

LEMMA BatchKeeps ==
  ASSUME Sized, Types, Src!BufferedBatch
  PROVE  Past' = Past
<1>1. PICK n \in 1 .. Batch : /\ n <= Len(buf) /\ flight' = flight \o SubSeq(buf, 1, n)
                             /\ buf' = SubSeq(buf, n + 1, Len(buf))
  BY DEF Src!BufferedBatch
<1>2. n \in 1 .. Len(buf) /\ buf \in Seq(Src!Produced) /\ flight \in Seq(Src!Produced)
  BY <1>1 DEF Types, Sized
<1>3. /\ Src!ToSet(buf) = Src!ToSet(SubSeq(buf, 1, n)) \cup Src!ToSet(buf')
      /\ SubSeq(buf, 1, n) \in Seq(Src!Produced)
  BY <1>1, <1>2, SetOfSplit
<1>4. Src!ToSet(flight') = Src!ToSet(flight) \cup Src!ToSet(SubSeq(buf, 1, n))
  <2> DEFINE b == SubSeq(buf, 1, n)
  <2>0. b \in Seq(Src!Produced) BY <1>3
  <2> HIDE DEF b
  <2>1. Src!ToSet(flight \o b) = Src!ToSet(flight) \cup Src!ToSet(b) BY <1>2, <2>0, SetOfConcat
  <2> QED BY <1>1, <2>1 DEF b
<1> QED BY <1>3, <1>4 DEF Src!BufferedBatch, Past

\* A message that was not there is not acknowledged.
LEMMA ProducedIsNew ==
  ASSUME Sized, Types, Src!Produce
  PROVE  \A m \in Src!Produced' : st'[m] = "done" => m \in Src!Produced /\ st[m] = "done"
<1>1. made' = made + 1 /\ made \in Nat /\ made' <= MaxMade BY DEF Src!Produce, Types, Sized
<1>2. made + 1 \in Src!Messages /\ st[made + 1] = "new" BY <1>1 DEF Src!Messages, Types, Sized
<1>3. Src!Produced' = Src!Produced \cup {made + 1} BY <1>1 DEF Src!Produced
<1> QED BY <1>2, <1>3 DEF Src!Produce

LEMMA NatsStep ==
  ASSUME Sized, Types, AckedIsHeld, MaxCrashes = 0, [Src!Next]_(Src!vars)
  PROVE  AckedIsHeld'
<1> SUFFICES ASSUME SourceKind = "nats", crashes = 0 PROVE AckedIsHeld'
  BY DEF AckedIsHeld, Types, Sized
<1> DEFINE Here == Src!ToSet(hold) \cup Past
<1>0. /\ hold \in Seq(Src!Produced) /\ flight \in Seq(Src!Produced)
      /\ Src!Produced \subseteq Src!Messages
      /\ st \in [Src!Messages -> {"new", "out", "done"}]
      /\ \A m \in Src!Produced : st[m] = "done" => m \in Here
  BY DEF Types, AckedIsHeld, Src!InProcess, Past, Sized, Src!Produced, Src!Messages
<1> SUFFICES \A m \in Src!Produced' : st'[m] = "done" => m \in Here'
  BY DEF AckedIsHeld, Src!InProcess, Past
<1> USE <1>0 DEF Src!upstream, Src!resume
<1>1. CASE Src!Produce
  BY <1>1, ProducedIsNew DEF Src!Produce, Past
<1>2. CASE Src!Deliver BY <1>2, DeliverKeeps DEF Src!Deliver, Src!Produced
<1>3. CASE Src!BufferedBatch BY <1>3, BatchKeeps DEF Src!BufferedBatch, Src!Produced
<1>4. CASE Src!NatsStream BY <1>4 DEF Src!NatsStream, Past, Src!Produced
<1>5. CASE Src!NatsReceive
  <2>1. PICK m \in Src!New : st' = [st EXCEPT ![m] = "out"] /\ hold' = Append(hold, m)
    BY <1>5 DEF Src!NatsReceive
  <2>2. m \in Src!Produced BY DEF Src!New
  <2>3. Src!ToSet(hold') = Src!ToSet(hold) \cup {m} BY <2>1, <2>2, SetOfAppend
  <2> QED BY <1>5, <2>1, <2>2, <2>3 DEF Src!NatsReceive, Past, Src!Produced
<1>6. CASE Src!NatsAck
  <2>1. hold # <<>> BY <1>6 DEF Src!NatsAck, Types
  <2>2. Src!Last(hold) \in Src!ToSet(hold) BY <2>1, SetOfType DEF Src!Last
  <2>3. \A m \in Src!Produced : st'[m] = "done" => st[m] = "done" \/ m = Src!Last(hold)
    BY <1>6 DEF Src!NatsAck
  <2> QED BY <1>6, <2>2, <2>3 DEF Src!NatsAck, Past, Src!Produced
<1>7. CASE Src!NatsReturn
  <2>1. Src!ToSet(flight \o hold) = Src!ToSet(flight) \cup Src!ToSet(hold) BY SetOfConcat
  <2> QED BY <1>7, <2>1 DEF Src!NatsReturn, Past, Src!Produced
<1>8. CASE Src!NatsExpire
  <2>1. \A m \in Src!Produced : st'[m] = "done" => st[m] = "done" BY <1>8 DEF Src!NatsExpire
  <2> QED BY <1>8, <2>1 DEF Src!NatsExpire, Past, Src!Produced
<1>9. CASE Src!NatsBreak BY <1>9 DEF Src!NatsBreak, Past, Src!Produced
<1>10. CASE Src!Crash BY <1>10 DEF Src!Crash
<1>11. CASE UNCHANGED Src!vars BY <1>11 DEF Src!vars, Past, Src!Produced
<1> QED BY <1>1, <1>2, <1>3, <1>4, <1>5, <1>6, <1>7, <1>8, <1>9, <1>10, <1>11
    DEF Src!Next, Src!Source, Src!Trouble, Src!Redis, Src!Nats, Src!Rabbit, Src!Postgres,
    Src!Mongo,
        Src!RedisReconnect, Src!RedisAck, Src!RedisAckFails, Src!RedisRead, Src!RedisReadFails,
        Src!RabbitConnect, Src!RabbitReceive, Src!RabbitNack, Src!RabbitPush, Src!RabbitAck,
        Src!RabbitBreak,
        Src!PgConnect, Src!PgQuery, Src!PgQueryFails,
        Src!MongoReceive, Src!MongoPush, Src!MongoFlush, Src!MongoError, Src!MongoEnds

LEMMA RabbitStep ==
  ASSUME Sized, Types, AckedIsPushed, MaxCrashes = 0, [Src!Next]_(Src!vars)
  PROVE  AckedIsPushed'
<1> SUFFICES ASSUME SourceKind = "rabbit", crashes = 0 PROVE AckedIsPushed'
  BY DEF AckedIsPushed, Types, Sized
<1>0. /\ hold \in Seq(Src!Produced) /\ buf \in Seq(Src!Produced)
      /\ Src!Produced \subseteq Src!Messages
      /\ st \in [Src!Messages -> {"new", "out", "done"}]
      /\ reader = "start" => hold = <<>>
      /\ reader \in {"push", "ack"} => Len(hold) = 1
      /\ reader = "ack" => hold[1] \in Past
      /\ reader \in {"start", "push", "ack"}
      /\ \A m \in Src!Produced : st[m] = "done" => m \in Past
  BY DEF Types, AckedIsPushed, Past, Sized, Src!Produced, Src!Messages
<1> SUFFICES /\ reader' = "start" => hold' = <<>>
             /\ reader' \in {"push", "ack"} => Len(hold') = 1
             /\ reader' = "ack" => hold'[1] \in Past'
             /\ reader' \in {"start", "push", "ack"}
             /\ \A m \in Src!Produced' : st'[m] = "done" => m \in Past'
  BY DEF AckedIsPushed, Past
<1> USE <1>0 DEF Src!upstream, Src!resume
<1>1. CASE Src!Produce
  BY <1>1, ProducedIsNew DEF Src!Produce, Past
<1>2. CASE Src!Deliver BY <1>2, DeliverKeeps DEF Src!Deliver, Src!Produced
<1>3. CASE Src!BufferedBatch BY <1>3, BatchKeeps DEF Src!BufferedBatch, Src!Produced
<1>4. CASE Src!RabbitConnect BY <1>4 DEF Src!RabbitConnect, Past, Src!Produced
<1>5. CASE Src!RabbitReceive
  <2>1. PICK m \in Src!New : st' = [st EXCEPT ![m] = "out"] /\ hold' = <<m>>
    BY <1>5 DEF Src!RabbitReceive
  <2> QED BY <1>5, <2>1 DEF Src!RabbitReceive, Past, Src!Produced
<1>6. CASE Src!RabbitNack
  <2>1. st' \in {st, [st EXCEPT ![hold[1]] = "new"]} BY <1>6 DEF Src!RabbitNack
  <2>2. \A m \in Src!Produced : st'[m] = "done" => st[m] = "done" BY <2>1
  <2> QED BY <1>6, <2>2 DEF Src!RabbitNack, Past, Src!Produced
<1>7. CASE Src!RabbitPush
  <2>1. Src!ToSet(buf \o hold) = Src!ToSet(buf) \cup Src!ToSet(hold) BY SetOfConcat
  <2>2. hold[1] \in Src!ToSet(hold)
    <3>0. reader = "push" BY <1>7 DEF Src!RabbitPush
    <3>a. Len(hold) = 1 BY <3>0
    <3>1. 1 \in 1 .. Len(hold) BY <3>a
    <3>2. \A i \in 1 .. Len(hold) : hold[i] \in Src!ToSet(hold) BY SetOfType
    <3> QED BY <3>1, <3>2
  <2> QED BY <1>7, <2>1, <2>2 DEF Src!RabbitPush, Past, Src!Produced
<1>8. CASE Src!RabbitAck
  <2>1. st' \in {st, [st EXCEPT ![hold[1]] = "done"]} BY <1>8 DEF Src!RabbitAck
  <2>2. \A m \in Src!Produced : st'[m] = "done" => st[m] = "done" \/ m = hold[1] BY <2>1
  <2> QED BY <1>8, <2>2 DEF Src!RabbitAck, Past, Src!Produced
<1>9. CASE Src!RabbitBreak BY <1>9 DEF Src!RabbitBreak, Past, Src!Produced
<1>10. CASE Src!Crash BY <1>10 DEF Src!Crash
<1>11. CASE UNCHANGED Src!vars BY <1>11 DEF Src!vars, Past, Src!Produced
<1> QED BY <1>1, <1>2, <1>3, <1>4, <1>5, <1>6, <1>7, <1>8, <1>9, <1>10, <1>11
    DEF Src!Next, Src!Source, Src!Trouble, Src!Redis, Src!Nats, Src!Rabbit, Src!Postgres,
    Src!Mongo,
        Src!RedisReconnect, Src!RedisAck, Src!RedisAckFails, Src!RedisRead, Src!RedisReadFails,
        Src!NatsStream, Src!NatsReceive, Src!NatsAck, Src!NatsReturn, Src!NatsExpire,
        Src!NatsBreak,
        Src!PgConnect, Src!PgQuery, Src!PgQueryFails,
        Src!MongoReceive, Src!MongoPush, Src!MongoFlush, Src!MongoError, Src!MongoEnds

\* NatsSource::next_batch and RabbitMQ's drive_consumer: whatever connections
\* break and whatever the server hands out again, a message that is produced is
\* delivered, in the process, or will be handed out, as long as no process ends.
THEOREM NothingIsLost ==
  ASSUME Sized, SourceKind \in {"nats", "rabbit"}, MaxCrashes = 0
  PROVE  Src!Spec => []Src!NothingLost
<1> DEFINE Inv == Types /\ AckedIsHeld /\ AckedIsPushed
<1>1. Src!Init => Inv
  <2> SUFFICES ASSUME Src!Init PROVE Inv OBVIOUS
  <2>1. Types BY InitTypes
  <2> QED BY <2>1 DEF Src!Init, AckedIsHeld, AckedIsPushed, Src!Produced
<1>2. Inv /\ [Src!Next]_(Src!vars) => Inv' BY TypesStep, NatsStep, RabbitStep
<1>3. Inv => Src!NothingLost
  <2> SUFFICES ASSUME Inv PROVE Src!NothingLost OBVIOUS
  <2>1. crashes = 0 BY DEF Types
  <2>2. \A m \in Src!Produced : st[m] = "done" => m \in delivered \cup Src!InProcess
    BY <2>1 DEF AckedIsHeld, AckedIsPushed, Src!InProcess
  <2> QED BY <2>2 DEF Src!NothingLost, Src!Lost, Src!Coming
<1> QED BY <1>1, <1>2, <1>3, PTL DEF Src!Spec

LEMMA MongoStep ==
  ASSUME Sized, Types, ReadIsHeld, [Src!Next]_(Src!vars)
  PROVE  ReadIsHeld'
<1> SUFFICES ASSUME SourceKind = "mongo", crashes' = 0 PROVE ReadIsHeld'
  BY DEF ReadIsHeld
<1>0. crashes = 0
  <2>1. crashes \in Nat BY DEF Types, Sized
  <2>2. crashes' \in {crashes, crashes + 1}
    BY DEF Src!Next, Src!Source, Src!Trouble, Src!Redis, Src!Nats, Src!Rabbit, Src!Postgres,
          Src!Mongo, Src!vars, Src!Produce, Src!Deliver,
        Src!BufferedBatch, Src!Crash, Src!RedisReconnect, Src!RedisAck, Src!RedisAckFails,
        Src!RedisRead, Src!RedisReadFails,
        Src!NatsStream, Src!NatsReceive, Src!NatsAck, Src!NatsReturn, Src!NatsExpire,
        Src!NatsBreak,
        Src!RabbitConnect, Src!RabbitReceive, Src!RabbitNack, Src!RabbitPush, Src!RabbitAck,
        Src!RabbitBreak,
        Src!PgConnect, Src!PgQuery, Src!PgQueryFails,
        Src!MongoReceive, Src!MongoPush, Src!MongoFlush, Src!MongoError, Src!MongoEnds
  <2> QED BY <2>1, <2>2
<1>1. /\ hold \in Seq(Src!Produced) /\ buf \in Seq(Src!Produced) /\ cursor \in Nat /\ token \in Nat
      /\ reader \in {"start", "flush"} => hold = <<>>
      /\ token <= cursor
      /\ \A m \in 1..cursor : m \in Src!ToSet(hold) \cup Past
  BY <1>0 DEF Types, ReadIsHeld, Src!InProcess, Past, Sized
<1> SUFFICES /\ reader' \in {"start", "flush"} => hold' = <<>>
             /\ token' <= cursor'
             /\ \A m \in 1..cursor' : m \in Src!ToSet(hold') \cup Past'
  BY DEF ReadIsHeld, Src!InProcess, Past
<1> USE <1>1 DEF Src!upstream, Src!resume
<1>2. CASE Src!Produce BY <1>2 DEF Src!Produce, Past
<1>3. CASE Src!Deliver BY <1>3, DeliverKeeps DEF Src!Deliver
<1>4. CASE Src!BufferedBatch BY <1>4, BatchKeeps DEF Src!BufferedBatch
<1>5. CASE Src!MongoReceive
  <2>1. Src!ToSet(hold') = {cursor + 1} /\ Src!ToSet(hold) = {}
    BY <1>5, SetOfOne, SetOfEmpty DEF Src!MongoReceive
  <2>2. cursor' = cursor + 1 /\ Past' = Past /\ token' = token
    BY <1>5 DEF Src!MongoReceive, Past
  <2>3. \A m \in 1..cursor + 1 : m \in 1..cursor \/ m = cursor + 1 OBVIOUS
  <2> QED BY <1>5, <2>1, <2>2, <2>3 DEF Src!MongoReceive
<1>6. CASE Src!MongoPush
  <2>1. Src!ToSet(buf \o hold) = Src!ToSet(buf) \cup Src!ToSet(hold) BY SetOfConcat
  <2> QED BY <1>6, <2>1 DEF Src!MongoPush, Past
<1>7. CASE Src!MongoFlush BY <1>7 DEF Src!MongoFlush, Past
<1>8. CASE Src!MongoError BY <1>8 DEF Src!MongoError, Past
<1>9. CASE Src!MongoEnds BY <1>9 DEF Src!MongoEnds, Past
<1>10. CASE Src!Crash BY <1>0, <1>10 DEF Src!Crash
<1>11. CASE UNCHANGED Src!vars BY <1>11 DEF Src!vars, Past
<1> QED BY <1>2, <1>3, <1>4, <1>5, <1>6, <1>7, <1>8, <1>9, <1>10, <1>11
    DEF Src!Next, Src!Source, Src!Trouble, Src!Redis, Src!Nats, Src!Rabbit, Src!Postgres,
    Src!Mongo,
        Src!RedisReconnect, Src!RedisAck, Src!RedisAckFails, Src!RedisRead, Src!RedisReadFails,
        Src!NatsStream, Src!NatsReceive, Src!NatsAck, Src!NatsReturn, Src!NatsExpire,
        Src!NatsBreak,
        Src!RabbitConnect, Src!RabbitReceive, Src!RabbitNack, Src!RabbitPush, Src!RabbitAck,
        Src!RabbitBreak,
        Src!PgConnect, Src!PgQuery, Src!PgQueryFails

\* MongoDB's reader: the resume token it saves skips only what was delivered or
\* is in the process, for any interval between flushes and any failed saves,
\* as long as the process has not ended.
THEOREM TokenIsCovered ==
  ASSUME Sized
  PROVE  Src!Spec => []Src!TokenCovered
<1> DEFINE Inv == Types /\ ReadIsHeld
<1>1. Src!Init => Inv
  <2> SUFFICES ASSUME Src!Init PROVE Inv OBVIOUS
  <2>1. Types BY InitTypes
  <2> QED BY <2>1 DEF Src!Init, ReadIsHeld
<1>2. Inv /\ [Src!Next]_(Src!vars) => Inv' BY TypesStep, MongoStep
<1>3. Inv => Src!TokenCovered BY DEF Types, ReadIsHeld, Src!TokenCovered, Sized
<1> QED BY <1>1, <1>2, <1>3, PTL DEF Src!Spec

---------------------------------------------------------------------------
(* The push buffer, for any number of senders, any capacity, threshold and   *)
(* batch.                                                                    *)

\* The settings of a buffer, and the finitely many tasks that send to it.
BufferSized ==
  /\ IsFiniteSet(Senders) /\ ChannelCapacity \in Nat /\ SpillThreshold \in Nat
  /\ BatchSize \in Nat /\ MaxGone \in Nat

\* Types of what the count depends on.
CountTypes ==
  /\ sends \in [Senders -> {"idle", "send", "spill", "flag", "wait"}]
  /\ chan \in Nat /\ spill_count \in Nat /\ taken \in Nat /\ remaining \in Nat /\ gone \in Nat
  /\ at \in {"recv", "drain", "sub", "check", "clear"}

\* What is still to be handed out, and the handlers that were dropped after
\* they were counted.
Outstanding == chan + Buffer!Counted + gone

\* Between load and fetch_sub senders only add, each of them an event.
LoadedBehind == at = "sub" => remaining <= spill_count /\ spill_count - remaining <= Outstanding

\* The count drifts by no more than one for each dropped handler.
SpillBounded == spill_count <= Outstanding + (IF at \in {"drain", "sub"} THEN taken ELSE 0)

CountInv == CountTypes /\ LoadedBehind /\ SpillBounded

\* Spilled senders are counted once: the number of senders past the fetch_add is
\* a natural number that moves by one when a sender enters or leaves them.
LEMMA CountedMoves ==
  ASSUME BufferSized, CountTypes, NEW s \in Senders, sends' = [sends EXCEPT ![s] = sends'[s]]
  PROVE  /\ Buffer!Counted \in Nat
         /\ Buffer!Counted' = Buffer!Counted + (IF sends'[s] \in {"flag", "wait"} THEN 1 ELSE 0)
                                - (IF sends[s] \in {"flag", "wait"} THEN 1 ELSE 0)
  <1> DEFINE S == {t \in Senders : sends[t] \in {"flag", "wait"}}
             T == {t \in Senders : sends'[t] \in {"flag", "wait"}}
  <1>1. IsFiniteSet(S) /\ Cardinality(S) \in Nat
    BY FS_Subset, FS_CardinalityType DEF BufferSized
  <1>2. T = IF sends'[s] \in {"flag", "wait"} THEN S \cup {s} ELSE S \ {s}
    BY DEF CountTypes
  <1>3. s \in S <=> sends[s] \in {"flag", "wait"}
    OBVIOUS
  <1>4. /\ Cardinality(S \cup {s}) = IF s \in S THEN Cardinality(S) ELSE Cardinality(S) + 1
        /\ Cardinality(S \ {s}) = IF s \in S THEN Cardinality(S) - 1 ELSE Cardinality(S)
    BY <1>1, FS_AddElement, FS_RemoveElement
  <1>5. Buffer!Counted = Cardinality(S) /\ Buffer!Counted' = Cardinality(T)
    BY SameCardinality DEF Buffer!Counted
  <1> HIDE DEF S, T
  <1> QED  BY <1>1, <1>2, <1>3, <1>4, <1>5

\* A step that moves no sender leaves the number of counted senders.
LEMMA CountedStays ==
  ASSUME BufferSized, CountTypes, UNCHANGED sends
  PROVE  Buffer!Counted \in Nat /\ Buffer!Counted' = Buffer!Counted
  <1>1. IsFiniteSet({t \in Senders : sends[t] \in {"flag", "wait"}})
    BY FS_Subset DEF BufferSized
  <1> QED  BY <1>1, FS_CardinalityType, SameCardinality DEF Buffer!Counted

\* A step of a sender keeps the count covered.
LEMMA SenderKeepsCount ==
  ASSUME BufferSized, CountInv, NEW s \in Senders,
         Buffer!Receive(s) \/ Buffer!Refuse(s) \/ Buffer!SendStep(s) \/ Buffer!Disconnect(s)
  PROVE  CountInv'
  <1>1. CASE Buffer!Receive(s)
    <2>1. sends[s] = "idle" /\ sends'[s] = "send" /\ sends' = [sends EXCEPT ![s] = sends'[s]]
      BY <1>1 DEF Buffer!Receive, CountInv, CountTypes
    <2>2. Buffer!Counted \in Nat /\ Buffer!Counted' = Buffer!Counted
      BY <2>1, CountedMoves DEF CountInv
    <2> QED
      BY <1>1, <2>2
      DEF Buffer!Receive, Buffer!consumer, CountInv, CountTypes, Outstanding, LoadedBehind, SpillBounded
  <1>2. CASE Buffer!Refuse(s)
    BY <1>2, CountedStays DEF Buffer!Refuse, Buffer!vars, CountInv, CountTypes, Outstanding,
          LoadedBehind, SpillBounded
  <1>3. CASE Buffer!TrySend(s)
    <2>1. sends[s] = "send" /\ sends'[s] \in {"idle", "spill"} /\ sends' = [sends EXCEPT ![s] = sends'[s]]
      BY <1>3 DEF Buffer!TrySend, CountInv, CountTypes
    <2>2. Buffer!Counted \in Nat /\ Buffer!Counted' = Buffer!Counted
      BY <2>1, CountedMoves DEF CountInv
    <2> QED
      BY <1>3, <2>2
      DEF Buffer!TrySend, Buffer!consumer, CountInv, CountTypes, Outstanding, LoadedBehind, SpillBounded
  <1>4. CASE Buffer!Spill(s)
    <2>1. sends[s] = "spill" /\ sends'[s] = "flag" /\ sends' = [sends EXCEPT ![s] = sends'[s]]
      BY <1>4 DEF Buffer!Spill, CountInv, CountTypes
    <2>2. Buffer!Counted \in Nat /\ Buffer!Counted' = Buffer!Counted + 1
      BY <2>1, CountedMoves DEF CountInv
    <2> QED
      BY <1>4, <2>2
      DEF Buffer!Spill, Buffer!consumer, CountInv, CountTypes, Outstanding, LoadedBehind, SpillBounded
  <1>5. CASE Buffer!Flag(s)
    <2>1. sends[s] = "flag" /\ sends'[s] = "wait" /\ sends' = [sends EXCEPT ![s] = sends'[s]]
      BY <1>5 DEF Buffer!Flag, CountInv, CountTypes
    <2>2. Buffer!Counted \in Nat /\ Buffer!Counted' = Buffer!Counted
      BY <2>1, CountedMoves DEF CountInv
    <2> QED
      BY <1>5, <2>2
      DEF Buffer!Flag, Buffer!consumer, CountInv, CountTypes, Outstanding, LoadedBehind, SpillBounded
  <1>6. CASE Buffer!Sent(s)
    <2>1. sends[s] = "wait" /\ sends'[s] = "idle" /\ sends' = [sends EXCEPT ![s] = sends'[s]]
      BY <1>6 DEF Buffer!Sent, CountInv, CountTypes
    <2>2. Buffer!Counted \in Nat /\ Buffer!Counted' = Buffer!Counted - 1
      BY <2>1, CountedMoves DEF CountInv
    <2> QED
      BY <1>6, <2>2
      DEF Buffer!Sent, Buffer!consumer, CountInv, CountTypes, Outstanding, LoadedBehind, SpillBounded
  <1>7. CASE Buffer!Disconnect(s)
    <2>1. sends[s] = "wait" /\ sends'[s] = "idle" /\ sends' = [sends EXCEPT ![s] = sends'[s]]
      BY <1>7 DEF Buffer!Disconnect, CountInv, CountTypes
    <2>2. Buffer!Counted \in Nat /\ Buffer!Counted' = Buffer!Counted - 1
      BY <2>1, CountedMoves DEF CountInv
    <2> QED
      BY <1>7, <2>2
      DEF Buffer!Disconnect, Buffer!consumer, CountInv, CountTypes, Outstanding, LoadedBehind, SpillBounded
  <1> QED  BY <1>1, <1>2, <1>3, <1>4, <1>5, <1>6, <1>7 DEF Buffer!SendStep

\* A step of next_batch keeps the count covered: the subtraction is of a count
\* loaded earlier, and what was added since is still outstanding.
LEMMA ConsumerKeepsCount ==
  ASSUME BufferSized, CountInv, Buffer!NextBatch
  PROVE  CountInv'
  <1> USE DEF CountInv, CountTypes, Outstanding, LoadedBehind, SpillBounded
  <1>1. CASE Buffer!Take
    BY <1>1, CountedStays DEF Buffer!Take, Buffer!senders
  <1>2. CASE Buffer!Load
    BY <1>2, CountedStays DEF Buffer!Load, Buffer!senders
  <1>3. CASE Buffer!Settle
    BY <1>3, CountedStays DEF Buffer!Settle, Buffer!senders
  <1>4. CASE Buffer!Check
    BY <1>4, CountedStays DEF Buffer!Check, Buffer!senders
  <1>5. CASE Buffer!Clear
    BY <1>5, CountedStays DEF Buffer!Clear, Buffer!senders
  <1> QED  BY <1>1, <1>2, <1>3, <1>4, <1>5 DEF Buffer!NextBatch

\* The spill count never goes below zero, and exceeds what next_batch still has
\* to hand out by no more than the handlers that were dropped while they waited.
THEOREM SpillDriftBounded ==
  ASSUME BufferSized
  PROVE  Buffer!Spec => []CountInv
  <1>1. ASSUME Buffer!Init  PROVE CountInv
    <2>1. {s \in Senders : sends[s] \in {"flag", "wait"}} = {}
      BY <1>1 DEF Buffer!Init
    <2>2. Buffer!Counted = 0
      BY <2>1, FS_EmptySet, SameCardinality DEF Buffer!Counted
    <2> QED  BY <1>1, <2>2 DEF Buffer!Init, CountInv, CountTypes, LoadedBehind, SpillBounded,
          Outstanding
  <1>2. ASSUME CountInv, [Buffer!Next]_Buffer!vars  PROVE CountInv'
    <2>1. CASE UNCHANGED Buffer!vars
      BY <1>2, <2>1, CountedStays
      DEF CountInv, CountTypes, LoadedBehind, SpillBounded, Outstanding, Buffer!vars
    <2> QED  BY <1>2, <2>1, SenderKeepsCount, ConsumerKeepsCount DEF Buffer!Next
  <1> QED  BY <1>1, <1>2, PTL DEF Buffer!Spec

\* PushBufferTx::send and next_batch: where no handler is dropped while it
\* waits, the count is covered by the events the buffer has to hand out, at any
\* number of senders and any capacity, threshold and batch size.
THEOREM SpillsAreCovered ==
  ASSUME BufferSized, MaxGone = 0
  PROVE  Buffer!Spec => []Buffer!SpillCovered
  <1> DEFINE NoneGone == gone = 0
  <1>1. Buffer!Init => NoneGone
    BY DEF Buffer!Init
  <1>2. NoneGone /\ [Buffer!Next]_Buffer!vars => NoneGone'
    BY DEF Buffer!Next, Buffer!vars, Buffer!NextBatch, Buffer!SendStep, Buffer!Take,
          Buffer!Load, Buffer!Settle, Buffer!Check, Buffer!Clear, Buffer!Receive,
           Buffer!Refuse, Buffer!TrySend, Buffer!Spill, Buffer!Flag, Buffer!Sent, Buffer!Disconnect
  <1>3. CountInv /\ NoneGone => Buffer!SpillCovered
    <2>1. Buffer!Counted \in Nat
      <3>1. IsFiniteSet({t \in Senders : sends[t] \in {"flag", "wait"}})
        BY FS_Subset DEF BufferSized
      <3> QED  BY <3>1, FS_CardinalityType, SameCardinality DEF Buffer!Counted
    <2> QED  BY <2>1 DEF CountInv, CountTypes, SpillBounded, Outstanding, Buffer!SpillCovered
  <1>4. Buffer!Spec => []CountInv
    BY SpillDriftBounded
  <1> HIDE DEF NoneGone
  <1> QED  BY <1>1, <1>2, <1>3, <1>4, PTL DEF Buffer!Spec
=============================================================================
