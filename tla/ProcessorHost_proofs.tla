------------------------ MODULE ProcessorHost_proofs ------------------------
(***************************************************************************)
(* What the WebSocket processor host owes the callers of its transport:    *)
(* for any number of calls, partitions and connections, and whatever       *)
(* breaks, is stashed, replayed, expired, drained or revoked, a caller     *)
(* gets the answer to its own batch, a waiting caller has exactly one      *)
(* place that will resolve it, a session's semaphore bounds what is        *)
(* outstanding, and the count of connections is exact.                     *)
(***************************************************************************)
EXTENDS ProcessorHost, FiniteSetTheorems, TLAPS

\* The WebSocket host, with any number of calls, partitions and connections.
WebSocketHost ==
  /\ T3 = FALSE /\ IsFiniteSet(Calls)
  /\ PartOf \in [Calls -> Partitions] /\ MaxSessions \in Nat /\ Cap \in Nat

SessFields == {"pc", "conn", "closed", "next", "pending", "left", "todo", "req", "ans"}
CallFields == {"pc", "sess", "link", "id", "nr", "got"}

\* The fields of sessions and calls; batch ids are numbers.
Shape ==
  /\ DOMAIN sess = Sessions /\ DOMAIN call = Calls
  /\ \A s \in Sessions : DOMAIN sess[s] = SessFields /\ sess[s].next \in Nat /\ Pending(s) \subseteq Nat
  /\ \A c \in Calls : DOMAIN call[c] = CallFields
  /\ route \in [Partitions -> 0 .. MaxSessions]

\* A batch id of session s is used up, and a message that carries it is of
\* the batch whose entry it finds.
Own(s, i, c) == i \in Nat /\ i < sess[s].next /\ (i \in Pending(s) => sess[s].pending[i] = c)

OwnAfter(s, i, c) ==
  /\ i \in Nat /\ i < sess'[s].next
  /\ i \in DOMAIN sess'[s].pending => sess'[s].pending[i] = c

Messages ==
  \A s \in Sessions :
    /\ \A i \in Pending(s) : i < sess[s].next
    /\ \A r \in sess[s].req \cup sess[s].ans : Own(s, r.id, r.of)

Parked == {"sending", "waiting"}
Underway == {"routed"} \cup Parked

\* A caller that has looked up its session sends on that session's socket,
\* under the id its entry has.
Callers ==
  \A c \in Calls :
    /\ call[c].pc \in Underway => call[c].sess \in Sessions /\ call[c].link = call[c].sess
    /\ call[c].pc \in Parked => Own(call[c].sess, call[c].id, c)

OwnInv == Shape /\ Messages /\ Callers /\ AnswerIsOwn

---------------------------------------------------------------------------

\* At the start nothing is pending and nobody waits.
LEMMA OwnInit ==
  ASSUME WebSocketHost, Init
  PROVE  OwnInv
<1>1. Shape
  BY DEF Init, Shape, WebSocketHost, NoSession, NewCall, SessFields, CallFields, Pending
<1>2. Messages BY DEF Init, Messages, Pending, NoSession
<1>3. Callers /\ AnswerIsOwn BY DEF Init, Callers, NewCall, AnswerIsOwn, Underway, Parked
<1> QED BY <1>1, <1>2, <1>3 DEF OwnInv

\* Session s forgets entries and messages, and gives out no id.
Shrinks(s) ==
  /\ DOMAIN sess'[s] = SessFields
  /\ sess'[s].next \in Nat /\ sess'[s].next >= sess[s].next
  /\ Pending(s)' \subseteq Pending(s)
  /\ \A i \in Pending(s)' : sess'[s].pending[i] = sess[s].pending[i]
  /\ sess'[s].req \cup sess'[s].ans \subseteq sess[s].req \cup sess[s].ans

\* Session s gives its next id to a batch of caller c, and may send it.
Grows(s, c) ==
  /\ DOMAIN sess'[s] = SessFields
  /\ sess'[s].next = sess[s].next + 1
  /\ Pending(s)' = Pending(s) \cup {sess[s].next}
  /\ sess'[s].pending[sess[s].next] = c
  /\ \A i \in Pending(s) \ {sess[s].next} : sess'[s].pending[i] = sess[s].pending[i]
  /\ sess'[s].req \cup sess'[s].ans \subseteq
       (sess[s].req \cup sess[s].ans) \cup {[id |-> sess[s].next, of |-> c]}

\* Either way what was known of an id stays true.
LEMMA OwnStays ==
  ASSUME Shape, NEW s \in Sessions, NEW i, NEW c, Own(s, i, c),
         Shrinks(s) \/ \E d : Grows(s, d)
  PROVE  OwnAfter(s, i, c)
<1>1. CASE Shrinks(s) BY <1>1 DEF Shrinks, Own, OwnAfter, Shape, Pending
<1>2. ASSUME NEW d, Grows(s, d) PROVE OwnAfter(s, i, c)
  BY <1>2 DEF Grows, Own, OwnAfter, Shape, Pending
<1> QED BY <1>1, <1>2

\* The ids of a session's entries and messages stay used up and its own.
LEMMA MessagesStay ==
  ASSUME Shape, Messages, NEW s \in Sessions, Shrinks(s) \/ \E d : Grows(s, d)
  PROVE  /\ DOMAIN sess'[s] = SessFields /\ sess'[s].next \in Nat /\ Pending(s)' \subseteq Nat
         /\ \A i \in Pending(s)' : i < sess'[s].next
         /\ \A r \in sess'[s].req \cup sess'[s].ans : OwnAfter(s, r.id, r.of)
<1>1. CASE Shrinks(s)
  <2>1. /\ DOMAIN sess'[s] = SessFields /\ sess'[s].next \in Nat /\ Pending(s)' \subseteq Nat
        /\ \A i \in Pending(s)' : i < sess'[s].next
    BY <1>1 DEF Shrinks, Shape, Messages
  <2>2. \A r \in sess'[s].req \cup sess'[s].ans : Own(s, r.id, r.of)
    BY <1>1 DEF Shrinks, Messages
  <2>3. \A r \in sess'[s].req \cup sess'[s].ans : OwnAfter(s, r.id, r.of) BY <2>2, OwnStays
  <2> QED BY <2>1, <2>3
<1>2. ASSUME NEW d, Grows(s, d)
      PROVE  /\ DOMAIN sess'[s] = SessFields /\ sess'[s].next \in Nat /\ Pending(s)' \subseteq Nat
             /\ \A i \in Pending(s)' : i < sess'[s].next
             /\ \A r \in sess'[s].req \cup sess'[s].ans : OwnAfter(s, r.id, r.of)
  <2>1. /\ DOMAIN sess'[s] = SessFields /\ sess'[s].next \in Nat /\ Pending(s)' \subseteq Nat
        /\ \A i \in Pending(s)' : i < sess'[s].next
    BY <1>2 DEF Grows, Shape, Messages
  <2>2. OwnAfter(s, sess[s].next, d) BY <1>2 DEF Grows, Own, OwnAfter, Shape, Pending
  <2>3. ASSUME NEW r \in sess'[s].req \cup sess'[s].ans PROVE OwnAfter(s, r.id, r.of)
    <3>1. CASE r \in sess[s].req \cup sess[s].ans
      <4>1. Own(s, r.id, r.of) BY <3>1 DEF Messages
      <4> QED BY <1>2, <4>1, OwnStays
    <3>2. CASE r = [id |-> sess[s].next, of |-> d] BY <2>2, <3>2
    <3> QED BY <1>2, <3>1, <3>2 DEF Grows
  <2> QED BY <2>1, <2>3
<1> QED BY <1>1, <1>2

\* A call keeps its place, or is answered or given up.
SameCall(c) ==
  /\ DOMAIN call'[c] = CallFields
  /\ \/ /\ call'[c].pc = call[c].pc /\ call'[c].sess = call[c].sess
        /\ call'[c].link = call[c].link /\ call'[c].id = call[c].id
     \/ call'[c].pc \notin Underway
  /\ call'[c].got = call[c].got \/ call'[c].got \subseteq {c}

\* A step in which sessions forget or give out ids and calls keep their place
\* keeps the invariant.
LEMMA OwnStep ==
  ASSUME OwnInv, DOMAIN sess' = Sessions, DOMAIN call' = Calls,
         route' \in [Partitions -> 0 .. MaxSessions],
         \A s \in Sessions : Shrinks(s) \/ \E d : Grows(s, d),
         \A c \in Calls : SameCall(c)
  PROVE  OwnInv'
<1>1. Shape /\ Messages /\ Callers /\ AnswerIsOwn BY DEF OwnInv
<1>2. Shape'
  <2>1. \A s \in Sessions : DOMAIN sess'[s] = SessFields /\ sess'[s].next \in Nat
                            /\ Pending(s)' \subseteq Nat
    BY <1>1, MessagesStay
  <2> QED BY <2>1 DEF Shape, SameCall
<1>3. Messages' BY <1>1, MessagesStay DEF Messages, Own, OwnAfter, Pending
<1>4. Callers'
  <2> SUFFICES ASSUME NEW c \in Calls, call'[c].pc \in Underway
               PROVE  /\ call'[c].sess \in Sessions /\ call'[c].link = call'[c].sess
                      /\ call'[c].pc \in Parked => OwnAfter(call'[c].sess, call'[c].id, c)
    BY DEF Callers, Own, OwnAfter, Pending, Underway
  <2>1. /\ call'[c].pc = call[c].pc /\ call'[c].sess = call[c].sess
        /\ call'[c].link = call[c].link /\ call'[c].id = call[c].id
    BY DEF SameCall
  <2>2. /\ call[c].sess \in Sessions /\ call[c].link = call[c].sess
        /\ call[c].pc \in Parked => Own(call[c].sess, call[c].id, c)
    BY <1>1, <2>1 DEF Callers
  <2>3. call[c].pc \in Parked => OwnAfter(call[c].sess, call[c].id, c)
    BY <1>1, <2>2, OwnStays
  <2> QED BY <2>1, <2>2, <2>3
<1>5. AnswerIsOwn' BY <1>1 DEF AnswerIsOwn, SameCall
<1> QED BY <1>2, <1>3, <1>4, <1>5 DEF OwnInv

\* The sessions do not change.
LEMMA SessionsStay ==
  ASSUME Shape, sess' = sess
  PROVE  DOMAIN sess' = Sessions /\ \A s \in Sessions : Shrinks(s)
  BY DEF Shape, Shrinks, Pending

\* Only session s changes, and it forgets entries and messages.
Forgets(s) ==
  /\ DOMAIN sess' = Sessions /\ \A t \in Sessions \ {s} : sess'[t] = sess[t]
  /\ DOMAIN sess'[s] = SessFields /\ sess'[s].next \in Nat /\ sess'[s].next >= sess[s].next
  /\ DOMAIN sess'[s].pending \subseteq DOMAIN sess[s].pending
  /\ \A i \in DOMAIN sess'[s].pending : sess'[s].pending[i] = sess[s].pending[i]
  /\ sess'[s].req \cup sess'[s].ans \subseteq sess[s].req \cup sess[s].ans

\* A session that forgets leaves the others as they were.
LEMMA OneSession ==
  ASSUME Shape, NEW s \in Sessions, Forgets(s)
  PROVE  DOMAIN sess' = Sessions /\ \A t \in Sessions : Shrinks(t)
<1>1. Shrinks(s) BY DEF Shrinks, Pending, Forgets
<1>2. \A t \in Sessions \ {s} : Shrinks(t) BY DEF Shrinks, Pending, Shape, Forgets
<1> QED BY <1>1, <1>2 DEF Forgets

\* The calls do not change, or some are resolved.
LEMMA CallsStay ==
  ASSUME Shape, call' = call
  PROVE  DOMAIN call' = Calls /\ \A c \in Calls : SameCall(c)
  BY DEF Shape, SameCall

\* Resolved calls end, and the others keep their place.
LEMMA CallsResolve ==
  ASSUME Shape, NEW C, NEW pc \in {"ok", "err"}, Resolve(C, pc)
  PROVE  DOMAIN call' = Calls /\ \A c \in Calls : SameCall(c)
<1>1. DOMAIN call' = Calls BY DEF Resolve
<1>2. ASSUME NEW c \in Calls PROVE SameCall(c)
  <2>1. call'[c] = call[c] \/ call'[c] = [call[c] EXCEPT !.pc = pc] BY DEF Resolve
  <2>2. DOMAIN call[c] = CallFields BY DEF Shape
  <2> QED BY <2>1, <2>2 DEF SameCall, CallFields, Underway, Parked
<1> QED BY <1>1, <1>2

\* Steps of one session that give out no id and touch no call.
LEMMA OwnQuiet ==
  ASSUME WebSocketHost, OwnInv, NEW s \in Sessions,
         Authorize(s) \/ Accept(s) \/ HandshakeFails(s) \/ StartReading(s) \/ Process(s)
           \/ Break(s) \/ PumpEnds(s) \/ EndRead(s) \/ \E p \in Partitions : TakeStash(s, p)
  PROVE  OwnInv'
<1>1. Shape BY DEF OwnInv
<1>2. call' = call
  BY DEF Authorize, Accept, HandshakeFails, StartReading, Process, Break, PumpEnds, EndRead, TakeStash
<1>3. route' \in [Partitions -> 0 .. MaxSessions]
  <2>1. CASE Accept(s) BY <2>1 DEF Accept, Sessions, WebSocketHost
  <2> QED BY <1>1, <2>1 DEF Shape, Authorize, HandshakeFails, StartReading, Process, Break,
             PumpEnds, EndRead, TakeStash
<1>4. DOMAIN sess[s] = SessFields /\ sess[s].next \in Nat BY <1>1 DEF Shape
<1>5. DOMAIN sess' = Sessions /\ \A t \in Sessions : Shrinks(t)
  <2>0. DOMAIN sess = Sessions BY <1>1 DEF Shape
  <2> USE <1>4, <2>0 DEF Forgets, SessFields
  <2>1. CASE Authorize(s) \/ HandshakeFails(s) \/ StartReading(s) \/ PumpEnds(s)
    <3>1. Forgets(s) BY <2>1 DEF Authorize, HandshakeFails, StartReading, PumpEnds
    <3> QED BY <1>1, <3>1, OneSession
  <2>2. CASE Accept(s)
    <3>1. Forgets(s) BY <2>2 DEF Accept
    <3> QED BY <1>1, <3>1, OneSession
  <2>3. CASE Process(s)
    <3>1. PICK r \in sess[s].req : sess' = [sess EXCEPT ![s].req = @ \ {r}, ![s].ans = @ \cup {r}]
      BY <2>3 DEF Process
    <3>2. Forgets(s) BY <3>1
    <3> QED BY <1>1, <3>2, OneSession
  <2>4. CASE Break(s) \/ EndRead(s)
    <3>1. ASSUME Break(s) PROVE Forgets(s) BY <3>1 DEF Break
    <3>2. ASSUME EndRead(s) PROVE Forgets(s)
      <4>1. sess' = [sess EXCEPT ![s].pc = "stashed", ![s].pending = [i \in {} |-> 0],
                                 ![s].ans = {}]
        BY <3>2 DEF EndRead
      <4>2. DOMAIN [i \in {} |-> 0] = {} OBVIOUS
      <4> QED BY <4>1, <4>2
    <3>3. Forgets(s) BY <2>4, <3>1, <3>2
    <3> QED BY <1>1, <3>3, OneSession
  <2>5. CASE \E p \in Partitions : TakeStash(s, p)
    <3>1. PICK p \in Partitions :
            sess' = [sess EXCEPT ![s].left = @ \ {p}, ![s].todo[p] = bucket[p]]
      BY <2>5 DEF TakeStash
    <3> DEFINE S == [sess[s] EXCEPT !.left = @ \ {p}, !.todo[p] = bucket[p]]
    <3>2. sess' = [sess EXCEPT ![s] = S] BY <3>1
    <3>3. /\ DOMAIN S = SessFields /\ S.next = sess[s].next /\ S.pending = sess[s].pending
          /\ S.req = sess[s].req /\ S.ans = sess[s].ans
      OBVIOUS
    <3> HIDE DEF S
    <3>4. Forgets(s) BY <3>2, <3>3
    <3> QED BY <1>1, <3>4, OneSession
  <2> QED BY <2>1, <2>2, <2>3, <2>4, <2>5
<1>6. DOMAIN call' = Calls /\ \A c \in Calls : SameCall(c) BY <1>1, <1>2, CallsStay
<1> QED BY <1>3, <1>5, <1>6, OwnStep

\* Steps in which a session drops entries and their callers fail.
LEMMA OwnFail ==
  ASSUME WebSocketHost, OwnInv, NEW s \in Sessions,
         Cleanup(s) \/ \E i \in Pending(s) : ForwarderTimeout(s, i)
  PROVE  OwnInv'
<1>1. Shape BY DEF OwnInv
<1>2. DOMAIN sess[s] = SessFields /\ sess[s].next \in Nat BY <1>1 DEF Shape
<1>3. DOMAIN sess = Sessions BY <1>1 DEF Shape
<1>4. Forgets(s)
  <2>1. CASE Cleanup(s) BY <1>2, <1>3, <2>1 DEF Cleanup, Forgets, SessFields
  <2>2. CASE \E i \in Pending(s) : ForwarderTimeout(s, i)
    BY <1>2, <1>3, <2>2 DEF ForwarderTimeout, Forgets, SessFields, Without
  <2> QED BY <2>1, <2>2
<1>5. DOMAIN sess' = Sessions /\ \A t \in Sessions : Shrinks(t) BY <1>1, <1>4, OneSession
<1>6. DOMAIN call' = Calls /\ \A c \in Calls : SameCall(c)
  BY <1>1, CallsResolve DEF Cleanup, ForwarderTimeout
<1>7. route' \in [Partitions -> 0 .. MaxSessions]
  <2>1. CASE Cleanup(s) BY <2>1 DEF Cleanup, WebSocketHost
  <2>2. CASE \E i \in Pending(s) : ForwarderTimeout(s, i)
    BY <1>1, <2>2 DEF ForwarderTimeout, Shape
  <2> QED BY <2>1, <2>2
<1> QED BY <1>5, <1>6, <1>7, OwnStep

\* The answer to a batch reaches the caller whose entry has its id.
LEMMA OwnAnswer ==
  ASSUME WebSocketHost, OwnInv, NEW s \in Sessions, ReadAnswer(s)
  PROVE  OwnInv'
<1>1. Shape /\ Messages BY DEF OwnInv
<1>2. DOMAIN sess[s] = SessFields /\ sess[s].next \in Nat BY <1>1 DEF Shape
<1>3. PICK r \in sess[s].ans :
        /\ sess' = [sess EXCEPT ![s].ans = @ \ {r}, ![s].pending = Without(@, r.id)]
        /\ IF r.id \in Pending(s)
           THEN LET c == sess[s].pending[r.id] IN
                call' = IF call[c].pc \in {"sending", "waiting"}
                        THEN [call EXCEPT ![c].pc = "ok", ![c].got = {r.of}] ELSE call
           ELSE UNCHANGED call
        /\ route' = route
  BY DEF ReadAnswer
<1>4. Forgets(s) BY <1>1, <1>2, <1>3 DEF Forgets, SessFields, Without, Shape
<1>5. DOMAIN sess' = Sessions /\ \A t \in Sessions : Shrinks(t) BY <1>1, <1>4, OneSession
<1>6. CASE call' = call
  BY <1>1, <1>3, <1>5, <1>6, CallsStay, OwnStep DEF Shape
<1>7. CASE r.id \in Pending(s) /\ call' = [call EXCEPT ![r.of].pc = "ok", ![r.of].got = {r.of}]
  <2>1. DOMAIN call' = Calls BY <1>1, <1>7 DEF Shape
  <2>2. ASSUME NEW c \in Calls PROVE SameCall(c)
    <3>1. DOMAIN call[c] = CallFields BY <1>1 DEF Shape
    <3>2. CASE c = r.of
      <4>1. call'[c] = [call[c] EXCEPT !.pc = "ok", !.got = {c}] BY <1>1, <1>7, <3>2 DEF Shape
      <4> QED BY <3>1, <4>1 DEF SameCall, CallFields, Underway, Parked
    <3>3. CASE c # r.of
      <4>1. call'[c] = call[c] BY <1>1, <1>7, <3>3 DEF Shape
      <4> QED BY <3>1, <4>1 DEF SameCall
    <3> QED BY <3>2, <3>3
  <2> QED BY <1>1, <1>3, <1>5, <2>1, <2>2, OwnStep DEF Shape
<1>8. r.id \in Pending(s) => sess[s].pending[r.id] = r.of BY <1>1 DEF Messages, Own
<1> QED BY <1>3, <1>6, <1>7, <1>8

\* A stashed batch is submitted under a new id.
LEMMA OwnResubmit ==
  ASSUME WebSocketHost, OwnInv, NEW s \in Sessions, NEW p \in Partitions, Resubmit(s, p)
  PROVE  OwnInv'
<1>1. Shape /\ Messages BY DEF OwnInv
<1>2. DOMAIN sess[s] = SessFields /\ sess[s].next \in Nat BY <1>1 DEF Shape
<1> DEFINE b == Head(sess[s].todo[p])
           id == sess[s].next
           T == Tail(sess[s].todo[p])
           S == [sess[s] EXCEPT !.todo[p] = T, !.next = id + 1]
<1>3. /\ DOMAIN S = SessFields /\ S.next = id + 1 /\ S.pending = sess[s].pending
      /\ S.req = sess[s].req /\ S.ans = sess[s].ans
  <2> HIDE DEF T
  <2> QED BY <1>2 DEF SessFields
<1>4. route' = route /\ route \in [Partitions -> 0 .. MaxSessions] BY <1>1 DEF Resubmit, Shape
<1>5. CASE sess' = [sess EXCEPT ![s] = S] /\ Resolve({b.of}, "err")
  <2> HIDE DEF S
  <2>0. Forgets(s) BY <1>1, <1>2, <1>3, <1>5 DEF Forgets, Shape
  <2>1. DOMAIN sess' = Sessions /\ \A t \in Sessions : Shrinks(t) BY <1>1, <2>0, OneSession
  <2>2. DOMAIN call' = Calls /\ \A c \in Calls : SameCall(c) BY <1>1, <1>5, CallsResolve
  <2> QED BY <1>4, <2>1, <2>2, OwnStep
<1>6. CASE /\ sess' = [sess EXCEPT ![s] =
               [S EXCEPT !.pending = With(@, id, b.of),
                         !.req = IF sess[s].conn = "up"
                                 THEN @ \cup {[id |-> id, of |-> b.of]} ELSE @]]
           /\ UNCHANGED call
  <2> DEFINE m == IF sess[s].conn = "up" THEN sess[s].req \cup {[id |-> id, of |-> b.of]} ELSE sess[s].req
             U == [S EXCEPT !.pending = With(sess[s].pending, id, b.of), !.req = m]
  <2>1. sess' = [sess EXCEPT ![s] = U]
    <3> HIDE DEF S
    <3> QED BY <1>3, <1>6
  <2>2. m \subseteq sess[s].req \cup {[id |-> id, of |-> b.of]} OBVIOUS
  <2>3. /\ DOMAIN U = SessFields /\ U.next = id + 1 /\ U.pending = With(sess[s].pending, id, b.of)
        /\ U.req = m /\ U.ans = sess[s].ans
    <3> HIDE DEF S, m
    <3> QED BY <1>3 DEF SessFields
  <2> HIDE DEF U, m, S
  <2>4. DOMAIN sess' = Sessions /\ sess'[s] = U /\ \A t \in Sessions \ {s} : sess'[t] = sess[t]
    BY <1>1, <2>1 DEF Shape
  <2>5. Grows(s, b.of) BY <2>2, <2>3, <2>4 DEF Grows, Pending, With
  <2>6. \A t \in Sessions \ {s} : Shrinks(t) BY <1>1, <2>4 DEF Shrinks, Pending, Shape
  <2>7. DOMAIN call' = Calls /\ \A c \in Calls : SameCall(c) BY <1>1, <1>6, CallsStay
  <2> QED BY <1>4, <2>4, <2>5, <2>6, <2>7, OwnStep
<1> QED BY <1>5, <1>6 DEF Resubmit

\* The calls' own steps: the look-up, an id, the request, the timer.
LEMMA OwnCall ==
  ASSUME WebSocketHost, OwnInv, NEW c \in Calls,
         Lookup(c) \/ StartBatch(c) \/ SendRequest(c) \/ CallTimeout(c)
  PROVE  OwnInv'
<1>1. Shape /\ Messages /\ Callers /\ AnswerIsOwn BY DEF OwnInv
<1>2. DOMAIN call[c] = CallFields /\ \A d \in Calls : DOMAIN call[d] = CallFields
  BY <1>1 DEF Shape
<1>3. CASE Lookup(c)
  <2>1. sess' = sess /\ route' = route BY <1>3 DEF Lookup
  <2>2. DOMAIN sess' = Sessions /\ \A s \in Sessions : Shrinks(s) BY <1>1, <2>1, SessionsStay
  <2> DEFINE x == route[PartOf[c]]
             e == [call[c] EXCEPT !.pc = "err"]
             r == [call[c] EXCEPT !.pc = "routed", !.sess = x, !.link = x]
  <2>3. \/ call' = [call EXCEPT ![c] = e]
        \/ call' = [call EXCEPT ![c] = r] /\ x # 0
    <3>1. T3 = FALSE BY DEF WebSocketHost
    <3>2. call' = [call EXCEPT ![c] =
             IF x = 0 \/ sess[x].pc = "gone" \/ (T3 /\ stream[PartOf[c]] = 0)
             THEN e ELSE [call[c] EXCEPT !.pc = "routed", !.sess = x,
                            !.link = IF T3 THEN stream[PartOf[c]] ELSE x]]
      BY <1>3 DEF Lookup
    <3> HIDE DEF x
    <3> QED BY <3>1, <3>2
  <2>4. x \in 0 .. MaxSessions BY <1>1 DEF Shape, WebSocketHost
  <2>5. /\ DOMAIN e = CallFields /\ e.pc = "err" /\ e.got = call[c].got
        /\ DOMAIN r = CallFields /\ r.pc = "routed" /\ r.sess = x /\ r.link = x /\ r.got = call[c].got
    <3> HIDE DEF x
    <3> QED BY <1>2 DEF CallFields
  <2> HIDE DEF e, r
  <2>6. /\ DOMAIN call' = Calls /\ call'[c] \in {e, r} /\ (call'[c] = r => x # 0 \/ r = e)
        /\ \A d \in Calls \ {c} : call'[d] = call[d]
    BY <1>1, <2>3 DEF Shape
  <2>7. Shape' BY <1>1, <1>2, <2>1, <2>5, <2>6 DEF Shape, Pending
  <2>8. Messages' BY <1>1, <2>1 DEF Messages, Own, Pending
  <2>9. Callers'
    <3>1. call'[c].pc = "routed" => call'[c].sess \in Sessions /\ call'[c].link = call'[c].sess
      BY <2>4, <2>5, <2>6 DEF Sessions, WebSocketHost
    <3>2. call'[c].pc \notin Parked BY <2>5, <2>6 DEF Parked
    <3> QED BY <1>1, <2>1, <2>6, <3>1, <3>2 DEF Callers, Own, Pending, Underway, Parked
  <2>10. AnswerIsOwn' BY <1>1, <2>5, <2>6 DEF AnswerIsOwn
  <2> QED BY <2>7, <2>8, <2>9, <2>10 DEF OwnInv
<1>4. CASE StartBatch(c)
  <2>0. PICK s : s = call[c].sess OBVIOUS
  <2> DEFINE n == 1 + Cardinality({d \in Calls : call[d].nr > 0})
             S == [sess[s] EXCEPT !.next = @ + 1, !.pending = With(@, sess[s].next, c)]
             k == [call[c] EXCEPT !.pc = "sending", !.id = sess[s].next, !.nr = n]
  <2>1. s \in Sessions /\ call[c].link = s /\ call[c].pc = "routed"
    BY <1>1, <1>4, <2>0 DEF Callers, StartBatch, Underway
  <2>2. sess' = [sess EXCEPT ![s] = S] /\ call' = [call EXCEPT ![c] = k] /\ route' = route
    <3>1. sess' = [sess EXCEPT ![s] = S] /\ route' = route BY <1>4, <2>0 DEF StartBatch
    <3>2. call' = [call EXCEPT ![c].pc = "sending", ![c].id = sess[s].next, ![c].nr = n]
      BY <1>4, <2>0 DEF StartBatch
    <3> HIDE DEF n
    <3>3. call' = [call EXCEPT ![c] = k] BY <3>2
    <3> QED BY <3>1, <3>3
  <2>3. DOMAIN sess[s] = SessFields /\ sess[s].next \in Nat BY <1>1, <2>1 DEF Shape
  <2>4. /\ DOMAIN S = SessFields /\ S.next = sess[s].next + 1
        /\ S.pending = With(sess[s].pending, sess[s].next, c)
        /\ S.req = sess[s].req /\ S.ans = sess[s].ans
    BY <2>3 DEF SessFields
  <2>5. /\ DOMAIN k = CallFields /\ k.pc = "sending" /\ k.id = sess[s].next
        /\ k.sess = s /\ k.link = s /\ k.got = call[c].got
    <3> HIDE DEF n
    <3> QED BY <1>2, <2>0, <2>1 DEF CallFields
  <2> HIDE DEF S, k, n
  <2>6. /\ DOMAIN sess' = Sessions /\ sess'[s] = S /\ \A t \in Sessions \ {s} : sess'[t] = sess[t]
        /\ DOMAIN call' = Calls /\ call'[c] = k /\ \A d \in Calls \ {c} : call'[d] = call[d]
    BY <1>1, <2>1, <2>2 DEF Shape
  <2>7. Grows(s, c) BY <2>1, <2>3, <2>4, <2>6 DEF Grows, Pending, With
  <2>8. \A t \in Sessions \ {s} : Shrinks(t) BY <1>1, <2>6 DEF Shrinks, Pending, Shape
  <2>9. \A t \in Sessions : /\ DOMAIN sess'[t] = SessFields /\ sess'[t].next \in Nat /\ Pending(t)' \subseteq Nat
                            /\ \A i \in Pending(t)' : i < sess'[t].next
                            /\ \A r \in sess'[t].req \cup sess'[t].ans : OwnAfter(t, r.id, r.of)
    BY <1>1, <2>7, <2>8, MessagesStay
  <2>10. Shape' BY <1>1, <1>2, <2>2, <2>5, <2>6, <2>9 DEF Shape
  <2>11. Messages' BY <2>9 DEF Messages, Own, OwnAfter, Pending
  <2>12. OwnAfter(s, sess[s].next, c) BY <2>3, <2>4, <2>6 DEF OwnAfter, With
  <2>13. ASSUME NEW d \in Calls, call'[d].pc \in Underway
         PROVE  /\ call'[d].sess \in Sessions /\ call'[d].link = call'[d].sess
                /\ call'[d].pc \in Parked => OwnAfter(call'[d].sess, call'[d].id, d)
    <3>1. CASE d = c BY <2>1, <2>5, <2>6, <2>12, <3>1
    <3>2. CASE d # c
      <4>1. call'[d] = call[d] BY <2>6, <3>2
      <4>2. /\ call[d].sess \in Sessions /\ call[d].link = call[d].sess
            /\ call[d].pc \in Parked => Own(call[d].sess, call[d].id, d)
        BY <1>1, <2>13, <4>1 DEF Callers
      <4> QED BY <1>1, <2>7, <2>8, <4>1, <4>2, OwnStays
    <3> QED BY <3>1, <3>2
  <2>14. Callers' BY <2>13 DEF Callers, Own, OwnAfter, Pending, Underway
  <2>15. AnswerIsOwn' BY <1>1, <2>5, <2>6 DEF AnswerIsOwn
  <2> QED BY <2>10, <2>11, <2>14, <2>15 DEF OwnInv
<1>5. CASE SendRequest(c)
  <2> DEFINE s == call[c].link
             m == [id |-> call[c].id, of |-> c]
             S == [sess[s] EXCEPT !.req = @ \cup {m}]
  <2>1. s \in Sessions /\ Own(s, call[c].id, c)
    BY <1>1, <1>5 DEF Callers, SendRequest, Underway, Parked
  <2>2. route' = route /\ (sess' = sess \/ sess' = [sess EXCEPT ![s] = S])
    BY <1>5 DEF SendRequest
  <2>3. DOMAIN sess[s] = SessFields BY <1>1, <2>1 DEF Shape
  <2>4. DOMAIN S = SessFields /\ S.next = sess[s].next /\ S.pending = sess[s].pending
        /\ S.req = sess[s].req \cup {m} /\ S.ans = sess[s].ans
    BY <2>3 DEF SessFields
  <2> HIDE DEF S
  <2>5. /\ DOMAIN sess' = Sessions
        /\ \A t \in Sessions : /\ DOMAIN sess'[t] = SessFields /\ sess'[t].next = sess[t].next
                               /\ sess'[t].pending = sess[t].pending
                               /\ sess'[t].ans = sess[t].ans
                               /\ \A r \in sess'[t].req : r \in sess[t].req \/ (t = s /\ r = m)
    BY <1>1, <2>1, <2>2, <2>4 DEF Shape
  <2>6. /\ DOMAIN call' = Calls
        /\ \A d \in Calls : /\ DOMAIN call'[d] = CallFields
                            /\ call'[d].got = call[d].got
                            /\ call'[d].sess = call[d].sess /\ call'[d].link = call[d].link
                            /\ call'[d].id = call[d].id
                            /\ d = c => call'[d].pc \in {"err", "waiting"}
                            /\ d # c => call'[d] = call[d]
    BY <1>1, <1>2, <1>5 DEF SendRequest, Shape, CallFields
  <2>7. Shape' BY <1>1, <2>2, <2>5, <2>6 DEF Shape, Pending
  <2>8. Messages'
    <3>1. \A t \in Sessions : \A i \in Pending(t)' : i < sess'[t].next
      BY <1>1, <2>5 DEF Messages, Pending
    <3>2. ASSUME NEW t \in Sessions, NEW r \in sess'[t].req \cup sess'[t].ans
          PROVE  Own(t, r.id, r.of)
      <4>1. CASE r \in sess[t].req \cup sess[t].ans BY <1>1, <4>1 DEF Messages
      <4>2. CASE t = s /\ r = m BY <2>1, <4>2
      <4> QED BY <2>5, <4>1, <4>2
    <3> QED BY <2>5, <3>1, <3>2 DEF Messages, Own, Pending
  <2>9. Callers'
    <3>1. call[c].pc \in Underway /\ call[c].pc \in Parked
      BY <1>5 DEF SendRequest, Underway, Parked
    <3>2. ASSUME NEW d \in Calls, call'[d].pc \in Underway
          PROVE  /\ call'[d].sess \in Sessions /\ call'[d].link = call'[d].sess
                 /\ call'[d].pc \in Parked => Own(call'[d].sess, call'[d].id, d)
      <4>1. call[d].pc \in Underway BY <2>6, <3>1, <3>2
      <4>2. call'[d].pc \in Parked => call[d].pc \in Parked BY <2>6, <3>1
      <4> QED BY <1>1, <2>6, <4>1, <4>2 DEF Callers
    <3>3. \A t \in Sessions : /\ sess'[t].next = sess[t].next
                             /\ sess'[t].pending = sess[t].pending
      BY <2>5
    <3> QED BY <3>2, <3>3 DEF Callers, Own, Pending, Underway, Parked
  <2>10. AnswerIsOwn' BY <1>1, <2>6 DEF AnswerIsOwn
  <2> QED BY <2>7, <2>8, <2>9, <2>10 DEF OwnInv
<1>6. CASE CallTimeout(c)
  <2>1. DOMAIN call' = Calls /\ \A d \in Calls : SameCall(d)
    BY <1>1, <1>2, <1>6 DEF CallTimeout, Shape, SameCall, CallFields, Underway, Parked
  <2>2. route' = route BY <1>6 DEF CallTimeout
  <2> DEFINE s == call[c].sess
             S == [sess[s] EXCEPT !.pending = Without(@, call[c].id)]
  <2>3. sess' = [sess EXCEPT ![s] = S] BY <1>6 DEF CallTimeout
  <2>4. DOMAIN sess' = Sessions /\ \A t \in Sessions : Shrinks(t)
    <3>1. CASE s \in Sessions
      <4>1. DOMAIN sess[s] = SessFields /\ sess[s].next \in Nat BY <1>1, <3>1 DEF Shape
      <4>2. Forgets(s)
        BY <1>1, <1>6, <3>1, <4>1 DEF CallTimeout, Forgets, SessFields, Without, Shape
      <4> QED BY <1>1, <3>1, <4>2, OneSession
    <3>2. CASE s \notin Sessions
      <4>1. DOMAIN sess' = Sessions /\ \A t \in Sessions : sess'[t] = sess[t]
        BY <1>1, <2>3, <3>2 DEF Shape
      <4> QED BY <1>1, <4>1 DEF Shrinks, Pending, Shape
    <3> QED BY <3>1, <3>2
  <2> QED BY <1>1, <2>1, <2>2, <2>4, OwnStep DEF Shape
<1> QED BY <1>3, <1>4, <1>5, <1>6

\* Buckets expire, the host drains, the identity is revoked.
LEMMA OwnHost ==
  ASSUME WebSocketHost, OwnInv, Drain \/ Revoke \/ \E p \in Partitions : Expire(p)
  PROVE  OwnInv'
<1>1. Shape BY DEF OwnInv
<1>2. route' = route /\ route \in [Partitions -> 0 .. MaxSessions]
  BY <1>1 DEF Drain, Revoke, Expire, Shape
<1>3. DOMAIN call' = Calls /\ \A d \in Calls : SameCall(d)
  <2>1. CASE Revoke BY <1>1, <2>1, CallsStay DEF Revoke
  <2>2. CASE Drain BY <1>1, <2>2, CallsResolve DEF Drain
  <2>3. ASSUME NEW p \in Partitions, Expire(p) PROVE DOMAIN call' = Calls /\ \A d \in Calls : SameCall(d)
    BY <1>1, <2>3, CallsResolve DEF Expire
  <2> QED BY <2>1, <2>2, <2>3
<1>4. DOMAIN sess' = Sessions /\ \A t \in Sessions : Shrinks(t)
  <2>1. CASE sess' = sess BY <1>1, <2>1, SessionsStay
  <2>2. CASE Drain
    <3>1. DOMAIN sess' = Sessions BY <2>2 DEF Drain
    <3>2. ASSUME NEW t \in Sessions PROVE Shrinks(t)
      <4>1. \/ sess'[t] = sess[t]
            \/ sess'[t] = [sess[t] EXCEPT !.closed = TRUE, !.pending = [i \in {} |-> 0]]
        BY <2>2 DEF Drain
      <4>2. DOMAIN sess[t] = SessFields /\ sess[t].next \in Nat BY <1>1 DEF Shape
      <4>3. CASE sess'[t] = sess[t] BY <4>2, <4>3 DEF Shrinks, Pending
      <4>4. CASE sess'[t] = [sess[t] EXCEPT !.closed = TRUE, !.pending = [i \in {} |-> 0]]
        <5>1. DOMAIN [i \in {} |-> 0] = {} OBVIOUS
        <5>2. /\ DOMAIN sess'[t] = SessFields /\ sess'[t].next = sess[t].next
              /\ sess'[t].pending = [i \in {} |-> 0]
              /\ sess'[t].req = sess[t].req /\ sess'[t].ans = sess[t].ans
          BY <4>2, <4>4 DEF SessFields
        <5> QED BY <4>2, <5>1, <5>2 DEF Shrinks, Pending
      <4> QED BY <4>1, <4>3, <4>4
    <3> QED BY <3>1, <3>2
  <2> QED BY <2>1, <2>2 DEF Revoke, Expire
<1> QED BY <1>2, <1>3, <1>4, OwnStep

\* Every step keeps the answers with their callers.
LEMMA OwnNext ==
  ASSUME WebSocketHost, OwnInv, [Next]_vars
  PROVE  OwnInv'
<1>1. CASE UNCHANGED vars
  BY <1>1 DEF vars, OwnInv, Shape, Messages, Callers, AnswerIsOwn, Own, Pending
<1>2. \A s \in Sessions, p \in Partitions : ~OpenStream(s, p) BY DEF OpenStream, WebSocketHost
<1>3. CASE \E s \in Sessions : \/ SessionStep(s) \/ Authorize(s) \/ HandshakeFails(s)
                               \/ Process(s) \/ Break(s)
                               \/ \E i \in Pending(s) : ForwarderTimeout(s, i)
  BY <1>3, OwnQuiet, OwnFail, OwnAnswer, OwnResubmit DEF SessionStep
<1>4. CASE \E c \in Calls : CallStep(c) \/ CallTimeout(c) BY <1>4, OwnCall DEF CallStep
<1>5. CASE Drain \/ Revoke \/ \E p \in Partitions : Expire(p) BY <1>5, OwnHost
<1> QED BY <1>1, <1>2, <1>3, <1>4, <1>5 DEF Next

---------------------------------------------------------------------------
(* Whoever waits is held by one entry, and the semaphore bounds them.        *)

Batches == [of : Calls, from : Sessions]

\* What the stash, the replays and the sessions hold.
Stores ==
  /\ bucket \in [Partitions -> Seq(Batches)]
  /\ \A s \in Sessions : /\ sess[s].todo \in [Partitions -> Seq(Batches)]
                         /\ \A i \in Pending(s) : sess[s].pending[i] \in Calls

\* Place 0 is the stash, the others the replays of the sessions.
Places == 0 .. MaxSessions
Queue(s, p) == IF s = 0 THEN bucket[p] ELSE sess[s].todo[p]

Entry(s, i, c) == i \in Pending(s) /\ sess[s].pending[i] = c
At(s, p, k, c) == k \in 1 .. Len(Queue(s, p)) /\ Queue(s, p)[k].of = c

\* A call has one entry, in one place, whether its caller still waits or not.
OneHolder(c) ==
  /\ \A s, t \in Sessions, i, j \in Nat : Entry(s, i, c) /\ Entry(t, j, c) => s = t /\ i = j
  /\ \A s, t \in Places, p, q \in Partitions, j, k \in Nat :
       At(s, p, j, c) /\ At(t, q, k, c) => s = t /\ p = q /\ j = k
  /\ \A s \in Sessions, i \in Nat, t \in Places, p \in Partitions, k \in Nat :
       ~(Entry(s, i, c) /\ At(t, p, k, c))

Held(c) ==
  \/ \E s \in Sessions, i \in Nat : Entry(s, i, c)
  \/ \E s \in Places, p \in Partitions, k \in Nat : At(s, p, k, c)

HoldInv ==
  \A c \in Calls : /\ OneHolder(c)
                   /\ call[c].pc \in {"new", "routed"} => ~Held(c)
                   /\ call[c].pc \in Parked => Held(c)

\* The permits of a session cover its entries and the stashed ones.
Bound(s) ==
  /\ IsFiniteSet(Pending(s)) /\ IsFiniteSet(Stashed(s))
  /\ Cardinality(Pending(s)) + Cardinality(Stashed(s)) <= Cap

HostInv == Stores /\ HoldInv /\ \A s \in Sessions : Bound(s)

\* b has a permit of s: it is stashed, or waits for its turn in a replay.
InStash(s, b) ==
  /\ b \in Batches /\ b.from = s
  /\ \/ \E p \in Partitions : \E k \in 1 .. Len(bucket[p]) : b = bucket[p][k]
     \/ \E t \in Sessions, p \in Partitions : \E k \in 2 .. Len(sess[t].todo[p]) : b = sess[t].todo[p][k]

\* The batches of session s in the buckets and in the hands of replays.
LEMMA StashedIs ==
  Stores => \A s \in Sessions : \A b : b \in Stashed(s) <=> InStash(s, b)
<1> SUFFICES ASSUME Stores, NEW s \in Sessions
             PROVE  \A b : b \in Stashed(s) <=> InStash(s, b)
  OBVIOUS
<1>1. \A q \in Seq(Batches) : ToSet(q) = {q[k] : k \in 1 .. Len(q)} BY DEF ToSet
<1>2. ASSUME NEW q \in Seq(Batches) PROVE ToSet(Rest(q)) = {q[k] : k \in 2 .. Len(q)}
  <2>1. CASE Len(q) < 2
    <3>1. Rest(q) = <<>> BY <2>1 DEF Rest
    <3> QED BY <2>1, <3>1 DEF ToSet
  <2>2. CASE Len(q) >= 2
    <3>1. Len(Rest(q)) = Len(q) - 1 /\ \A k \in 1 .. Len(q) - 1 : Rest(q)[k] = q[k + 1]
      BY <2>2 DEF Rest
    <3>2. Rest(q) \in Seq(Batches) BY <2>2 DEF Rest
    <3>3. ToSet(Rest(q)) = {Rest(q)[k] : k \in 1 .. Len(q) - 1} BY <1>1, <3>1, <3>2
    <3>4. \A k \in 2 .. Len(q) : k - 1 \in 1 .. Len(q) - 1 /\ Rest(q)[k - 1] = q[k] BY <3>1
    <3>5. \A k \in 1 .. Len(q) - 1 : k + 1 \in 2 .. Len(q) /\ Rest(q)[k] = q[k + 1] BY <3>1
    <3>6. ASSUME NEW x \in ToSet(Rest(q)) PROVE \E k \in 2 .. Len(q) : x = q[k]
      <4>1. PICK k \in 1 .. Len(q) - 1 : x = Rest(q)[k] BY <3>3
      <4> QED BY <3>5, <4>1
    <3>7. ASSUME NEW k \in 2 .. Len(q) PROVE q[k] \in ToSet(Rest(q))
      <4>1. k - 1 \in 1 .. Len(q) - 1 /\ q[k] = Rest(q)[k - 1] BY <3>4
      <4> QED BY <3>3, <4>1
    <3> QED BY <3>6, <3>7
  <2> QED BY <2>1, <2>2
<1>3. \A p \in Partitions : bucket[p] \in Seq(Batches) BY DEF Stores
<1>4. \A t \in Sessions, p \in Partitions : sess[t].todo[p] \in Seq(Batches) BY DEF Stores
<1> DEFINE A == {ToSet(bucket[p]) : p \in Partitions}
           B == {ToSet(Rest(sess[t].todo[p])) : t \in Sessions, p \in Partitions}
<1>5. ASSUME NEW b
      PROVE  b \in UNION A <=> \E p \in Partitions : \E k \in 1 .. Len(bucket[p]) : b = bucket[p][k]
  <2>1. \A p \in Partitions : ToSet(bucket[p]) = {bucket[p][k] : k \in 1 .. Len(bucket[p])}
    BY <1>1, <1>3
  <2>2. ASSUME b \in UNION A PROVE \E p \in Partitions : \E k \in 1 .. Len(bucket[p]) : b = bucket[p][k]
    <3>1. PICK p \in Partitions : b \in ToSet(bucket[p]) BY <2>2
    <3>2. \E k \in 1 .. Len(bucket[p]) : b = bucket[p][k] BY <2>1, <3>1
    <3> QED BY <3>2
  <2>3. ASSUME NEW p \in Partitions, NEW k \in 1 .. Len(bucket[p]), b = bucket[p][k] PROVE b \in UNION A
    <3>1. b \in ToSet(bucket[p]) BY <2>1, <2>3
    <3> QED BY <3>1
  <2> QED BY <2>2, <2>3
<1>6. ASSUME NEW b
      PROVE  b \in UNION B <=> \E t \in Sessions, p \in Partitions :
                                 \E k \in 2 .. Len(sess[t].todo[p]) : b = sess[t].todo[p][k]
  <2>1. \A t \in Sessions, p \in Partitions :
          ToSet(Rest(sess[t].todo[p])) = {sess[t].todo[p][k] : k \in 2 .. Len(sess[t].todo[p])}
    BY <1>2, <1>4
  <2>2. ASSUME b \in UNION B
        PROVE  \E t \in Sessions, p \in Partitions :
                 \E k \in 2 .. Len(sess[t].todo[p]) : b = sess[t].todo[p][k]
    <3>1. PICK t \in Sessions, p \in Partitions : b \in ToSet(Rest(sess[t].todo[p])) BY <2>2
    <3>2. \E k \in 2 .. Len(sess[t].todo[p]) : b = sess[t].todo[p][k] BY <2>1, <3>1
    <3> QED BY <3>2
  <2>3. ASSUME NEW t \in Sessions, NEW p \in Partitions, NEW k \in 2 .. Len(sess[t].todo[p]),
               b = sess[t].todo[p][k]
        PROVE  b \in UNION B
    <3>1. b \in ToSet(Rest(sess[t].todo[p])) BY <2>1, <2>3
    <3> QED BY <3>1
  <2> QED BY <2>2, <2>3
<1>7. \A b : b \in UNION (A \cup B) <=> b \in UNION A \/ b \in UNION B OBVIOUS
<1>10. Stashed(s) = {b \in UNION (A \cup B) : b.from = s} BY DEF Stashed
<1> HIDE DEF A, B
<1>8. \A b \in UNION A : b \in Batches BY <1>3, <1>5
<1>9. \A b \in UNION B : b \in Batches
  <2> SUFFICES ASSUME NEW b \in UNION B PROVE b \in Batches OBVIOUS
  <2>1. PICK t \in Sessions, p \in Partitions : \E k \in 2 .. Len(sess[t].todo[p]) : b = sess[t].todo[p][k]
    BY <1>6
  <2>2. PICK k \in 2 .. Len(sess[t].todo[p]) : b = sess[t].todo[p][k] BY <2>1
  <2>3. sess[t].todo[p] \in Seq(Batches) /\ k \in 1 .. Len(sess[t].todo[p]) BY <1>4
  <2> QED BY <2>2, <2>3
<1> SUFFICES ASSUME NEW b PROVE b \in Stashed(s) <=> InStash(s, b)
  OBVIOUS
<1>11. b \in Stashed(s) <=> (b \in UNION A \/ b \in UNION B) /\ b.from = s
  BY <1>7, <1>10
<1>12. InStash(s, b) <=> b \in Batches /\ b.from = s /\ (b \in UNION A \/ b \in UNION B)
  <2>1. b \in UNION A <=> \E p \in Partitions : \E k \in 1 .. Len(bucket[p]) : b = bucket[p][k]
    BY <1>5
  <2>2. b \in UNION B <=> \E t \in Sessions, p \in Partitions :
                            \E k \in 2 .. Len(sess[t].todo[p]) : b = sess[t].todo[p][k]
    BY <1>6
  <2> HIDE DEF Stores
  <2> QED BY <2>1, <2>2 DEF InStash
<1> QED BY <1>8, <1>9, <1>11, <1>12

\* The same, after the step.
LEMMA StashedPrime ==
  Stores' => \A s \in Sessions : \A b : b \in Stashed(s)' <=> InStash(s, b)'
<1>1. (Stores => \A s \in Sessions : \A b : b \in Stashed(s) <=> InStash(s, b))'
  BY StashedIs, PTL
<1> QED BY <1>1

\* Callers that wait after a step waited before it.
CallsKeep ==
  \A c \in Calls : /\ call'[c].pc \in Parked => call[c].pc \in Parked
                   /\ call'[c].pc \in {"new", "routed"} => call[c].pc \in {"new", "routed"}

\* Entries and stashed batches go, with the callers they were for.
Drops ==
  /\ \A t \in Sessions : /\ sess'[t].todo = sess[t].todo
                         /\ Pending(t)' \subseteq Pending(t)
                         /\ \A i \in Pending(t)' : sess'[t].pending[i] = sess[t].pending[i]
  /\ \A t \in Sessions : \A i \in Pending(t) \ Pending(t)' : call'[sess[t].pending[i]].pc \notin Parked
  /\ bucket' \in [Partitions -> Seq(Batches)]
  /\ \A p \in Partitions : \/ bucket'[p] = bucket[p]
                           \/ /\ bucket'[p] = <<>>
                              /\ \A k \in 1 .. Len(bucket[p]) : call'[bucket[p][k].of].pc \notin Parked
  /\ CallsKeep

\* With fewer entries and fewer stashed batches the bound still holds.
LEMMA BoundFewer ==
  ASSUME Cap \in Nat, NEW s, Bound(s), Pending(s)' \subseteq Pending(s), Stashed(s)' \subseteq Stashed(s)
  PROVE  Bound(s)'
<1>1. IsFiniteSet(Pending(s)') /\ Cardinality(Pending(s)') <= Cardinality(Pending(s))
  BY FS_Subset DEF Bound
<1>2. IsFiniteSet(Stashed(s)') /\ Cardinality(Stashed(s)') <= Cardinality(Stashed(s))
  BY FS_Subset DEF Bound
<1>3. /\ Cardinality(Pending(s)) \in Nat /\ Cardinality(Stashed(s)) \in Nat
      /\ Cardinality(Pending(s)') \in Nat /\ Cardinality(Stashed(s)') \in Nat
  BY <1>1, <1>2, FS_CardinalityType DEF Bound
<1>4. Cardinality(Pending(s)') + Cardinality(Stashed(s)') <= Cap
  BY <1>1, <1>2, <1>3 DEF Bound
<1> QED BY <1>1, <1>2, <1>4 DEF Bound

\* The callers of what is gone no longer wait, and the others keep their entry.
LEMMA HoldFewer ==
  ASSUME HoldInv, CallsKeep,
         \A s \in Sessions, i \in Nat, c \in Calls : Entry(s, i, c)' => Entry(s, i, c),
         \A s \in Places, p \in Partitions, k \in Nat, c \in Calls : At(s, p, k, c)' => At(s, p, k, c),
         \A s \in Sessions, i \in Nat, c \in Calls :
           Entry(s, i, c) /\ call'[c].pc \in Parked => Entry(s, i, c)',
         \A s \in Places, p \in Partitions, k \in Nat, c \in Calls :
           At(s, p, k, c) /\ call'[c].pc \in Parked => At(s, p, k, c)'
  PROVE  HoldInv'
<1> SUFFICES ASSUME NEW c \in Calls
             PROVE  /\ OneHolder(c)'
                    /\ call'[c].pc \in {"new", "routed"} => ~Held(c)'
                    /\ call'[c].pc \in Parked => Held(c)'
  BY DEF HoldInv, Parked
<1>1. OneHolder(c) /\ (call[c].pc \in {"new", "routed"} => ~Held(c)) /\ (call[c].pc \in Parked => Held(c))
  BY DEF HoldInv
<1>2. OneHolder(c)' BY <1>1 DEF OneHolder, Sessions, Places
<1>3. call'[c].pc \in {"new", "routed"} => ~Held(c)'
  BY <1>1 DEF CallsKeep, Held, Sessions, Places
<1>4. call'[c].pc \in Parked => Held(c)' BY <1>1 DEF CallsKeep, Held, Sessions, Places
<1> QED BY <1>2, <1>3, <1>4

\* Steps that only drop entries or stashed batches, whose callers end.
LEMMA HostDrops ==
  ASSUME WebSocketHost, Shape, HostInv, Drops
  PROVE  HostInv'
<1>1. Stores' BY DEF Drops, HostInv, Stores
<1>2. \A s \in Sessions : Bound(s)'
  <2>1. ASSUME NEW s \in Sessions PROVE Stashed(s)' \subseteq Stashed(s)
    <3>1. ASSUME NEW b, InStash(s, b)' PROVE InStash(s, b)
      <4>1. ASSUME NEW p \in Partitions, NEW k \in 1 .. Len(bucket'[p]), b = bucket'[p][k]
            PROVE  k \in 1 .. Len(bucket[p]) /\ b = bucket[p][k]
        BY <4>1 DEF Drops
      <4>2. \A t \in Sessions : sess'[t].todo = sess[t].todo BY DEF Drops
      <4> QED BY <3>1, <4>1, <4>2 DEF InStash
    <3>2. \A b : b \in Stashed(s)' <=> InStash(s, b)' BY <1>1, StashedPrime
    <3> QED BY <3>1, <3>2, StashedIs DEF HostInv
  <2> QED BY <2>1, BoundFewer DEF Drops, HostInv, WebSocketHost
<1>3. HoldInv'
  <2>1. \A s \in Sessions, i \in Nat, c \in Calls : Entry(s, i, c)' => Entry(s, i, c)
    BY DEF Entry, Drops, Pending
  <2>2. \A s \in Sessions, i \in Nat, c \in Calls : Entry(s, i, c) /\ call'[c].pc \in Parked => Entry(s, i, c)'
    BY DEF Entry, Drops, Pending
  <2>3. \A s \in Places, p \in Partitions, k \in Nat, c \in Calls : At(s, p, k, c)' => At(s, p, k, c)
    <3>1. ASSUME NEW s \in Places, NEW p \in Partitions
          PROVE  Queue(s, p)' = Queue(s, p) \/ Queue(s, p)' = <<>>
      BY DEF Queue, Drops, Sessions, Places, WebSocketHost
    <3> QED BY <3>1 DEF At
  <2>4. \A s \in Places, p \in Partitions, k \in Nat, c \in Calls :
          At(s, p, k, c) /\ call'[c].pc \in Parked => At(s, p, k, c)'
    <3>1. ASSUME NEW s \in Places, NEW p \in Partitions
          PROVE  \/ Queue(s, p)' = Queue(s, p)
                 \/ \A k \in 1 .. Len(Queue(s, p)) : call'[Queue(s, p)[k].of].pc \notin Parked
      BY DEF Queue, Drops, Sessions, Places, WebSocketHost
    <3> QED BY <3>1 DEF At
  <2> QED BY <2>1, <2>2, <2>3, <2>4, HoldFewer DEF Drops, HostInv
<1> QED BY <1>1, <1>2, <1>3 DEF HostInv

\* What the sessions hold does not change.
SameEntries ==
  \A t \in Sessions : sess'[t].todo = sess[t].todo /\ sess'[t].pending = sess[t].pending

\* Steps that touch no entry and no stashed batch are among them.
LEMMA SameDrops ==
  ASSUME HostInv, SameEntries, bucket' = bucket, CallsKeep
  PROVE  Drops
  BY DEF HostInv, Stores, SameEntries, Drops, Pending

\* Only session s changes, and it drops entries.
DropsAt(s) ==
  /\ \A t \in Sessions \ {s} : sess'[t] = sess[t]
  /\ sess'[s].todo = sess[s].todo
  /\ DOMAIN sess'[s].pending \subseteq DOMAIN sess[s].pending
  /\ \A i \in DOMAIN sess'[s].pending : sess'[s].pending[i] = sess[s].pending[i]

\* So are steps in which one session drops entries.
LEMMA DropsOne ==
  ASSUME HostInv, NEW s \in Sessions, DropsAt(s), bucket' = bucket, CallsKeep,
         \A i \in Pending(s) : i \notin DOMAIN sess'[s].pending => call'[sess[s].pending[i]].pc \notin Parked
  PROVE  Drops
<1>1. bucket' \in [Partitions -> Seq(Batches)] BY DEF HostInv, Stores
<1>2. \A t \in Sessions : /\ sess'[t].todo = sess[t].todo
                          /\ Pending(t)' \subseteq Pending(t)
                          /\ \A i \in Pending(t)' : sess'[t].pending[i] = sess[t].pending[i]
  BY DEF DropsAt, Pending
<1>3. \A t \in Sessions : \A i \in Pending(t) \ Pending(t)' : call'[sess[t].pending[i]].pc \notin Parked
  BY DEF DropsAt, Pending
<1> QED BY <1>1, <1>2, <1>3 DEF Drops

\* Resolving calls moves no other call.
LEMMA ResolveKeeps ==
  ASSUME Shape, NEW C, NEW pc \in {"ok", "err"}, Resolve(C, pc)
  PROVE  CallsKeep /\ \A c \in C \cap Calls : call'[c].pc \notin Parked
<1>1. ASSUME NEW c \in Calls
      PROVE  \/ call'[c] = call[c] /\ (c \notin C \/ call[c].pc \notin Parked)
             \/ call'[c].pc = pc
  BY DEF Resolve, Shape, CallFields, Parked
<1> QED BY <1>1 DEF CallsKeep, Parked

\* The connection's steps, up to the read loop's end.
LEMMA HostQuiet ==
  ASSUME WebSocketHost, OwnInv, HostInv, NEW s \in Sessions,
         Authorize(s) \/ Accept(s) \/ HandshakeFails(s) \/ StartReading(s) \/ Process(s)
           \/ Break(s) \/ PumpEnds(s)
  PROVE  HostInv'
<1>1. Shape BY DEF OwnInv
<1>2. call' = call /\ bucket' = bucket
  BY DEF Authorize, Accept, HandshakeFails, StartReading, Process, Break, PumpEnds
<1>3. CallsKeep BY <1>2 DEF CallsKeep
<1>4. DOMAIN sess = Sessions /\ DOMAIN sess[s] = SessFields BY <1>1 DEF Shape
<1>5. SameEntries
  <2> USE <1>4 DEF SameEntries, SessFields
  <2>1. CASE Authorize(s) \/ HandshakeFails(s) \/ StartReading(s) \/ PumpEnds(s)
    BY <2>1 DEF Authorize, HandshakeFails, StartReading, PumpEnds
  <2>2. CASE Accept(s) BY <2>2 DEF Accept
  <2>3. CASE Process(s)
    <3>1. PICK r \in sess[s].req : sess' = [sess EXCEPT ![s].req = @ \ {r}, ![s].ans = @ \cup {r}]
      BY <2>3 DEF Process
    <3> QED BY <3>1
  <2>4. CASE Break(s) BY <2>4 DEF Break
  <2> QED BY <2>1, <2>2, <2>3, <2>4
<1> QED BY <1>1, <1>2, <1>3, <1>5, SameDrops, HostDrops

\* The session ends, a forwarder gives up, an answer arrives.
LEMMA HostResolves ==
  ASSUME WebSocketHost, OwnInv, HostInv, NEW s \in Sessions,
         Cleanup(s) \/ ReadAnswer(s) \/ \E i \in Pending(s) : ForwarderTimeout(s, i)
  PROVE  HostInv'
<1>1. Shape /\ Stores BY DEF OwnInv, HostInv
<1>2. DOMAIN sess = Sessions /\ DOMAIN sess[s] = SessFields BY <1>1 DEF Shape
<1>3. bucket' = bucket BY DEF Cleanup, ReadAnswer, ForwarderTimeout
<1>4. \A i \in Pending(s) : sess[s].pending[i] \in Calls BY <1>1 DEF Stores
<1>5. CASE Cleanup(s)
  <2>1. DropsAt(s)
    <3>1. DOMAIN [i \in {} |-> 0] = {} OBVIOUS
    <3>2. sess' = [sess EXCEPT ![s].pc = "gone", ![s].closed = TRUE, ![s].pending = [i \in {} |-> 0]]
      BY <1>5 DEF Cleanup
    <3> QED BY <1>2, <3>1, <3>2 DEF DropsAt, SessFields
  <2>2. CallsKeep /\ \A i \in Pending(s) : call'[sess[s].pending[i]].pc \notin Parked
    BY <1>1, <1>4, <1>5, ResolveKeeps DEF Cleanup
  <2> QED BY <1>1, <1>3, <2>1, <2>2, DropsOne, HostDrops
<1>6. ASSUME NEW i \in Pending(s), ForwarderTimeout(s, i) PROVE HostInv'
  <2>1. DropsAt(s) /\ \A j \in Pending(s) : j \notin DOMAIN sess'[s].pending => j = i
    BY <1>2, <1>6 DEF ForwarderTimeout, DropsAt, SessFields, Without, Pending
  <2>2. CallsKeep /\ call'[sess[s].pending[i]].pc \notin Parked
    BY <1>1, <1>4, <1>6, ResolveKeeps DEF ForwarderTimeout
  <2> QED BY <1>1, <1>3, <2>1, <2>2, DropsOne, HostDrops
<1>7. CASE ReadAnswer(s)
  <2>1. PICK r \in sess[s].ans :
          /\ sess' = [sess EXCEPT ![s].ans = @ \ {r}, ![s].pending = Without(@, r.id)]
          /\ IF r.id \in Pending(s)
             THEN LET c == sess[s].pending[r.id] IN
                  call' = IF call[c].pc \in {"sending", "waiting"}
                          THEN [call EXCEPT ![c].pc = "ok", ![c].got = {r.of}] ELSE call
             ELSE UNCHANGED call
    BY <1>7 DEF ReadAnswer
  <2>2. DropsAt(s) /\ \A j \in Pending(s) : j \notin DOMAIN sess'[s].pending => j = r.id
    BY <1>2, <2>1 DEF DropsAt, SessFields, Without, Pending
  <2>3. CASE r.id \notin Pending(s)
    <3>1. call' = call BY <2>1, <2>3
    <3> QED BY <1>1, <1>3, <2>2, <2>3, <3>1, DropsOne, HostDrops DEF CallsKeep
  <2>4. CASE r.id \in Pending(s)
    <3>1. PICK c \in Calls : c = sess[s].pending[r.id] BY <1>4, <2>4
    <3>2. call' = IF call[c].pc \in {"sending", "waiting"}
                  THEN [call EXCEPT ![c].pc = "ok", ![c].got = {r.of}] ELSE call
      BY <2>1, <2>4, <3>1
    <3>3. \A d \in Calls : call'[d] = call[d] \/ (d = c /\ call'[d].pc = "ok")
      BY <1>1, <3>2 DEF Shape, CallFields
    <3>4. call'[c].pc \notin Parked BY <1>1, <3>2 DEF Shape, CallFields, Parked
    <3>5. CallsKeep BY <3>3 DEF CallsKeep, Parked
    <3> QED BY <1>1, <1>3, <2>2, <3>1, <3>4, <3>5, DropsOne, HostDrops
  <2> QED BY <2>3, <2>4
<1> QED BY <1>5, <1>6, <1>7

\* The calls' own steps that enter nothing.
LEMMA HostCall ==
  ASSUME WebSocketHost, OwnInv, HostInv, NEW c \in Calls, Lookup(c) \/ SendRequest(c) \/ CallTimeout(c)
  PROVE  HostInv'
<1>1. Shape /\ Stores /\ Callers BY DEF OwnInv, HostInv
<1>2. bucket' = bucket BY DEF Lookup, SendRequest, CallTimeout
<1>3. \A d \in Calls \ {c} : call'[d] = call[d]
  BY <1>1 DEF Lookup, SendRequest, CallTimeout, Shape
<1>4. DOMAIN call = Calls /\ DOMAIN call[c] = CallFields BY <1>1 DEF Shape
<1>5. CASE Lookup(c)
  <2>1. call[c].pc = "new" BY <1>5 DEF Lookup
  <2>2. call'[c].pc \in {"err", "routed"}
    <3>1. PICK r : r = route[PartOf[c]] OBVIOUS
    <3>2. PICK l : l = IF T3 THEN stream[PartOf[c]] ELSE route[PartOf[c]] OBVIOUS
    <3>3. call' = [call EXCEPT ![c] = [call[c] EXCEPT !.pc = "err"]]
           \/ call' = [call EXCEPT ![c] = [call[c] EXCEPT !.pc = "routed", !.sess = r, !.link = l]]
      BY <1>5, <3>1, <3>2 DEF Lookup
    <3> QED BY <1>4, <3>3 DEF CallFields
  <2>3. CallsKeep BY <1>3, <2>1, <2>2 DEF CallsKeep, Parked
  <2>4. SameEntries BY <1>5 DEF Lookup, SameEntries
  <2> QED BY <1>1, <1>2, <2>3, <2>4, SameDrops, HostDrops
<1>6. CASE SendRequest(c)
  <2>1. call[c].pc = "sending" /\ call'[c].pc \in {"err", "waiting"}
    BY <1>4, <1>6 DEF SendRequest, CallFields
  <2>2. CallsKeep BY <1>3, <2>1 DEF CallsKeep, Parked
  <2>3. PICK l \in Sessions : l = call[c].link
    BY <1>1, <2>1 DEF Callers, Underway, Parked
  <2>4. PICK m : m = [id |-> call[c].id, of |-> c] OBVIOUS
  <2>5. sess' = sess \/ sess' = [sess EXCEPT ![l].req = @ \cup {m}]
    BY <1>6, <2>3, <2>4 DEF SendRequest
  <2>6. SameEntries BY <1>1, <2>5 DEF SameEntries, Shape, SessFields
  <2> QED BY <1>1, <1>2, <2>2, <2>6, SameDrops, HostDrops
<1>7. CASE CallTimeout(c)
  <2>1. call[c].pc = "waiting" /\ call'[c].pc = "err" BY <1>4, <1>7 DEF CallTimeout, CallFields
  <2>2. CallsKeep BY <1>3, <2>1 DEF CallsKeep, Parked
  <2>3. PICK s \in Sessions : s = call[c].sess
    BY <1>1, <2>1 DEF Callers, Underway, Parked
  <2>4. PICK i : i = call[c].id OBVIOUS
  <2>5. i \in Pending(s) => sess[s].pending[i] = c
    BY <1>1, <2>1, <2>3, <2>4 DEF Callers, Parked, Own
  <2>6. sess' = [sess EXCEPT ![s].pending = Without(@, i)] BY <1>7, <2>3, <2>4 DEF CallTimeout
  <2>7. DOMAIN sess = Sessions /\ DOMAIN sess[s] = SessFields BY <1>1 DEF Shape
  <2>8. DropsAt(s) /\ \A j \in Pending(s) : j \notin DOMAIN sess'[s].pending => j = i
    BY <2>6, <2>7 DEF DropsAt, SessFields, Without, Pending
  <2> QED BY <1>1, <1>2, <2>1, <2>2, <2>5, <2>8, DropsOne, HostDrops DEF Parked
<1> QED BY <1>5, <1>6, <1>7

\* Buckets expire, the host drains, the identity is revoked.
LEMMA HostOther ==
  ASSUME WebSocketHost, OwnInv, HostInv, Drain \/ Revoke \/ \E p \in Partitions : Expire(p)
  PROVE  HostInv'
<1>1. Shape /\ Stores BY DEF OwnInv, HostInv
<1>2. CASE Revoke
  <2>1. SameEntries /\ bucket' = bucket /\ CallsKeep BY <1>2 DEF Revoke, SameEntries, CallsKeep
  <2> QED BY <1>1, <2>1, SameDrops, HostDrops
<1>3. CASE Drain
  <2> DEFINE open == {s \in Sessions : sess[s].pc \in {"replay", "read", "stashed"}}
             C == UNION {{sess[s].pending[i] : i \in Pending(s)} : s \in open}
  <2>1. /\ bucket' = bucket /\ Resolve(C, "err")
        /\ sess' = [s \in Sessions |-> IF s \in open
                     THEN [sess[s] EXCEPT !.closed = TRUE, !.pending = [i \in {} |-> 0]]
                     ELSE sess[s]]
    BY <1>3 DEF Drain
  <2>2. \A s \in open : \A i \in Pending(s) : sess[s].pending[i] \in C OBVIOUS
  <2> HIDE DEF C
  <2>3. CallsKeep /\ \A c \in C \cap Calls : call'[c].pc \notin Parked
    BY <1>1, <2>1, ResolveKeeps
  <2>4. DOMAIN [i \in {} |-> 0] = {} OBVIOUS
  <2>5. \A t \in Sessions : /\ sess'[t].todo = sess[t].todo
                            /\ t \notin open => sess'[t].pending = sess[t].pending
                            /\ t \in open => sess'[t].pending = [i \in {} |-> 0]
    <3>1. \A t \in Sessions : DOMAIN sess[t] = SessFields BY <1>1 DEF Shape
    <3> HIDE DEF open
    <3> QED BY <2>1, <3>1 DEF SessFields
  <2> HIDE DEF open
  <2>6. \A t \in Sessions : /\ Pending(t)' \subseteq Pending(t)
                            /\ \A i \in Pending(t)' : sess'[t].pending[i] = sess[t].pending[i]
    BY <2>4, <2>5 DEF Pending
  <2>7. \A t \in Sessions : \A i \in Pending(t) \ Pending(t)' : call'[sess[t].pending[i]].pc \notin Parked
    BY <1>1, <2>2, <2>3, <2>5 DEF Pending, Stores
  <2>8. Drops BY <1>1, <2>1, <2>3, <2>5, <2>6, <2>7 DEF Drops, Stores
  <2> QED BY <1>1, <2>8, HostDrops
<1>4. ASSUME NEW p \in Partitions, Expire(p) PROVE HostInv'
  <2> DEFINE C == {b.of : b \in ToSet(bucket[p])}
  <2>1. bucket' = [bucket EXCEPT ![p] = <<>>] /\ sess' = sess /\ Resolve(C, "err")
    BY <1>4 DEF Expire
  <2>2. bucket[p] \in Seq(Batches) /\ bucket \in [Partitions -> Seq(Batches)] BY <1>1 DEF Stores
  <2>3. \A k \in 1 .. Len(bucket[p]) : bucket[p][k].of \in C \cap Calls
    <3>1. \A k \in 1 .. Len(bucket[p]) : bucket[p][k] \in ToSet(bucket[p]) BY <2>2 DEF ToSet
    <3>2. \A k \in 1 .. Len(bucket[p]) : bucket[p][k] \in Batches BY <2>2
    <3> QED BY <3>1, <3>2 DEF Batches
  <2> HIDE DEF C
  <2>4. CallsKeep /\ \A c \in C \cap Calls : call'[c].pc \notin Parked
    BY <1>1, <2>1, ResolveKeeps
  <2>5. bucket' \in [Partitions -> Seq(Batches)] BY <2>1, <2>2
  <2>6. \A q \in Partitions : \/ bucket'[q] = bucket[q]
                              \/ /\ bucket'[q] = <<>>
                                 /\ \A k \in 1 .. Len(bucket[q]) : call'[bucket[q][k].of].pc \notin Parked
    BY <2>1, <2>2, <2>3, <2>4
  <2>7. Drops BY <2>1, <2>4, <2>5, <2>6 DEF Drops, Pending
  <2> QED BY <1>1, <2>7, HostDrops
<1> QED BY <1>2, <1>3, <1>4

\* A session takes the bucket of a partition: its batches change place.
LEMMA HostTakes ==
  ASSUME WebSocketHost, OwnInv, HostInv, NEW s \in Sessions, NEW p \in Partitions, TakeStash(s, p)
  PROVE  HostInv'
<1>1. Shape /\ Stores BY DEF OwnInv, HostInv
<1>2. DOMAIN sess = Sessions /\ DOMAIN sess[s] = SessFields BY <1>1 DEF Shape
<1>3. /\ bucket \in [Partitions -> Seq(Batches)]
      /\ \A t \in Sessions : sess[t].todo \in [Partitions -> Seq(Batches)]
  BY <1>1 DEF Stores
<1>4. /\ \A q \in Partitions : sess[s].todo[q] = <<>>
      /\ bucket' = [bucket EXCEPT ![p] = <<>>]
      /\ call' = call
  BY DEF TakeStash
<1>5. /\ \A t \in Sessions \ {s} : sess'[t] = sess[t]
      /\ sess'[s].todo = [sess[s].todo EXCEPT ![p] = bucket[p]]
      /\ sess'[s].pending = sess[s].pending
  <2>1. PICK d : d = [sess[s].todo EXCEPT ![p] = bucket[p]] OBVIOUS
  <2>2. sess' = [sess EXCEPT ![s] = [sess[s] EXCEPT !.left = @ \ {p}, !.todo = d]]
    BY <2>1 DEF TakeStash
  <2> QED BY <1>2, <2>1, <2>2 DEF SessFields
<1>6. Stores'
  <2>1. bucket' \in [Partitions -> Seq(Batches)] BY <1>3, <1>4
  <2>2. ASSUME NEW t \in Sessions PROVE sess'[t].todo \in [Partitions -> Seq(Batches)]
    <3>1. CASE t = s BY <1>3, <1>5, <3>1
    <3>2. CASE t # s BY <1>3, <1>5, <3>2
    <3> QED BY <3>1, <3>2
  <2>3. \A t \in Sessions : sess'[t].pending = sess[t].pending BY <1>5
  <2> QED BY <1>1, <2>1, <2>2, <2>3 DEF Stores, Pending
<1>7. 0 \notin Sessions /\ Sessions \subseteq Nat /\ Places = {0} \cup Sessions
  BY DEF Sessions, Places, WebSocketHost
<1>8. ASSUME NEW t \in Places, NEW q \in Partitions
      PROVE  Queue(t, q)' = IF t = s /\ q = p THEN Queue(0, p)
                            ELSE IF t = 0 /\ q = p THEN <<>> ELSE Queue(t, q)
  BY <1>3, <1>4, <1>5, <1>7 DEF Queue
<1>9. \A q \in Partitions : Queue(s, q) = <<>> BY <1>4, <1>7 DEF Queue
<1>10. \A c \in Calls, t \in Places, q \in Partitions, k \in Nat :
         At(t, q, k, c)' => \/ t = s /\ q = p /\ At(0, p, k, c)
                            \/ t # s /\ ~(t = 0 /\ q = p) /\ At(t, q, k, c)
  BY <1>8, <1>9 DEF At
<1>11. \A c \in Calls, t \in Places, q \in Partitions, k \in Nat :
         At(t, q, k, c) => IF t = 0 /\ q = p THEN At(s, p, k, c)' ELSE At(t, q, k, c)'
  BY <1>7, <1>8, <1>9 DEF At
<1>12. \A c \in Calls, t \in Sessions, i \in Nat : Entry(t, i, c)' <=> Entry(t, i, c)
  BY <1>5 DEF Entry, Pending
<1>13. HoldInv'
  <2> SUFFICES ASSUME NEW c \in Calls
               PROVE  OneHolder(c)' /\ (Held(c)' <=> Held(c))
    BY <1>4 DEF HoldInv, HostInv
  <2>1. OneHolder(c) BY DEF HoldInv, HostInv
  <2>2. 0 \in Places /\ s \in Places BY <1>7
  <2>3. OneHolder(c)' BY <1>7, <1>10, <1>12, <2>1, <2>2 DEF OneHolder
  <2>4. Held(c)' <=> Held(c) BY <1>7, <1>10, <1>11, <1>12, <2>2 DEF Held
  <2> QED BY <2>3, <2>4
<1>14. ASSUME NEW t \in Sessions PROVE Bound(t)'
  <2>1. ASSUME NEW b, InStash(t, b)' PROVE InStash(t, b)
    <3>1. CASE \E q \in Partitions : \E k \in 1 .. Len(bucket'[q]) : b = bucket'[q][k]
      <4>1. PICK q \in Partitions : \E k \in 1 .. Len(bucket'[q]) : b = bucket'[q][k] BY <3>1
      <4>2. \E k \in 1 .. Len(bucket[q]) : b = bucket[q][k] BY <1>3, <1>4, <4>1
      <4> QED BY <2>1, <4>2 DEF InStash
    <3>2. ASSUME NEW u \in Sessions, NEW q \in Partitions, NEW k \in 2 .. Len(sess'[u].todo[q]),
                 b = sess'[u].todo[q][k]
          PROVE  InStash(t, b)
      <4>1. CASE u = s /\ q = p
        <5>1. k \in 1 .. Len(bucket[p]) /\ b = bucket[p][k] BY <1>3, <1>5, <3>2, <4>1
        <5> QED BY <2>1, <5>1 DEF InStash
      <4>2. CASE ~(u = s /\ q = p)
        <5>1. sess'[u].todo[q] = sess[u].todo[q] BY <1>3, <1>5, <4>2
        <5> QED BY <2>1, <3>2, <5>1 DEF InStash
      <4> QED BY <4>1, <4>2
    <3> QED BY <2>1, <3>1, <3>2 DEF InStash
  <2>2. Stashed(t)' \subseteq Stashed(t) BY <1>1, <1>6, <2>1, StashedIs, StashedPrime
  <2>3. Pending(t)' = Pending(t) BY <1>5 DEF Pending
  <2> QED BY <2>2, <2>3, BoundFewer DEF HostInv, WebSocketHost
<1> QED BY <1>6, <1>13, <1>14 DEF HostInv

\* A caller with a permit gets an entry.
LEMMA BoundMore ==
  ASSUME Cap \in Nat, NEW s, NEW i, Bound(s), Permits(s) > 0,
         Pending(s)' = Pending(s) \cup {i}, Stashed(s)' \subseteq Stashed(s)
  PROVE  Bound(s)'
<1>1. IsFiniteSet(Pending(s)') /\ Cardinality(Pending(s)') <= Cardinality(Pending(s)) + 1
  <2>1. IsFiniteSet(Pending(s)) /\ Cardinality(Pending(s)) \in Nat BY FS_CardinalityType DEF Bound
  <2>2. /\ IsFiniteSet(Pending(s) \cup {i})
        /\ Cardinality(Pending(s) \cup {i}) =
             IF i \in Pending(s) THEN Cardinality(Pending(s)) ELSE Cardinality(Pending(s)) + 1
    BY <2>1, FS_AddElement
  <2> HIDE DEF Pending
  <2> QED BY <2>1, <2>2
<1>2. IsFiniteSet(Stashed(s)') /\ Cardinality(Stashed(s)') <= Cardinality(Stashed(s))
  BY FS_Subset DEF Bound
<1>3. /\ Cardinality(Pending(s)) \in Nat /\ Cardinality(Stashed(s)) \in Nat
      /\ Cardinality(Pending(s)') \in Nat /\ Cardinality(Stashed(s)') \in Nat
  BY <1>1, <1>2, FS_CardinalityType DEF Bound
<1>4. Cardinality(Pending(s)) + Cardinality(Stashed(s)) + 1 <= Cap BY <1>3 DEF Permits
<1>5. Cardinality(Pending(s)') + Cardinality(Stashed(s)') <= Cap
  BY <1>1, <1>2, <1>3, <1>4
<1> QED BY <1>1, <1>2, <1>5 DEF Bound

\* A batch that starts takes a permit and gets an entry.
LEMMA HostStarts ==
  ASSUME WebSocketHost, OwnInv, HostInv, NEW c \in Calls, StartBatch(c)
  PROVE  HostInv'
<1>1. Shape /\ Messages /\ Callers /\ Stores BY DEF OwnInv, HostInv
<1>2. PICK s \in Sessions : s = call[c].sess /\ call[c].pc = "routed"
  BY <1>1 DEF Callers, StartBatch, Underway
<1>3. PICK id \in Nat : id = sess[s].next /\ id \notin Pending(s)
  BY <1>1 DEF Shape, Messages
<1>4. PICK n : n = 1 + Cardinality({d \in Calls : call[d].nr > 0}) OBVIOUS
<1>5. /\ sess' = [sess EXCEPT ![s].next = @ + 1, ![s].pending = With(@, id, c)]
      /\ call' = [call EXCEPT ![c].pc = "sending", ![c].id = id, ![c].nr = n]
      /\ bucket' = bucket /\ Permits(s) > 0
  BY <1>2, <1>3, <1>4 DEF StartBatch
<1>6. DOMAIN sess = Sessions /\ DOMAIN sess[s] = SessFields /\ DOMAIN call = Calls
      /\ DOMAIN call[c] = CallFields
  BY <1>1 DEF Shape
<1>7. /\ \A t \in Sessions \ {s} : sess'[t] = sess[t]
      /\ sess'[s].todo = sess[s].todo /\ sess'[s].pending = With(sess[s].pending, id, c)
  BY <1>5, <1>6 DEF SessFields
<1>8. call'[c].pc = "sending" /\ \A d \in Calls \ {c} : call'[d] = call[d]
  BY <1>5, <1>6 DEF CallFields
<1>15. bucket' = bucket /\ \A t \in Sessions : sess'[t].todo = sess[t].todo BY <1>5, <1>7
<1>9. Stores'
  <2>1. \A t \in Sessions : \A i \in DOMAIN sess'[t].pending : sess'[t].pending[i] \in Calls
    <3>1. \A i \in DOMAIN sess'[s].pending : sess'[s].pending[i] \in Calls
      BY <1>1, <1>7 DEF Stores, Pending, With
    <3>2. \A t \in Sessions \ {s} : sess'[t].pending = sess[t].pending BY <1>7
    <3> QED BY <1>1, <3>1, <3>2 DEF Stores, Pending
  <2> QED BY <1>1, <1>15, <2>1 DEF Stores, Pending
<1>10. \A t \in Places, p \in Partitions : Queue(t, p)' = Queue(t, p)
  BY <1>15 DEF Queue, Places, Sessions, WebSocketHost
<1>11. \A d \in Calls, t \in Places, p \in Partitions, k \in Nat : At(t, p, k, d)' <=> At(t, p, k, d)
  BY <1>10 DEF At
<1>12. \A d \in Calls, t \in Sessions, i \in Nat :
         Entry(t, i, d)' <=> Entry(t, i, d) \/ (t = s /\ i = id /\ d = c)
  BY <1>3, <1>7 DEF Entry, Pending, With
<1>13. HoldInv'
  <2>1. ASSUME NEW d \in Calls \ {c} PROVE OneHolder(d)' /\ (Held(d)' <=> Held(d))
    <3>1. OneHolder(d) BY DEF HoldInv, HostInv
    <3> QED BY <1>11, <1>12, <3>1 DEF OneHolder, Held, Sessions, Places
  <2>2. ~Held(c) BY <1>2 DEF HoldInv, HostInv
  <2>3. OneHolder(c)' BY <1>11, <1>12, <2>2 DEF OneHolder, Held, Sessions, Places
  <2>4. Held(c)' BY <1>12 DEF Held, Sessions
  <2> QED BY <1>8, <2>1, <2>3, <2>4 DEF HoldInv, HostInv, Parked
<1>14. ASSUME NEW t \in Sessions PROVE Bound(t)'
  <2>1. \A b : InStash(t, b)' <=> InStash(t, b) BY <1>15 DEF InStash
  <2>2. Stashed(t)' \subseteq Stashed(t) BY <1>1, <1>9, <2>1, StashedIs, StashedPrime
  <2>3. CASE t = s
    <3>1. Pending(t)' = Pending(t) \cup {id} BY <1>7, <2>3 DEF Pending, With
    <3> QED BY <1>5, <2>2, <2>3, <3>1, BoundMore DEF HostInv, WebSocketHost
  <2>4. CASE t # s
    <3>1. Pending(t)' = Pending(t) BY <1>7, <2>4 DEF Pending
    <3> QED BY <2>2, <3>1, BoundFewer DEF HostInv, WebSocketHost
  <2> QED BY <2>3, <2>4
<1> QED BY <1>9, <1>13, <1>14 DEF HostInv

\* A batch of a replay is submitted: it leaves the queue for an entry, or its
\* caller fails.
LEMMA HostResubmits ==
  ASSUME WebSocketHost, OwnInv, HostInv, NEW s \in Sessions, NEW p \in Partitions, Resubmit(s, p)
  PROVE  HostInv'
<1>1. Shape /\ Messages /\ Stores BY DEF OwnInv, HostInv
<1>2. PICK Q \in Seq(Batches) : Q = sess[s].todo[p] BY <1>1 DEF Stores
<1>3. Q # <<>> /\ Permits(s) > 0 BY <1>2 DEF Resubmit
<1>4. PICK b \in Batches : b = Head(Q) BY <1>3
<1>5. PICK e \in Calls : e = b.of BY <1>4 DEF Batches
<1>6. PICK id \in Nat : id = sess[s].next /\ id \notin Pending(s) BY <1>1 DEF Shape, Messages
<1>7. DOMAIN sess = Sessions /\ DOMAIN sess[s] = SessFields BY <1>1 DEF Shape
<1>8. PICK T : T = [sess[s].todo EXCEPT ![p] = Tail(Q)] OBVIOUS
<1> DEFINE sent == sess[s].conn # "down"
<1>9. /\ bucket' = bucket
      /\ \A t \in Sessions \ {s} : sess'[t] = sess[t]
      /\ sess'[s].todo = T
      /\ sess'[s].pending = IF sent THEN With(sess[s].pending, id, e) ELSE sess[s].pending
      /\ IF sent THEN call' = call ELSE Resolve({e}, "err")
  <2>1. bucket' = bucket BY DEF Resubmit
  <2>2. PICK S : S = [sess[s] EXCEPT !.todo = T, !.next = id + 1] OBVIOUS
  <2>3. S = [sess[s] EXCEPT !.todo[p] = Tail(@), !.next = @ + 1]
    BY <1>2, <1>6, <1>7, <1>8, <2>2 DEF SessFields
  <2>4. /\ DOMAIN S = SessFields /\ S.todo = T /\ S.pending = sess[s].pending /\ S.req = sess[s].req
    BY <1>7, <2>2 DEF SessFields
  <2>5. CASE ~sent
    <3>1. sess' = [sess EXCEPT ![s] = S] /\ Resolve({e}, "err")
      BY <1>2, <1>4, <1>5, <2>3, <2>5 DEF Resubmit
    <3> QED BY <1>7, <2>1, <2>4, <2>5, <3>1
  <2>6. CASE sent
    <3>1. PICK m : m = IF sess[s].conn = "up" THEN S.req \cup {[id |-> id, of |-> e]} ELSE S.req
      OBVIOUS
    <3>2. /\ sess' = [sess EXCEPT ![s] = [S EXCEPT !.pending = With(@, id, e), !.req = m]]
          /\ call' = call
      <4> HIDE DEF With
      <4> QED BY <1>2, <1>4, <1>5, <1>6, <2>3, <2>6, <3>1 DEF Resubmit
    <3>3. PICK w : w = With(sess[s].pending, id, e) OBVIOUS
    <3>4. /\ \A t \in Sessions \ {s} : sess'[t] = sess[t]
          /\ sess'[s] = [S EXCEPT !.pending = w, !.req = m]
      BY <1>7, <2>4, <3>2, <3>3
    <3>5. sess'[s].todo = T /\ sess'[s].pending = w BY <2>4, <3>4 DEF SessFields
    <3> QED BY <2>1, <2>6, <3>2, <3>3, <3>4, <3>5
  <2> QED BY <2>5, <2>6
<1> HIDE DEF sent
<1>10. /\ Tail(Q) \in Seq(Batches) /\ Len(Tail(Q)) = Len(Q) - 1 /\ Len(Q) \in Nat \ {0}
       /\ \A k \in 1 .. Len(Q) - 1 : Tail(Q)[k] = Q[k + 1]
       /\ Q[1] = b
  BY <1>3, <1>4
<1>11. sess[s].todo \in [Partitions -> Seq(Batches)] /\ T \in [Partitions -> Seq(Batches)]
       /\ T[p] = Tail(Q) /\ \A q \in Partitions \ {p} : T[q] = sess[s].todo[q]
  BY <1>1, <1>8, <1>10 DEF Stores
<1>12. Stores'
  <2>1. \A t \in Sessions : sess'[t].todo \in [Partitions -> Seq(Batches)]
    BY <1>1, <1>9, <1>11 DEF Stores
  <2>2. \A i \in DOMAIN sess'[s].pending : sess'[s].pending[i] \in Calls
    BY <1>1, <1>9 DEF Stores, Pending, With
  <2>3. \A t \in Sessions \ {s} : sess'[t].pending = sess[t].pending BY <1>9
  <2>4. \A t \in Sessions : \A i \in DOMAIN sess'[t].pending : sess'[t].pending[i] \in Calls
    BY <1>1, <2>2, <2>3 DEF Stores, Pending
  <2> QED BY <1>1, <1>9, <2>1, <2>4 DEF Stores, Pending
<1>13. 0 \notin Sessions /\ Sessions \subseteq Nat /\ Places = {0} \cup Sessions
  BY DEF Sessions, Places, WebSocketHost
<1>14. /\ Queue(s, p) = Q /\ Queue(s, p)' = Tail(Q)
       /\ \A t \in Places, q \in Partitions : ~(t = s /\ q = p) => Queue(t, q)' = Queue(t, q)
  BY <1>2, <1>9, <1>11, <1>13 DEF Queue
<1>15. \A c \in Calls, t \in Places, q \in Partitions, k \in Nat :
         At(t, q, k, c)' <=> IF t = s /\ q = p THEN k # 0 /\ At(s, p, k + 1, c) ELSE At(t, q, k, c)
  BY <1>10, <1>14 DEF At
<1>16. At(s, p, 1, e) /\ \A c \in Calls : At(s, p, 1, c) => c = e
  BY <1>4, <1>5, <1>10, <1>14 DEF At
<1>17. \A c \in Calls, t \in Sessions, i \in Nat :
         Entry(t, i, c)' <=> Entry(t, i, c) \/ (sent /\ t = s /\ i = id /\ c = e)
  BY <1>6, <1>9 DEF Entry, Pending, With
<1>18. CallsKeep /\ (~sent => call'[e].pc \notin Parked)
  <2>1. CASE sent BY <1>9, <2>1 DEF CallsKeep
  <2>2. CASE ~sent BY <1>1, <1>9, <2>2, ResolveKeeps
  <2> QED BY <2>1, <2>2
<1>19. HoldInv'
  <2>0. s \in Places /\ s \in Nat BY <1>13
  <2>1. ASSUME NEW c \in Calls \ {e} PROVE OneHolder(c)' /\ (Held(c)' <=> Held(c))
    <3>1. OneHolder(c) BY DEF HoldInv, HostInv
    <3>2. \A t \in Sessions, i \in Nat : Entry(t, i, c)' <=> Entry(t, i, c) BY <1>17
    <3>3. \A t \in Places, q \in Partitions, k \in Nat :
            At(t, q, k, c)' => At(t, q, IF t = s /\ q = p THEN k + 1 ELSE k, c)
      BY <1>15
    <3>4. OneHolder(c)'
      <4>1. \A t, u \in Sessions, i, j \in Nat : Entry(t, i, c)' /\ Entry(u, j, c)' => t = u /\ i = j
        BY <3>1, <3>2 DEF OneHolder
      <4>2. ASSUME NEW t \in Places, NEW u \in Places, NEW q \in Partitions, NEW r \in Partitions,
                   NEW j \in Nat, NEW k \in Nat, At(t, q, j, c)', At(u, r, k, c)'
            PROVE  t = u /\ q = r /\ j = k
        <5>1. PICK jj \in Nat : jj = IF t = s /\ q = p THEN j + 1 ELSE j OBVIOUS
        <5>2. PICK kk \in Nat : kk = IF u = s /\ r = p THEN k + 1 ELSE k OBVIOUS
        <5>3. At(t, q, jj, c) /\ At(u, r, kk, c) BY <3>3, <4>2, <5>1, <5>2
        <5>4. t = u /\ q = r /\ jj = kk BY <3>1, <5>3 DEF OneHolder
        <5> QED BY <5>1, <5>2, <5>4
      <4>3. ASSUME NEW t \in Sessions, NEW i \in Nat, NEW u \in Places, NEW r \in Partitions, NEW k \in Nat,
                   Entry(t, i, c)', At(u, r, k, c)'
            PROVE  FALSE
        <5>1. PICK kk \in Nat : At(u, r, kk, c) BY <3>3, <4>3
        <5> QED BY <3>1, <3>2, <4>3, <5>1 DEF OneHolder
      <4> QED BY <4>1, <4>2, <4>3 DEF OneHolder, Sessions, Places
    <3>5. ASSUME NEW t \in Places, NEW q \in Partitions, NEW k \in Nat, At(t, q, k, c)
          PROVE  \E j \in Nat : At(t, q, j, c)'
      <4>1. CASE t = s /\ q = p
        <5>1. k # 0 /\ k # 1 BY <1>16, <3>5, <4>1 DEF At
        <5>2. k - 1 \in Nat /\ k - 1 # 0 /\ (k - 1) + 1 = k BY <5>1
        <5> QED BY <1>15, <3>5, <4>1, <5>2
      <4>2. CASE ~(t = s /\ q = p) BY <1>15, <3>5, <4>2
      <4> QED BY <4>1, <4>2
    <3>6. ASSUME NEW t \in Places, NEW q \in Partitions, NEW k \in Nat, At(t, q, k, c)'
          PROVE  \E j \in Nat : At(t, q, j, c)
      BY <3>3, <3>6
    <3> QED BY <3>2, <3>4, <3>5, <3>6 DEF Held, Sessions, Places
  <2>2. OneHolder(e) BY DEF HoldInv, HostInv
  <2>3. \A t \in Sessions, i \in Nat : ~Entry(t, i, e) BY <1>16, <2>0, <2>2 DEF OneHolder
  <2>4. ASSUME NEW t \in Places, NEW q \in Partitions, NEW k \in Nat PROVE ~At(t, q, k, e)'
    <3>1. \A j \in Nat : At(t, q, j, e) => t = s /\ q = p /\ j = 1
      BY <1>16, <2>0, <2>2 DEF OneHolder
    <3> QED BY <1>15, <3>1
  <2>5. \A t \in Sessions, i \in Nat : Entry(t, i, e)' <=> sent /\ t = s /\ i = id
    BY <1>17, <2>3
  <2>6. OneHolder(e)' BY <2>4, <2>5 DEF OneHolder, Sessions, Places
  <2>7. Held(e)' <=> sent BY <2>4, <2>5 DEF Held, Sessions, Places
  <2>8. Held(e) BY <1>16, <2>0 DEF Held
  <2>9. sent => call'[e].pc \notin {"new", "routed"} BY <1>9, <2>8 DEF HoldInv, HostInv
  <2>10. ASSUME NEW c \in Calls
         PROVE  /\ OneHolder(c)'
                /\ call'[c].pc \in {"new", "routed"} => ~Held(c)'
                /\ call'[c].pc \in Parked => Held(c)'
    <3>1. CASE c = e BY <1>18, <2>6, <2>7, <2>9, <3>1
    <3>2. CASE c # e BY <1>18, <2>1, <3>2 DEF CallsKeep, HoldInv, HostInv
    <3> QED BY <3>1, <3>2
  <2> QED BY <2>10 DEF HoldInv, Parked
<1>20. ASSUME NEW t \in Sessions PROVE Bound(t)'
  <2>1. ASSUME NEW x, InStash(t, x)' PROVE InStash(t, x)
    <3>1. ASSUME NEW u \in Sessions, NEW q \in Partitions, NEW k \in 2 .. Len(sess'[u].todo[q]),
                 x = sess'[u].todo[q][k]
          PROVE  \E j \in 2 .. Len(sess[u].todo[q]) : x = sess[u].todo[q][j]
      <4>1. CASE u = s /\ q = p
        <5>1. sess'[u].todo[q] = Tail(Q) /\ sess[u].todo[q] = Q BY <1>2, <1>9, <1>11, <4>1
        <5>2. k + 1 \in 2 .. Len(Q) /\ x = Q[k + 1] BY <1>10, <3>1, <5>1
        <5> QED BY <5>1, <5>2
      <4>2. CASE ~(u = s /\ q = p)
        <5>1. sess'[u].todo[q] = sess[u].todo[q] BY <1>9, <1>11, <4>2
        <5> QED BY <3>1, <5>1
      <4> QED BY <4>1, <4>2
    <3> QED BY <1>9, <2>1, <3>1 DEF InStash
  <2>2. Stashed(t)' \subseteq Stashed(t) BY <1>1, <1>12, <2>1, StashedIs, StashedPrime
  <2>3. CASE t = s /\ sent
    <3>1. Pending(t)' = Pending(t) \cup {id} BY <1>9, <2>3 DEF Pending, With
    <3> QED BY <1>3, <2>2, <2>3, <3>1, BoundMore DEF HostInv, WebSocketHost
  <2>4. CASE ~(t = s /\ sent)
    <3>1. Pending(t)' = Pending(t) BY <1>9, <2>4 DEF Pending
    <3> QED BY <2>2, <3>1, BoundFewer DEF HostInv, WebSocketHost
  <2> QED BY <2>3, <2>4
<1> QED BY <1>12, <1>19, <1>20 DEF HostInv

\* Each pending batch of the partition is drained once.
LEMMA DrainedList ==
  ASSUME Shape, HostInv, NEW s \in Sessions, NEW p \in Partitions, NEW q \in Drained(s, p)
  PROVE  /\ q \in Seq(Batches)
         /\ \A k \in 1 .. Len(q) : \E i \in Pending(s) : /\ PartOf[sess[s].pending[i]] = p
                                                        /\ q[k] = [of |-> sess[s].pending[i], from |-> s]
         /\ \A j, k \in 1 .. Len(q) : q[j].of = q[k].of => j = k
         /\ \A i \in Pending(s) : PartOf[sess[s].pending[i]] = p =>
               \E k \in 1 .. Len(q) : q[k].of = sess[s].pending[i]
<1> DEFINE ids == {i \in Pending(s) : PartOf[sess[s].pending[i]] = p}
           n == Cardinality(ids)
<1>1. IsFiniteSet(ids) /\ n \in Nat
  <2>1. IsFiniteSet(Pending(s)) BY DEF HostInv, Bound
  <2>2. ids \in SUBSET Pending(s) OBVIOUS
  <2>3. IsFiniteSet(ids) BY <2>1, <2>2, FS_Subset
  <2> HIDE DEF ids
  <2> QED BY <2>3, FS_CardinalityType
<1>2. PICK f \in [1 .. n -> ids] :
        /\ \A j, k \in 1 .. n : j < k => f[j] < f[k]
        /\ q = [k \in 1 .. n |-> [of |-> sess[s].pending[f[k]], from |-> s]]
  BY DEF Drained
<1>3. \A i \in ids : i \in Nat /\ i \in Pending(s) /\ sess[s].pending[i] \in Calls /\ PartOf[sess[s].pending[i]] = p
  BY DEF Shape, HostInv, Stores
<1> HIDE DEF ids, n
<1>4. \A j, k \in 1 .. n : f[j] = f[k] => j = k
  <2> SUFFICES ASSUME NEW j \in 1 .. n, NEW k \in 1 .. n, f[j] = f[k], j # k PROVE FALSE OBVIOUS
  <2>1. f[j] \in Nat /\ f[k] \in Nat BY <1>2, <1>3
  <2>2. j < k \/ k < j BY <1>1
  <2> QED BY <1>2, <2>1, <2>2
<1>5. \A i \in ids : \E k \in 1 .. n : f[k] = i
  <2>1. f \in Injection(1 .. n, ids) BY <1>2, <1>4 DEF Injection, IsInjective
  <2>2. Cardinality(1 .. n) = Cardinality(ids) BY <1>1, FS_Interval DEF n
  <2>3. f \in Surjection(1 .. n, ids) BY <1>1, <2>1, <2>2, FS_Injection
  <2> QED BY <2>3 DEF Surjection
<1>6. q \in Seq(Batches) /\ Len(q) = n
  <2>1. \A k \in 1 .. n : q[k] \in Batches BY <1>2, <1>3 DEF Batches
  <2>2. q \in [1 .. n -> Batches] BY <1>2, <2>1
  <2> QED BY <1>1, <2>2
<1>7. \A k \in 1 .. n : q[k].of = sess[s].pending[f[k]] /\ f[k] \in ids BY <1>2
<1>8. \A k \in 1 .. Len(q) : \E i \in Pending(s) : /\ PartOf[sess[s].pending[i]] = p
                                                 /\ q[k] = [of |-> sess[s].pending[i], from |-> s]
  BY <1>2, <1>3, <1>6
<1>9. ASSUME NEW j \in 1 .. Len(q), NEW k \in 1 .. Len(q), q[j].of = q[k].of PROVE j = k
  <2>1. PICK c \in Calls : c = q[j].of BY <1>3, <1>6, <1>7
  <2>2. Entry(s, f[j], c) /\ Entry(s, f[k], c) BY <1>3, <1>6, <1>7, <1>9, <2>1 DEF Entry
  <2>3. OneHolder(c) BY DEF HoldInv, HostInv
  <2>4. f[j] \in Nat /\ f[k] \in Nat BY <1>3, <1>6, <1>7
  <2>5. f[j] = f[k] BY <2>2, <2>3, <2>4 DEF OneHolder
  <2> QED BY <1>4, <1>6, <2>5
<1>10. \A i \in Pending(s) : PartOf[sess[s].pending[i]] = p => \E k \in 1 .. Len(q) : q[k].of = sess[s].pending[i]
  BY <1>5, <1>6, <1>7 DEF ids
<1> QED BY <1>6, <1>8, <1>9, <1>10

\* The read loop ends: the session's entries move to the buckets.
LEMMA HostStashes ==
  ASSUME WebSocketHost, OwnInv, HostInv, NEW s \in Sessions, EndRead(s)
  PROVE  HostInv'
<1>1. Shape /\ Stores BY DEF OwnInv, HostInv
<1>2. DOMAIN sess = Sessions /\ DOMAIN sess[s] = SessFields BY <1>1 DEF Shape
<1>3. DOMAIN [i \in {} |-> 0] = {} OBVIOUS
<1>4. /\ call' = call /\ \A t \in Sessions \ {s} : sess'[t] = sess[t]
      /\ sess'[s].todo = sess[s].todo /\ DOMAIN sess'[s].pending = {}
  <2>1. call' = call /\ sess' = [sess EXCEPT ![s].pc = "stashed", ![s].pending = [i \in {} |-> 0],
                                             ![s].ans = {}]
    BY DEF EndRead
  <2> QED BY <1>2, <1>3, <2>1 DEF SessFields
<1>5. PICK q \in [Partitions -> UNION {Drained(s, p) : p \in Partitions}] :
        /\ \A p \in Partitions : q[p] \in Drained(s, p)
        /\ bucket' = [p \in Partitions |-> bucket[p] \o q[p]]
  BY DEF EndRead
<1>6. \A p \in Partitions :
        /\ q[p] \in Seq(Batches)
        /\ \A k \in 1 .. Len(q[p]) : \E i \in Pending(s) : /\ PartOf[sess[s].pending[i]] = p
                                                         /\ q[p][k] = [of |-> sess[s].pending[i], from |-> s]
        /\ \A j, k \in 1 .. Len(q[p]) : q[p][j].of = q[p][k].of => j = k
        /\ \A i \in Pending(s) : PartOf[sess[s].pending[i]] = p =>
              \E k \in 1 .. Len(q[p]) : q[p][k].of = sess[s].pending[i]
  BY <1>1, <1>5, DrainedList
<1>7. ASSUME NEW p \in Partitions
      PROVE  /\ bucket[p] \in Seq(Batches) /\ Len(bucket[p]) \in Nat /\ Len(q[p]) \in Nat
             /\ bucket'[p] \in Seq(Batches) /\ Len(bucket'[p]) = Len(bucket[p]) + Len(q[p])
             /\ \A k \in 1 .. Len(bucket[p]) : bucket'[p][k] = bucket[p][k]
             /\ \A k \in 1 .. Len(q[p]) : bucket'[p][Len(bucket[p]) + k] = q[p][k]
  <2>1. bucket[p] \in Seq(Batches) /\ q[p] \in Seq(Batches) BY <1>1, <1>6 DEF Stores
  <2>2. bucket'[p] = bucket[p] \o q[p] BY <1>5
  <2> QED BY <2>1, <2>2
<1>8. Stores'
  <2>1. bucket' \in [Partitions -> Seq(Batches)] BY <1>5, <1>7
  <2>2. \A t \in Sessions : sess'[t].todo = sess[t].todo BY <1>4
  <2>3. \A t \in Sessions : \A i \in DOMAIN sess'[t].pending : sess'[t].pending[i] \in Calls
    BY <1>1, <1>4 DEF Stores, Pending
  <2> QED BY <1>1, <2>1, <2>2, <2>3 DEF Stores, Pending
<1>9. 0 \notin Sessions /\ Sessions \subseteq Nat /\ Places = {0} \cup Sessions
  BY DEF Sessions, Places, WebSocketHost
<1>10. \A c \in Calls, t \in Sessions, i \in Nat : Entry(t, i, c)' <=> Entry(t, i, c) /\ t # s
  BY <1>4 DEF Entry, Pending
<1>11. \A c \in Calls, t \in Sessions, p \in Partitions, k \in Nat : At(t, p, k, c)' <=> At(t, p, k, c)
  <2>1. \A t \in Sessions, p \in Partitions : Queue(t, p)' = Queue(t, p) BY <1>4, <1>9 DEF Queue
  <2> QED BY <2>1 DEF At
<1>12. ASSUME NEW c \in Calls, NEW p \in Partitions, NEW k \in Nat, At(0, p, k, c) PROVE At(0, p, k, c)'
  <2>1. /\ Len(bucket[p]) \in Nat /\ Len(q[p]) \in Nat /\ Len(bucket'[p]) = Len(bucket[p]) + Len(q[p])
        /\ \A j \in 1 .. Len(bucket[p]) : bucket'[p][j] = bucket[p][j]
    BY <1>7
  <2>2. k \in 1 .. Len(bucket[p]) /\ bucket[p][k].of = c BY <1>12 DEF At, Queue
  <2>3. k \in 1 .. Len(bucket'[p]) /\ bucket'[p][k].of = c BY <2>1, <2>2
  <2> QED BY <2>3 DEF At, Queue
\* A batch of the stash was there, or is the session's own.
<1>13. ASSUME NEW c \in Calls, NEW p \in Partitions, NEW k \in Nat, At(0, p, k, c)', ~At(0, p, k, c)
       PROVE  /\ p = PartOf[c] /\ \E i \in Nat : Entry(s, i, c)
              /\ \E j \in 1 .. Len(q[p]) : k = Len(bucket[p]) + j /\ q[p][j].of = c
  <2>1. k \in 1 .. Len(bucket'[p]) /\ bucket'[p][k].of = c BY <1>13 DEF At, Queue
  <2>2. k \notin 1 .. Len(bucket[p]) BY <1>7, <1>13, <2>1 DEF At, Queue
  <2>3. PICK j \in 1 .. Len(q[p]) : k = Len(bucket[p]) + j
    <3>0. Len(bucket[p]) \in Nat /\ Len(q[p]) \in Nat /\ Len(bucket'[p]) = Len(bucket[p]) + Len(q[p])
      BY <1>7
    <3>1. k - Len(bucket[p]) \in 1 .. Len(q[p]) /\ k = Len(bucket[p]) + (k - Len(bucket[p]))
      BY <2>1, <2>2, <3>0
    <3> QED BY <3>1
  <2>4. q[p][j].of = c BY <1>7, <2>1, <2>3
  <2>5. PICK i \in Pending(s) : PartOf[sess[s].pending[i]] = p
                                /\ q[p][j] = [of |-> sess[s].pending[i], from |-> s]
    BY <1>6, <2>3
  <2>6. sess[s].pending[i] = c /\ i \in Nat BY <1>1, <2>4, <2>5 DEF Shape
  <2>7. Entry(s, i, c) /\ p = PartOf[c] BY <2>5, <2>6 DEF Entry
  <2> QED BY <2>3, <2>4, <2>6, <2>7
<1>14. ASSUME NEW c \in Calls, NEW i \in Nat, Entry(s, i, c)
       PROVE  \E p \in Partitions, k \in Nat : At(0, p, k, c)'
  <2>1. PICK p \in Partitions : p = PartOf[c] BY DEF WebSocketHost
  <2>2. PICK j \in 1 .. Len(q[p]) : q[p][j].of = c
    <3>1. \A m \in Pending(s) : PartOf[sess[s].pending[m]] = p =>
            \E k \in 1 .. Len(q[p]) : q[p][k].of = sess[s].pending[m]
      BY <1>6
    <3>2. i \in Pending(s) /\ sess[s].pending[i] = c BY <1>14 DEF Entry
    <3> QED BY <2>1, <3>1, <3>2
  <2>3. /\ Len(bucket[p]) + j \in 1 .. Len(bucket'[p]) /\ Len(bucket[p]) + j \in Nat
        /\ bucket'[p][Len(bucket[p]) + j].of = c
    <3>1. Len(bucket[p]) \in Nat /\ Len(q[p]) \in Nat /\ Len(bucket'[p]) = Len(bucket[p]) + Len(q[p])
          /\ \A k \in 1 .. Len(q[p]) : bucket'[p][Len(bucket[p]) + k] = q[p][k]
      BY <1>7
    <3> QED BY <2>2, <3>1
  <2>4. PICK k \in Nat : k = Len(bucket[p]) + j BY <2>3
  <2>5. k \in 1 .. Len(bucket'[p]) /\ bucket'[p][k].of = c BY <2>3, <2>4
  <2>6. At(0, p, k, c)' BY <2>5 DEF At, Queue
  <2> QED BY <2>6
<1>15. HoldInv'
  <2> SUFFICES ASSUME NEW c \in Calls PROVE OneHolder(c)' /\ (Held(c)' <=> Held(c))
    BY <1>4 DEF HoldInv, HostInv
  <2>1. OneHolder(c) BY DEF HoldInv, HostInv
  <2>2. 0 \in Places BY <1>9
  <2>3. ASSUME NEW t \in Places, NEW p \in Partitions, NEW k \in Nat, At(t, p, k, c)', ~At(t, p, k, c)
        PROVE  t = 0 /\ p = PartOf[c] /\ (\E i \in Nat : Entry(s, i, c))
               /\ \E j \in 1 .. Len(q[p]) : k = Len(bucket[p]) + j /\ q[p][j].of = c
    <3>1. t = 0 BY <1>9, <1>11, <2>3
    <3> QED BY <1>13, <2>3, <3>1
  <2>4. \A t, u \in Sessions, i, j \in Nat : Entry(t, i, c)' /\ Entry(u, j, c)' => t = u /\ i = j
    BY <1>10, <2>1 DEF OneHolder
  <2>5. ASSUME NEW t \in Places, NEW u \in Places, NEW p \in Partitions, NEW r \in Partitions,
               NEW j \in Nat, NEW k \in Nat, At(t, p, j, c)', At(u, r, k, c)'
        PROVE  t = u /\ p = r /\ j = k
    <3>1. CASE At(t, p, j, c) /\ At(u, r, k, c) BY <2>1, <3>1 DEF OneHolder
    <3>2. CASE ~At(t, p, j, c) /\ ~At(u, r, k, c)
      <4>1. t = 0 /\ u = 0 /\ p = PartOf[c] /\ r = PartOf[c] BY <2>3, <2>5, <3>2
      <4>2. PICK a \in 1 .. Len(q[p]) : j = Len(bucket[p]) + a /\ q[p][a].of = c
        BY <2>3, <2>5, <3>2
      <4>3. PICK b \in 1 .. Len(q[p]) : k = Len(bucket[p]) + b /\ q[p][b].of = c
        BY <2>3, <2>5, <3>2, <4>1
      <4>4. a = b
        <5>1. \A x, y \in 1 .. Len(q[p]) : q[p][x].of = q[p][y].of => x = y BY <1>6
        <5> QED BY <4>2, <4>3, <5>1
      <4> QED BY <4>1, <4>2, <4>3, <4>4
    <3>3. CASE At(t, p, j, c) /\ ~At(u, r, k, c) BY <2>1, <2>3, <2>5, <3>3 DEF OneHolder
    <3>4. CASE ~At(t, p, j, c) /\ At(u, r, k, c) BY <2>1, <2>3, <2>5, <3>4 DEF OneHolder
    <3> QED BY <3>1, <3>2, <3>3, <3>4
  <2>6. ASSUME NEW t \in Sessions, NEW i \in Nat, NEW u \in Places, NEW r \in Partitions, NEW k \in Nat,
               Entry(t, i, c)', At(u, r, k, c)'
        PROVE  FALSE
    <3>1. Entry(t, i, c) /\ t # s BY <1>10, <2>6
    <3>2. ~At(u, r, k, c) BY <2>1, <3>1 DEF OneHolder
    <3>3. \E j \in Nat : Entry(s, j, c) BY <2>3, <2>6, <3>2
    <3> QED BY <2>1, <3>1, <3>3 DEF OneHolder
  <2>7. OneHolder(c)' BY <2>4, <2>5, <2>6 DEF OneHolder, Sessions, Places
  <2>8. Held(c) => Held(c)'
    <3>1. ASSUME NEW t \in Sessions, NEW i \in Nat, Entry(t, i, c) PROVE Held(c)'
      <4>1. CASE t = s BY <1>14, <2>2, <3>1, <4>1 DEF Held, Places
      <4>2. CASE t # s BY <1>10, <3>1, <4>2 DEF Held, Sessions
      <4> QED BY <4>1, <4>2
    <3>2. ASSUME NEW t \in Places, NEW p \in Partitions, NEW k \in Nat, At(t, p, k, c) PROVE Held(c)'
      <4>1. At(t, p, k, c)' BY <1>9, <1>11, <1>12, <3>2
      <4> QED BY <4>1 DEF Held, Places
    <3> QED BY <3>1, <3>2 DEF Held
  <2>9. Held(c)' => Held(c)
    <3>1. (\E t \in Sessions, i \in Nat : Entry(t, i, c)') => Held(c) BY <1>10 DEF Held
    <3>2. (\E t \in Places, p \in Partitions, k \in Nat : At(t, p, k, c)') => Held(c)
      BY <2>3 DEF Held
    <3> QED BY <3>1, <3>2 DEF Held, Sessions, Places
  <2> QED BY <2>7, <2>8, <2>9
<1>16. ASSUME NEW t \in Sessions PROVE Bound(t)'
  <2> DEFINE M == {[of |-> sess[s].pending[i], from |-> s] : i \in Pending(s)}
  <2>1. ASSUME NEW x, InStash(t, x)' PROVE InStash(t, x) \/ (t = s /\ x \in M)
    <3>1. ASSUME NEW p \in Partitions, NEW k \in 1 .. Len(bucket'[p]), x = bucket'[p][k]
          PROVE  (k \in 1 .. Len(bucket[p]) /\ x = bucket[p][k]) \/ (x \in M /\ x.from = s)
      <4>1. CASE k \in 1 .. Len(bucket[p]) BY <1>7, <3>1, <4>1
      <4>2. CASE k \notin 1 .. Len(bucket[p])
        <5>1. k - Len(bucket[p]) \in 1 .. Len(q[p]) /\ k = Len(bucket[p]) + (k - Len(bucket[p]))
          <6>1. Len(bucket[p]) \in Nat /\ Len(q[p]) \in Nat
                /\ Len(bucket'[p]) = Len(bucket[p]) + Len(q[p])
            BY <1>7
          <6> QED BY <4>2, <6>1
        <5>2. PICK j \in 1 .. Len(q[p]) : k = Len(bucket[p]) + j BY <5>1
        <5>3. x = q[p][j] BY <1>7, <3>1, <5>2
        <5>4. \A m \in 1 .. Len(q[p]) : \E i \in Pending(s) : /\ PartOf[sess[s].pending[i]] = p
                                                         /\ q[p][m] = [of |-> sess[s].pending[i], from |-> s]
          BY <1>6
        <5>5. PICK i \in Pending(s) : q[p][j] = [of |-> sess[s].pending[i], from |-> s] BY <5>4
        <5> QED BY <5>3, <5>5
      <4> QED BY <4>1, <4>2
    <3>2. \A u \in Sessions : sess'[u].todo = sess[u].todo BY <1>4
    <3> HIDE DEF M
    <3> QED BY <2>1, <3>1, <3>2 DEF InStash
  <2>2. CASE t # s
    <3>1. Stashed(t)' \subseteq Stashed(t) BY <1>1, <1>8, <2>1, <2>2, StashedIs, StashedPrime
    <3>2. Pending(t)' = Pending(t) BY <1>4, <2>2 DEF Pending
    <3> QED BY <3>1, <3>2, BoundFewer DEF HostInv, WebSocketHost
  <2>3. CASE t = s
    <3>1. Stashed(s)' \subseteq Stashed(s) \cup M
      <4> HIDE DEF M
      <4> QED BY <1>1, <1>8, <2>1, <2>3, StashedIs, StashedPrime
    <3>2. Pending(s)' = {} BY <1>4 DEF Pending
    <3>3. IsFiniteSet(Pending(s)) /\ IsFiniteSet(Stashed(s))
          /\ Cardinality(Pending(s)) + Cardinality(Stashed(s)) <= Cap
      BY DEF HostInv, Bound
    <3>4. IsFiniteSet(M) /\ Cardinality(M) <= Cardinality(Pending(s))
      <4> DEFINE f == [i \in Pending(s) |-> [of |-> sess[s].pending[i], from |-> s]]
      <4>1. f \in Surjection(Pending(s), M) BY DEF Surjection
      <4> HIDE DEF f, M
      <4> QED BY <3>3, <4>1, FS_Surjection
    <3> HIDE DEF M
    <3>5. IsFiniteSet(Stashed(s) \cup M)
          /\ Cardinality(Stashed(s) \cup M) <= Cardinality(Stashed(s)) + Cardinality(M)
      <4>1. /\ IsFiniteSet(Stashed(s) \cup M)
            /\ Cardinality(Stashed(s) \cup M) =
                 Cardinality(Stashed(s)) + Cardinality(M) - Cardinality(Stashed(s) \cap M)
        BY <3>3, <3>4, FS_Union
      <4>2. IsFiniteSet(Stashed(s) \cap M) BY <3>3, FS_Intersection
      <4>3. Cardinality(Stashed(s) \cap M) \in Nat /\ Cardinality(Stashed(s)) \in Nat
            /\ Cardinality(M) \in Nat
        BY <3>3, <3>4, <4>2, FS_CardinalityType
      <4> QED BY <4>1, <4>3
    <3>6. IsFiniteSet(Stashed(s)') /\ Cardinality(Stashed(s)') <= Cardinality(Stashed(s) \cup M)
      BY <3>1, <3>5, FS_Subset
    <3>7. IsFiniteSet(Pending(s)') /\ Cardinality(Pending(s)') = 0 BY <3>2, FS_EmptySet
    <3>8. /\ Cardinality(Stashed(s)') \in Nat /\ Cardinality(Stashed(s)) \in Nat
          /\ Cardinality(Stashed(s) \cup M) \in Nat /\ Cardinality(M) \in Nat
          /\ Cardinality(Pending(s)) \in Nat
      BY <3>3, <3>4, <3>5, <3>6, FS_CardinalityType
    <3>9. Cardinality(Pending(s)') + Cardinality(Stashed(s)') <= Cap
      BY <3>3, <3>4, <3>5, <3>6, <3>7, <3>8 DEF WebSocketHost
    <3> QED BY <2>3, <3>6, <3>7, <3>9 DEF Bound
  <2> QED BY <2>2, <2>3
<1> QED BY <1>8, <1>15, <1>16 DEF HostInv

---------------------------------------------------------------------------
(* The connections counted.                                                  *)

Counted == {"replay", "read", "stashed"}
Active == {s \in Sessions : sess[s].pc \in Counted}

\* The count of connections follows the sessions that were counted.
LEMMA CountStays ==
  ASSUME WebSocketHost, Shape, CountExact, [Next]_vars
  PROVE  CountExact'
<1>1. IsFiniteSet(Active) /\ count = Cardinality(Active)
  <2>1. IsFiniteSet(Sessions) BY FS_Interval DEF Sessions, WebSocketHost
  <2>2. Active \in SUBSET Sessions BY DEF Active
  <2> QED BY <2>1, <2>2, FS_Subset DEF CountExact, Active, Counted
<1>2. DOMAIN sess = Sessions /\ \A s \in Sessions : DOMAIN sess[s] = SessFields BY DEF Shape
<1>3. ASSUME count' = count, \A t \in Sessions : sess'[t].pc \in Counted <=> sess[t].pc \in Counted
      PROVE  CountExact'
  <2>1. Active' = Active BY <1>3 DEF Active, Sessions
  <2> QED BY <1>1, <1>3, <2>1 DEF CountExact, Active, Counted
<1>4. ASSUME NEW s \in Sessions, Accept(s) PROVE CountExact'
  <2>1. /\ sess[s].pc = "auth" /\ sess'[s].pc = "replay" /\ count' = count + 1
        /\ \A t \in Sessions \ {s} : sess'[t] = sess[t]
    BY <1>2, <1>4 DEF Accept, SessFields, WebSocketHost
  <2>2. Active' = Active \cup {s} /\ s \notin Active BY <2>1 DEF Active, Counted, Sessions
  <2>3. Cardinality(Active') = Cardinality(Active) + 1 BY <1>1, <2>2, FS_AddElement
  <2> QED BY <1>1, <2>1, <2>3 DEF CountExact, Active, Counted
<1>5. ASSUME NEW s \in Sessions, Cleanup(s) PROVE CountExact'
  <2>1. /\ sess[s].pc = "stashed" /\ sess'[s].pc = "gone" /\ count' = count - 1
        /\ \A t \in Sessions \ {s} : sess'[t] = sess[t]
    <3>1. sess' = [sess EXCEPT ![s].pc = "gone", ![s].closed = TRUE, ![s].pending = [i \in {} |-> 0]]
      BY <1>5 DEF Cleanup
    <3> QED BY <1>2, <1>5, <3>1 DEF Cleanup, SessFields
  <2>2. Active' = Active \ {s} /\ s \in Active BY <2>1 DEF Active, Counted, Sessions
  <2>3. Cardinality(Active') = Cardinality(Active) - 1 BY <1>1, <2>2, FS_RemoveElement
  <2> QED BY <1>1, <2>1, <2>3 DEF CountExact, Active, Counted
<1>6. CASE UNCHANGED vars BY <1>3, <1>6 DEF vars
<1>7. ASSUME NEW s \in Sessions,
             Authorize(s) \/ HandshakeFails(s) \/ StartReading(s) \/ PumpEnds(s) \/ Break(s)
      PROVE  CountExact'
  <2>1. DOMAIN sess[s] = SessFields BY <1>2
  <2>2. count' = count /\ \A t \in Sessions : sess'[t].pc \in Counted <=> sess[t].pc \in Counted
    BY <1>2, <1>7, <2>1 DEF Authorize, HandshakeFails, StartReading, PumpEnds, Break, Counted, SessFields
  <2> QED BY <1>3, <2>2
<1>8. ASSUME NEW s \in Sessions, Process(s) \/ ReadAnswer(s) \/ EndRead(s) PROVE CountExact'
  <2>1. DOMAIN sess[s] = SessFields /\ DOMAIN sess = Sessions BY <1>2
  <2>2. \A t \in Sessions : sess'[t].pc \in Counted <=> sess[t].pc \in Counted
    <3>1. CASE Process(s)
      <4>1. PICK r \in sess[s].req : sess' = [sess EXCEPT ![s].req = @ \ {r}, ![s].ans = @ \cup {r}]
        BY <3>1 DEF Process
      <4> QED BY <2>1, <4>1 DEF SessFields
    <3>2. CASE ReadAnswer(s)
      <4>1. PICK r \in sess[s].ans :
              sess' = [sess EXCEPT ![s].ans = @ \ {r}, ![s].pending = Without(@, r.id)]
        BY <3>2 DEF ReadAnswer
      <4> QED BY <2>1, <4>1 DEF SessFields
    <3>3. CASE EndRead(s)
      <4>1. sess[s].pc = "read" /\ sess' = [sess EXCEPT ![s].pc = "stashed", ![s].pending = [i \in {} |-> 0],
                                                        ![s].ans = {}]
        BY <3>3 DEF EndRead
      <4> QED BY <2>1, <4>1 DEF SessFields, Counted
    <3> QED BY <1>8, <3>1, <3>2, <3>3
  <2>3. count' = count BY <1>8 DEF Process, ReadAnswer, EndRead
  <2> QED BY <1>3, <2>2, <2>3
<1>9. ASSUME NEW s \in Sessions, NEW p \in Partitions, TakeStash(s, p) \/ Resubmit(s, p) PROVE CountExact'
  <2>1. DOMAIN sess[s] = SessFields /\ DOMAIN sess = Sessions BY <1>2
  <2>2. count' = count BY <1>9 DEF TakeStash, Resubmit
  <2>3. \A t \in Sessions : sess'[t].pc = sess[t].pc
    <3>1. CASE TakeStash(s, p)
      <4>1. PICK d : d = [sess[s].todo EXCEPT ![p] = bucket[p]] OBVIOUS
      <4>2. sess' = [sess EXCEPT ![s] = [sess[s] EXCEPT !.left = @ \ {p}, !.todo = d]]
        BY <3>1, <4>1 DEF TakeStash
      <4> QED BY <2>1, <4>2 DEF SessFields
    <3>2. CASE Resubmit(s, p)
      <4>1. PICK T : T = [sess[s].todo EXCEPT ![p] = Tail(sess[s].todo[p])] OBVIOUS
      <4>2. PICK S : S = [sess[s] EXCEPT !.todo = T, !.next = @ + 1] OBVIOUS
      <4>3. S = [sess[s] EXCEPT !.todo[p] = Tail(@), !.next = @ + 1]
        BY <2>1, <4>1, <4>2 DEF SessFields
      <4>4. S.pc = sess[s].pc /\ DOMAIN S = SessFields BY <2>1, <4>2 DEF SessFields
      <4>5. PICK b : b = Head(sess[s].todo[p]) OBVIOUS
      <4>6. \E w, m : sess' = [sess EXCEPT ![s] = S]
                     \/ sess' = [sess EXCEPT ![s] = [S EXCEPT !.pending = w, !.req = m]]
        BY <3>2, <4>3 DEF Resubmit
      <4> QED BY <2>1, <4>4, <4>6 DEF SessFields
    <3> QED BY <1>9, <3>1, <3>2
  <2> QED BY <1>3, <2>2, <2>3
<1>10. ASSUME NEW s \in Sessions, NEW i, ForwarderTimeout(s, i) PROVE CountExact'
  <2>1. DOMAIN sess[s] = SessFields BY <1>2
  <2>2. count' = count /\ \A t \in Sessions : sess'[t].pc = sess[t].pc
    BY <1>2, <1>10, <2>1 DEF ForwarderTimeout, SessFields
  <2> QED BY <1>3, <2>2
<1>11. ASSUME NEW c \in Calls, Lookup(c) \/ StartBatch(c) \/ SendRequest(c) \/ CallTimeout(c)
       PROVE  CountExact'
  <2>1. count' = count BY <1>11 DEF Lookup, StartBatch, SendRequest, CallTimeout
  <2>2. \E s, n, w : \/ sess' = sess
                     \/ sess' = [sess EXCEPT ![s].next = n, ![s].pending = w]
                     \/ sess' = [sess EXCEPT ![s].pending = w]
                     \/ sess' = [sess EXCEPT ![s].req = w]
    <3>1. CASE Lookup(c) BY <1>11, <3>1 DEF Lookup
    <3>2. CASE StartBatch(c) BY <3>2 DEF StartBatch
    <3>3. CASE SendRequest(c) BY <3>3 DEF SendRequest
    <3>4. CASE CallTimeout(c) BY <3>4 DEF CallTimeout
    <3> QED BY <1>11, <3>1, <3>2, <3>3, <3>4
  <2>3. \A t \in Sessions : sess'[t].pc = sess[t].pc
    <3>1. PICK s, n, w : \/ sess' = sess
                         \/ sess' = [sess EXCEPT ![s].next = n, ![s].pending = w]
                         \/ sess' = [sess EXCEPT ![s].pending = w]
                         \/ sess' = [sess EXCEPT ![s].req = w]
      BY <2>2
    <3> QED BY <1>2, <3>1 DEF SessFields
  <2> QED BY <1>3, <2>1, <2>3
<1>12. ASSUME Drain \/ Revoke \/ \E p \in Partitions : Expire(p) PROVE CountExact'
  <2>1. count' = count BY <1>12 DEF Drain, Revoke, Expire
  <2>2. \A t \in Sessions : sess'[t].pc = sess[t].pc
    BY <1>2, <1>12 DEF Drain, Revoke, Expire, SessFields
  <2> QED BY <1>3, <2>1, <2>2
<1>13. \A s \in Sessions, p \in Partitions : ~OpenStream(s, p) BY DEF OpenStream, WebSocketHost
<1> QED BY <1>4, <1>5, <1>6, <1>7, <1>8, <1>9, <1>10, <1>11, <1>12, <1>13 DEF Next, SessionStep, CallStep

\* Every step keeps the holders, the bound and the stores.
LEMMA HostNext ==
  ASSUME WebSocketHost, OwnInv, HostInv, [Next]_vars
  PROVE  HostInv'
<1>1. CASE UNCHANGED vars
  <2>1. SameEntries /\ bucket' = bucket /\ CallsKeep BY <1>1 DEF vars, SameEntries, CallsKeep
  <2> QED BY <2>1, SameDrops, HostDrops DEF OwnInv
<1>2. \A s \in Sessions, p \in Partitions : ~OpenStream(s, p) BY DEF OpenStream, WebSocketHost
<1>3. CASE \E s \in Sessions : \/ SessionStep(s) \/ Authorize(s) \/ HandshakeFails(s)
                               \/ Process(s) \/ Break(s)
                               \/ \E i \in Pending(s) : ForwarderTimeout(s, i)
  BY <1>3, HostQuiet, HostResolves, HostTakes, HostResubmits, HostStashes DEF SessionStep
<1>4. CASE \E c \in Calls : CallStep(c) \/ CallTimeout(c)
  BY <1>4, HostCall, HostStarts DEF CallStep
<1>5. CASE Drain \/ Revoke \/ \E p \in Partitions : Expire(p) BY <1>5, HostOther
<1> QED BY <1>1, <1>2, <1>3, <1>4, <1>5 DEF Next

\* At the start nothing is held.
LEMMA HostInit ==
  ASSUME WebSocketHost, Init
  PROVE  HostInv /\ CountExact
<1>1. /\ \A s \in Sessions : /\ sess[s].pending = [i \in {} |-> 0] /\ sess[s].pc = "none"
                             /\ sess[s].todo = [p \in Partitions |-> <<>>]
      /\ bucket = [p \in Partitions |-> <<>>] /\ count = 0
      /\ \A c \in Calls : call[c].pc = "new"
  BY DEF Init, NoSession, NewCall
<1>2. \A s \in Sessions : Pending(s) = {} BY <1>1 DEF Pending
<1>3. Stores
  <2>1. [p \in Partitions |-> <<>>] \in [Partitions -> Seq(Batches)] OBVIOUS
  <2> QED BY <1>1, <1>2, <2>1 DEF Stores
<1>4. \A s \in Sessions, i \in Nat, c \in Calls : ~Entry(s, i, c) BY <1>2 DEF Entry
<1>5. \A s \in Places, p \in Partitions : Queue(s, p) = <<>>
  BY <1>1 DEF Queue, Places, Sessions, WebSocketHost
<1>6. \A s \in Places, p \in Partitions, k \in Nat, c \in Calls : ~At(s, p, k, c) BY <1>5 DEF At
<1>7. HoldInv BY <1>1, <1>4, <1>6 DEF HoldInv, OneHolder, Held, Parked
<1>8. ASSUME NEW s \in Sessions PROVE Bound(s)
  <2>1. \A b : ~InStash(s, b) BY <1>1 DEF InStash
  <2>2. Stashed(s) = {} BY <1>3, <2>1, StashedIs
  <2> QED BY <1>2, <2>2, FS_EmptySet DEF Bound, WebSocketHost
<1>9. CountExact
  <2>1. {s \in Sessions : sess[s].pc \in {"replay", "read", "stashed"}} = {} BY <1>1
  <2> QED BY <1>1, <2>1, FS_EmptySet DEF CountExact
<1> QED BY <1>3, <1>7, <1>8, <1>9 DEF HostInv

\* The holders of a call, as places.
LEMMA HoldersAre ==
  ASSUME Stores, NEW c
  PROVE  \A x : x \in Holders(c) <=>
           \/ \E p \in Partitions, k \in Nat : At(0, p, k, c) /\ x = <<0, p, k>>
           \/ \E s \in Sessions, p \in Partitions : \E k \in 1 .. Len(sess[s].todo[p]) :
                sess[s].todo[p][k].of = c /\ x = <<s, p, k>>
           \/ \E s \in Sessions : \E i \in Pending(s) : Entry(s, i, c) /\ x = <<s, i>>
<1> DEFINE In(q) == {k \in DOMAIN q : q[k].of = c}
           A == UNION {{<<0, p, k>> : k \in In(bucket[p])} : p \in Partitions}
           B == UNION {{<<s, p, k>> : k \in In(sess[s].todo[p])} : s \in Sessions, p \in Partitions}
           C == UNION {{<<s, i>> : i \in {j \in Pending(s) : sess[s].pending[j] = c}} : s \in Sessions}
<1>1. Holders(c) = A \cup B \cup C BY DEF Holders
<1>2. \A p \in Partitions : In(bucket[p]) = {k \in Nat : At(0, p, k, c)}
  <2>1. \A p \in Partitions : bucket[p] \in Seq(Batches) BY DEF Stores
  <2> QED BY <2>1 DEF At, Queue
<1>3. \A s \in Sessions, p \in Partitions :
        In(sess[s].todo[p]) = {k \in 1 .. Len(sess[s].todo[p]) : sess[s].todo[p][k].of = c}
  <2>1. \A s \in Sessions, p \in Partitions : sess[s].todo[p] \in Seq(Batches) BY DEF Stores
  <2> QED BY <2>1
<1> HIDE DEF In
<1>4. \A x : x \in A <=> \E p \in Partitions : \E k \in In(bucket[p]) : x = <<0, p, k>> OBVIOUS
<1>5. \A x : x \in B <=> \E s \in Sessions, p \in Partitions : \E k \in In(sess[s].todo[p]) : x = <<s, p, k>>
  <2> SUFFICES ASSUME NEW x
               PROVE  x \in B <=> \E s \in Sessions, p \in Partitions :
                                   \E k \in In(sess[s].todo[p]) : x = <<s, p, k>>
    OBVIOUS
  <2> DEFINE D(s, p) == {<<s, p, k>> : k \in In(sess[s].todo[p])}
  <2>1. B = UNION {D(s, p) : s \in Sessions, p \in Partitions} OBVIOUS
  <2>2. \A s, p : x \in D(s, p) <=> \E k \in In(sess[s].todo[p]) : x = <<s, p, k>> OBVIOUS
  <2> HIDE DEF B, D
  <2>3. x \in B <=> \E s \in Sessions, p \in Partitions : x \in D(s, p) BY <2>1
  <2> QED BY <2>2, <2>3
<1>6. \A x : x \in C <=> \E s \in Sessions : \E i \in Pending(s) : Entry(s, i, c) /\ x = <<s, i>>
  BY DEF Entry
<1> HIDE DEF A, B, C
<1>7. \A x : x \in A <=> \E p \in Partitions, k \in Nat : At(0, p, k, c) /\ x = <<0, p, k>>
  BY <1>2, <1>4
<1>8. \A x : x \in B <=> \E s \in Sessions, p \in Partitions : \E k \in 1 .. Len(sess[s].todo[p]) :
                           sess[s].todo[p][k].of = c /\ x = <<s, p, k>>
  BY <1>3, <1>5
<1> QED BY <1>1, <1>6, <1>7, <1>8

\* A caller that is parked has one holder.
LEMMA WaiterIsHeld ==
  ASSUME WebSocketHost, Shape, HostInv
  PROVE  WaiterHeld
<1> SUFFICES ASSUME NEW c \in Calls, call[c].pc \in Parked PROVE Cardinality(Holders(c)) = 1
  BY DEF WaiterHeld, Parked
<1>1. OneHolder(c) /\ Held(c) /\ Stores BY DEF HostInv, HoldInv
<1>2. 0 \notin Sessions /\ Sessions \subseteq Nat /\ Places = {0} \cup Sessions
  BY DEF Sessions, Places, WebSocketHost
<1>3. \A x : x \in Holders(c) <=>
         \/ \E t \in Places, p \in Partitions, k \in Nat : At(t, p, k, c) /\ x = <<t, p, k>>
         \/ \E s \in Sessions, i \in Nat : Entry(s, i, c) /\ x = <<s, i>>
  <2>1. \A x : (\E s \in Sessions, p \in Partitions : \E k \in 1 .. Len(sess[s].todo[p]) :
                   sess[s].todo[p][k].of = c /\ x = <<s, p, k>>)
                <=> \E s \in Sessions, p \in Partitions, k \in Nat : At(s, p, k, c) /\ x = <<s, p, k>>
    BY <1>1, <1>2 DEF At, Queue, Stores
  <2>2. \A x : (\E s \in Sessions : \E i \in Pending(s) : Entry(s, i, c) /\ x = <<s, i>>)
                <=> \E s \in Sessions, i \in Nat : Entry(s, i, c) /\ x = <<s, i>>
    BY DEF Entry, Shape
  <2> QED BY <1>1, <1>2, <2>1, <2>2, HoldersAre
<1>4. \E x : Holders(c) = {x}
  <2>1. ASSUME NEW s \in Sessions, NEW i \in Nat, Entry(s, i, c) PROVE Holders(c) = {<<s, i>>}
    BY <1>1, <1>3, <2>1 DEF OneHolder
  <2>2. ASSUME NEW t \in Places, NEW p \in Partitions, NEW k \in Nat, At(t, p, k, c)
        PROVE  Holders(c) = {<<t, p, k>>}
    BY <1>1, <1>3, <2>2 DEF OneHolder
  <2> QED BY <1>1, <2>1, <2>2 DEF Held
<1> QED BY <1>4, FS_Singleton

\* Of any number of calls and reconnections of the WebSocket host: a caller
\* gets the outputs of its own batch, whoever waits is held by one entry, the
\* semaphore bounds what is outstanding, and the connections are counted.
THEOREM HostServesCallers ==
  ASSUME WebSocketHost
  PROVE  Spec => []CallersServed
<1>1. Init => OwnInv /\ HostInv /\ CountExact BY OwnInit, HostInit
<1>2. OwnInv /\ HostInv /\ CountExact /\ [Next]_vars => (OwnInv /\ HostInv /\ CountExact)'
  BY OwnNext, HostNext, CountStays DEF OwnInv
<1>3. OwnInv /\ HostInv /\ CountExact => CallersServed
  BY WaiterIsHeld DEF OwnInv, HostInv, Bound, InflightBounded, CallersServed
<1> QED BY <1>1, <1>2, <1>3, PTL DEF Spec
=============================================================================
