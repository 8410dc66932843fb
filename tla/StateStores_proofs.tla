------------------------- MODULE StateStores_proofs -------------------------
(***************************************************************************)
(* What a single user gets from the state stores: the last answered write  *)
(* from the tiered store, the plain map of StateMap from the tiered store  *)
(* and from the encrypting wrapper of L3, and the last acknowledged entry  *)
(* of every key from the mapped file of L2, across compactions, restarts   *)
(* and appends that fail half-way. For any keys and values, any threshold, *)
(* any errors, restarts, rotations, compactions and clears.                *)
(***************************************************************************)
EXTENDS TieredStore, Sequences, FiniteSetTheorems, WellFoundedInduction, TLAPS

CONSTANTS MaxKek, TornSidecar, Long, TailKey, MaxWrites, MaxCompacts
VARIABLES inner, sidecar, cipher, handle, req, ans, disk, path, write_pos, index, count, used

\* The encrypting wrapper, over the same keys and values.
Sealed == INSTANCE EncryptedL3

\* The mapped file that holds L2, over the same keys and values.
Mm == INSTANCE MmapStore

---------------------------------------------------------------------------
(* The tiered store.                                                         *)

\* The configurations in which the tiers agree: restarts with L3 and without
\* L2, clears without L3.
Configured ==
  /\ MaxRestarts = 0 \/ (L3On /\ ~L2On)
  /\ MaxClears = 0 \/ ~L3On

\* The operations that have changed a tier and are not answered yet.
Changing(c, k) ==
  \/ /\ op[c].key = k
     /\ \/ op[c].kind = "put" /\ op[c].pc = "l3"
        \/ op[c].kind = "delete" /\ op[c].pc \in {"l2", "l3"}
  \/ op[c].kind = "clear"

\* L3 holds something the answers allow, whatever L1 and L2 hold.
Held == L3On => \A k \in Keys : l3[k] \in acked[k]

\* So does the first tier that has the key, unless the key is being changed.
Seen == \A k \in Keys : (\A c \in Clients : ~Changing(c, k)) => View(k) \in acked[k]

\* What an operation has found or done so far is still so.
Progress ==
  \A c \in Clients :
    LET k == op[c].key  v == op[c].val  at(kind, pcs) == op[c].kind = kind /\ op[c].pc \in pcs IN
    /\ op[c].kind = "none" => op[c] = NoOp
    /\ op[c].kind \in {"get", "put", "delete"} => k \in Keys
    /\ op[c].kind = "get" => op[c].pc \in {"l1", "l2", "l3", "promote", "return"}
    /\ op[c].kind = "put" => op[c].pc \in {"l1", "l3"} /\ v \in Vals
    /\ op[c].kind = "delete" => op[c].pc \in {"l1", "l2", "l3"} /\ v = Nothing
    /\ op[c].kind = "demote" => op[c].pc \in {"pick", "l2", "l1", "check"} /\ L2On
    /\ op[c].kind = "clear" => op[c].pc = "l2" /\ ~L3On /\ l1 = Empty
    /\ at("get", {"l2", "l3", "promote"}) => l1[k] = Nothing
    /\ at("get", {"l3"}) => ~L2On \/ l2[k] = Nothing
    /\ at("get", {"promote"}) => v = View(k) /\ v # Nothing
    /\ at("put", {"l3"}) => l1[k] = v
    /\ at("delete", {"l2", "l3"}) => l1[k] = Nothing
    /\ at("delete", {"l3"}) => ~L2On \/ l2[k] = Nothing
    /\ at("demote", {"l2", "l1"}) => k \in Keys /\ v = l1[k] /\ v # Nothing
    /\ at("demote", {"l1"}) => l2[k] = v

IInv == TypeOK /\ Held /\ Seen /\ Progress

---------------------------------------------------------------------------

LEMMA InitIInv == Init => IInv
  BY TieredAssumption DEF Init, IInv, TypeOK, Held, Seen, Progress, View, Changing, Empty, NoOp, Op, Values

---------------------------------------------------------------------------

\* Types are kept, whatever the number of clients.
LEMMA TypeStep ==
  ASSUME TypeOK, [Next]_vars
  PROVE  TypeOK'
<1> USE TieredAssumption DEF TypeOK, Values, NoOp, Op, Become, With
<1>1. ASSUME NEW c \in Clients, Step(c) PROVE TypeOK'
  <2>1. CASE GetL1(c) BY <2>1 DEF GetL1, Return, Goto, Kind
  <2>2. CASE GetL2(c) BY <2>2 DEF GetL2, Goto, Kind
  <2>3. CASE GetL3(c) BY <2>3 DEF GetL3, Return, Kind, Fault
  <2>4. CASE Promote(c) BY <2>4 DEF Promote, Goto, Kind
  <2>5. CASE GetReturns(c) BY <2>5 DEF GetReturns, Finish
  <2>6. CASE PutL1(c) BY <2>6 DEF PutL1, Goto, Kind
  <2>7. CASE PutL3(c) BY <2>7 DEF PutL3, Finish, Kind, Fault
  <2>8. CASE DeleteL1(c) BY <2>8 DEF DeleteL1, Goto, Kind
  <2>9. CASE DeleteL2(c) BY <2>9 DEF DeleteL2, Goto, Kind
  <2>10. CASE DeleteL3(c) BY <2>10 DEF DeleteL3, Finish, Kind, Fault
  <2>11. CASE StartDemote(c) BY <2>11 DEF StartDemote
  <2>12. CASE DemoteRead(c)
    <3>1. CASE Finish(c) BY <2>12, <3>1 DEF DemoteRead, Finish
    <3>2. ASSUME NEW k \in op[c].todo,
                 Become(c, Op("demote", IF l1[k] # Nothing THEN "l2" ELSE "pick", k, l1[k],
                              op[c].todo \ {k}))
          PROVE  TypeOK'
      <4>1. k \in Keys /\ l1[k] \in Values /\ op[c].todo \ {k} \in SUBSET Keys OBVIOUS
      <4>2. CASE l1[k] # Nothing BY <2>12, <3>2, <4>1, <4>2 DEF DemoteRead
      <4>3. CASE l1[k] = Nothing BY <2>12, <3>2, <4>1, <4>3 DEF DemoteRead
      <4> QED BY <4>2, <4>3
    <3> QED BY <2>12, <3>1, <3>2 DEF DemoteRead
  <2>13. CASE DemoteWrite(c) BY <2>13 DEF DemoteWrite, Goto, Kind
  <2>14. CASE DemoteRemove(c) BY <2>14 DEF DemoteRemove, Goto, Kind
  <2>15. CASE DemoteCheck(c) BY <2>15 DEF DemoteCheck, Goto, Finish, Kind
  <2>16. CASE ClearL1(c) BY <2>16 DEF ClearL1, Empty
  <2>17. CASE ClearL2(c) BY <2>17 DEF ClearL2, Empty, Finish, Kind
  <2> QED BY <1>1, <2>1, <2>2, <2>3, <2>4, <2>5, <2>6, <2>7, <2>8, <2>9, <2>10, <2>11, <2>12,
              <2>13, <2>14, <2>15, <2>16, <2>17 DEF Step
<1>2. ASSUME NEW c \in Clients, NEW k \in Keys,
             AskGet(c, k) \/ AskDelete(c, k) \/ \E v \in Vals : AskPut(c, k, v)
      PROVE  TypeOK'
  BY <1>2 DEF AskGet, AskDelete, AskPut
<1>3. CASE Restart
  <2>1. l1' \in [Keys -> Values] /\ UNCHANGED <<l2, l3, faults, clears>> /\ restarts' \in Nat
    BY <1>3 DEF Restart, Empty
  <2>2. \A c \in Clients : op'[c] = NoOp /\ op[c].val \in Values
    BY <1>3 DEF Restart
  <2>3. op' \in [Clients -> [kind : {"none", "get", "put", "delete", "demote", "clear"},
                            pc : {"idle", "l1", "l2", "l3", "promote", "return", "pick", "check"},
                            key : Keys \cup {Nothing}, val : Values, todo : SUBSET Keys]]
    BY <1>3, <2>2 DEF Restart
  <2>4. acked' \in [Keys -> SUBSET Values]
    BY <1>3, <2>2 DEF Restart
  <2> QED BY <2>1, <2>2, <2>3, <2>4
<1>4. CASE UNCHANGED vars BY <1>4 DEF vars
<1> QED BY <1>1, <1>2, <1>3, <1>4 DEF Next
---------------------------------------------------------------------------

\* A step of the only client keeps what the tiers hold within the answers.
LEMMA ClientStep ==
  ASSUME NEW c, Clients = {c}, Configured, IInv, TypeOK', Step(c)
  PROVE  Held' /\ Seen' /\ Progress'
<1> USE TieredAssumption DEF IInv, TypeOK, Held, Seen, Progress, View, Changing, Values, NoOp, Op, Become
<1>1. CASE GetL1(c) BY <1>1 DEF GetL1, Return, With, Goto, Kind
<1>2. CASE GetL2(c) BY <1>2 DEF GetL2, With, Goto, Kind
<1>3. CASE GetL3(c) BY <1>3 DEF GetL3, Return, With, Kind, Fault
<1>4. CASE Promote(c) BY <1>4 DEF Promote, Goto, Kind
<1>5. CASE GetReturns(c) BY <1>5 DEF GetReturns, Finish, Kind
<1>6. CASE PutL1(c) BY <1>6 DEF PutL1, Goto, Kind
<1>7. CASE PutL3(c) BY <1>7 DEF PutL3, Finish, Kind, Fault
<1>8. CASE DeleteL1(c) BY <1>8 DEF DeleteL1, Goto, Kind
<1>9. CASE DeleteL2(c) BY <1>9 DEF DeleteL2, Goto, Kind
<1>10. CASE DeleteL3(c) BY <1>10 DEF DeleteL3, Finish, Kind, Fault
<1>11. CASE StartDemote(c) BY <1>11 DEF StartDemote
<1>12. CASE DemoteRead(c)
  <2>1. CASE Finish(c) BY <1>12, <2>1 DEF DemoteRead, Finish, Kind
  <2>2. ASSUME NEW k \in op[c].todo,
               Become(c, Op("demote", IF l1[k] # Nothing THEN "l2" ELSE "pick", k, l1[k],
                            op[c].todo \ {k}))
        PROVE  Held' /\ Seen' /\ Progress'
    <3>1. CASE l1[k] # Nothing BY <1>12, <2>2, <3>1 DEF DemoteRead, Kind
    <3>2. CASE l1[k] = Nothing BY <1>12, <2>2, <3>2 DEF DemoteRead, Kind
    <3> QED BY <3>1, <3>2
  <2> QED BY <1>12, <2>1, <2>2 DEF DemoteRead
<1>13. CASE DemoteWrite(c) BY <1>13 DEF DemoteWrite, Goto, Kind
<1>14. CASE DemoteRemove(c) BY <1>14 DEF DemoteRemove, Goto, Kind
<1>15. CASE DemoteCheck(c) BY <1>15 DEF DemoteCheck, Goto, Finish, Kind
<1>16. CASE ClearL1(c)
  <2>1. ~L3On BY <1>16 DEF ClearL1, Configured
  <2> QED BY <1>16, <2>1 DEF ClearL1, Empty
<1>17. CASE ClearL2(c) BY <1>17 DEF ClearL2, Empty, Finish, Kind
<1> QED BY <1>1, <1>2, <1>3, <1>4, <1>5, <1>6, <1>7, <1>8, <1>9, <1>10, <1>11, <1>12, <1>13, <1>14, <1>15, <1>16, <1>17 DEF Step

\* A request changes no tier.
LEMMA AskStep ==
  ASSUME NEW c, Clients = {c}, IInv, NEW k \in Keys,
         AskGet(c, k) \/ AskDelete(c, k) \/ \E v \in Vals : AskPut(c, k, v)
  PROVE  Held' /\ Seen' /\ Progress'
<1> USE TieredAssumption DEF IInv, TypeOK, Held, Seen, Progress, View, Changing, Values, NoOp, Op, Become
<1>1. CASE AskGet(c, k) BY <1>1 DEF AskGet
<1>2. CASE AskDelete(c, k) BY <1>2 DEF AskDelete
<1>3. ASSUME NEW v \in Vals, AskPut(c, k, v) PROVE Held' /\ Seen' /\ Progress'
  BY <1>3 DEF AskPut
<1> QED BY <1>1, <1>2, <1>3

\* After a restart there is L3 only, and it holds what the answers allow.
LEMMA RestartStep ==
  ASSUME Configured, IInv, Restart
  PROVE  Held' /\ Seen' /\ Progress'
<1>1. L3On /\ ~L2On BY TieredAssumption DEF Configured, Restart, IInv, TypeOK
<1>2. Held' BY <1>1 DEF Restart, IInv, Held
<1>3. Seen' BY <1>1, <1>2, TieredAssumption DEF Restart, Held, Seen, View, Empty
<1>4. Progress' BY DEF Restart, Progress, NoOp, Op
<1> QED BY <1>2, <1>3, <1>4

LEMMA NextStep ==
  ASSUME NEW c, Clients = {c}, Configured, IInv, [Next]_vars
  PROVE  IInv'
<1>1. TypeOK' BY TypeStep DEF IInv
<1>2. CASE Step(c) BY <1>1, <1>2, ClientStep DEF IInv
<1>3. CASE \E k \in Keys : AskGet(c, k) \/ AskDelete(c, k) \/ \E v \in Vals : AskPut(c, k, v)
  BY <1>1, <1>3, AskStep DEF IInv
<1>4. CASE Restart BY <1>1, <1>4, RestartStep DEF IInv
<1>5. CASE UNCHANGED vars
  BY <1>1, <1>5 DEF vars, IInv, Held, Seen, Progress, View, Changing
<1> QED BY <1>2, <1>3, <1>4, <1>5 DEF Next

\* Types, for any number of clients.
THEOREM TypeCorrect == Spec => []TypeOK
<1>1. Init => TypeOK BY InitIInv DEF IInv
<1>2. TypeOK /\ [Next]_vars => TypeOK' BY TypeStep
<1> QED BY <1>1, <1>2, PTL DEF Spec

\* get, put, delete, demote_to_l2 and clear of one client, with any errors of
\* L3, and restarts where L2 is off: a read finds the last answered write.
THEOREM ReadsCorrect ==
  ASSUME NEW c, Clients = {c}, Configured
  PROVE  Spec => []ReadsLastWrite
<1>1. IInv /\ [Next]_vars => IInv' BY NextStep
<1>2. IInv => ReadsLastWrite
  BY DEF IInv, Seen, Changing, ReadsLastWrite, NoOp, Op
<1> QED BY <1>1, <1>2, InitIInv, PTL DEF Spec

---------------------------------------------------------------------------
(* The tiered store implements StateMap.                                     *)

\* A client of its own, whose store neither fails, restarts nor is cleared.
Undisturbed == MaxRestarts = 0 /\ MaxFaults = 0 /\ MaxClears = 0

\* Then no clear is ever under way.
NeverCleared == \A c \in Clients : op[c].kind # "clear"

LEMMA TiersInit ==
  ASSUME NEW c, Clients = {c}, Init
  PROVE  StateOps!Init
<1>1. Client = c BY DEF Client
<1>2. MapView = [k \in Keys |-> Nothing] BY <1>1 DEF Init, MapView, View, Empty, NoOp, Op
<1>3. Asked = StateOps!Idle BY <1>1 DEF Init, Asked, StateOps!Idle, NoOp, Op
<1>4. Answered = StateOps!Pending BY <1>1 DEF Init, Answered, StateOps!Pending, NoOp, Op
<1> QED BY <1>2, <1>3, <1>4 DEF StateOps!Init

\* What the three views are, by the operation under way.
Views(c) ==
  LET o == op[c]  at(kinds) == op[c].kind \in kinds IN
  /\ at({"get"}) => Asked = [kind |-> "get", key |-> o.key]
  /\ at({"put"}) => Asked = [kind |-> "put", key |-> o.key, val |-> o.val]
  /\ at({"delete"}) => Asked = [kind |-> "delete", key |-> o.key]
  /\ ~at({"get", "put", "delete"}) => Asked = StateOps!Idle /\ Answered = StateOps!Pending
  /\ at({"get"}) =>
       Answered = IF o.pc = "return" THEN StateOps!Answer(o.val) ELSE StateOps!Pending
  /\ at({"put", "delete"}) =>
       Answered = IF o.pc # "l1" THEN StateOps!Answer(Nothing) ELSE StateOps!Pending
  /\ MapView = [k \in Keys |-> IF at({"delete"}) /\ o.key = k /\ o.pc # "l1"
                               THEN Nothing ELSE View(k)]

LEMMA ViewsHold ==
  ASSUME NEW c, Clients = {c}
  PROVE  Views(c) /\ Views(c)'
<1>1. Client = c BY DEF Client
<1> QED
  BY <1>1 DEF Views, Asked, Answered, MapView, StateOps!Idle, StateOps!Pending, StateOps!Answer

\* A step of the client is a step of the map or leaves it as it is: a put
\* takes effect in L1, a delete when it leaves L1, a get when it is answered.
LEMMA TiersStep ==
  ASSUME NEW c, Clients = {c}, Undisturbed, IInv, NeverCleared, Step(c)
  PROVE  [StateOps!Next]_<<MapView, Asked, Answered>>
<1>0. Views(c) /\ Views(c)' BY ViewsHold
<1>1. op[c] \in [kind : {"none", "get", "put", "delete", "demote", "clear"},
                 pc : {"idle", "l1", "l2", "l3", "promote", "return", "pick", "check"},
                 key : Keys \cup {Nothing}, val : Values, todo : SUBSET Keys]
  BY DEF IInv, TypeOK
<1>a. ASSUME op[c].kind = "get", op'[c].kind = "get", op'[c].key = op[c].key,
             op[c].pc # "return", op'[c].pc # "return"
      PROVE  Asked' = Asked /\ Answered' = Answered
  BY <1>0, <1>a DEF Views, StateOps!Pending
<1>b. ASSUME op[c].kind \in {"none", "demote"}, op'[c].kind \in {"none", "demote"}
      PROVE  Asked' = Asked /\ Answered' = Answered
  BY <1>0, <1>b DEF Views, StateOps!Pending, StateOps!Idle
<1> USE TieredAssumption, <1>0, <1>1
    DEF Views, IInv, TypeOK, Progress, View, NoOp, Op, Become, With, Kind,
        StateOps!Idle, StateOps!Pending, StateOps!Answer
<1>2. CASE GetL1(c)
  <2>1. CASE l1[op[c].key] # Nothing
    <3>1. StateOps!Effect BY <1>2, <2>1 DEF GetL1, Return, StateOps!Effect
    <3> QED BY <3>1 DEF StateOps!Next
  <2>2. CASE l1[op[c].key] = Nothing
    <3>1. MapView' = MapView BY <1>2, <2>2 DEF GetL1, Goto
    <3>2. /\ op[c].kind = "get" /\ op'[c].kind = "get" /\ op'[c].key = op[c].key
          /\ op[c].pc # "return" /\ op'[c].pc # "return"
      BY <1>2, <2>2 DEF GetL1, Goto
    <3> QED BY <1>a, <3>1, <3>2
  <2> QED BY <2>1, <2>2
<1>3. CASE GetL2(c)
  <2>1. MapView' = MapView BY <1>3 DEF GetL2, Goto
  <2>2. /\ op[c].kind = "get" /\ op'[c].kind = "get" /\ op'[c].key = op[c].key
        /\ op[c].pc # "return" /\ op'[c].pc # "return"
    BY <1>3 DEF GetL2, Goto
  <2> QED BY <1>a, <2>1, <2>2
<1>4. CASE GetL3(c)
  <2>1. CASE L3On /\ l3[op[c].key] # Nothing
    <3>1. MapView' = MapView BY <1>4, <2>1 DEF GetL3, Fault, Undisturbed
    <3>2. /\ op[c].kind = "get" /\ op'[c].kind = "get" /\ op'[c].key = op[c].key
          /\ op[c].pc # "return" /\ op'[c].pc # "return"
      BY <1>4, <2>1 DEF GetL3, Fault, Undisturbed
    <3> QED BY <1>a, <3>1, <3>2
  <2>2. CASE ~(L3On /\ l3[op[c].key] # Nothing)
    <3>1. StateOps!Effect BY <1>4, <2>2 DEF GetL3, Return, Fault, Undisturbed, StateOps!Effect
    <3> QED BY <3>1 DEF StateOps!Next
  <2> QED BY <2>1, <2>2
<1>5. CASE Promote(c)
  <2>1. StateOps!Effect BY <1>5 DEF Promote, Goto, StateOps!Effect
  <2> QED BY <2>1 DEF StateOps!Next
<1>6. CASE GetReturns(c)
  <2>1. StateOps!Return BY <1>6 DEF GetReturns, Finish, StateOps!Return
  <2> QED BY <2>1 DEF StateOps!Next
<1>7. CASE PutL1(c)
  <2>1. MapView' = [MapView EXCEPT ![op[c].key] = op[c].val] BY <1>7 DEF PutL1, Goto
  <2>2. /\ op[c].kind = "put" /\ op[c].pc = "l1"
        /\ op'[c].kind = "put" /\ op'[c].pc = "l3"
        /\ op'[c].key = op[c].key /\ op'[c].val = op[c].val
    BY <1>7 DEF PutL1, Goto
  <2>3. Asked' = Asked /\ Asked = [kind |-> "put", key |-> op[c].key, val |-> op[c].val] BY <2>2
  <2>4. ~Answered.done /\ Answered' = StateOps!Answer(Nothing) BY <2>2
  <2>5. StateOps!Effect BY <2>1, <2>3, <2>4 DEF StateOps!Effect
  <2> QED BY <2>5 DEF StateOps!Next
<1>8. CASE PutL3(c)
  <2>1. StateOps!Return BY <1>8 DEF PutL3, Fault, Undisturbed, Finish, StateOps!Return
  <2> QED BY <2>1 DEF StateOps!Next
<1>9. CASE DeleteL1(c)
  <2>1. StateOps!Effect BY <1>9 DEF DeleteL1, Goto, StateOps!Effect
  <2> QED BY <2>1 DEF StateOps!Next
<1>10. CASE DeleteL2(c) BY <1>10 DEF DeleteL2, Goto
<1>11. CASE DeleteL3(c)
  <2>1. StateOps!Return BY <1>11 DEF DeleteL3, Fault, Undisturbed, Finish, StateOps!Return
  <2> QED BY <2>1 DEF StateOps!Next
<1>12. CASE StartDemote(c)
  <2>1. MapView' = MapView BY <1>12 DEF StartDemote
  <2>2. op[c].kind \in {"none", "demote"} /\ op'[c].kind \in {"none", "demote"}
    BY <1>12 DEF StartDemote
  <2> QED BY <1>b, <2>1, <2>2
<1>13. CASE DemoteRead(c)
  <2>1. MapView' = MapView BY <1>13 DEF DemoteRead, Finish
  <2>2. op[c].kind \in {"none", "demote"} /\ op'[c].kind \in {"none", "demote"}
    BY <1>13 DEF DemoteRead, Finish
  <2> QED BY <1>b, <2>1, <2>2
<1>14. CASE DemoteWrite(c)
  <2>1. MapView' = MapView BY <1>14 DEF DemoteWrite, Goto
  <2>2. Asked' = Asked /\ Answered' = Answered BY <1>14 DEF DemoteWrite, Goto
  <2> QED BY <2>1, <2>2
<1>15. CASE DemoteRemove(c)
  <2>1. MapView' = MapView BY <1>15 DEF DemoteRemove, Goto
  <2>2. Asked' = Asked /\ Answered' = Answered BY <1>15 DEF DemoteRemove, Goto
  <2> QED BY <2>1, <2>2
<1>16. CASE DemoteCheck(c)
  <2>1. MapView' = MapView BY <1>16 DEF DemoteCheck, Goto, Finish
  <2>2. op[c].kind \in {"none", "demote"} /\ op'[c].kind \in {"none", "demote"}
    BY <1>16 DEF DemoteCheck, Goto, Finish
  <2> QED BY <1>b, <2>1, <2>2
<1>17. CASE ClearL1(c)
  <2>1. clears < 0 /\ clears \in Nat BY <1>17 DEF ClearL1, Undisturbed
  <2> QED BY <2>1
<1>18. CASE ClearL2(c) BY <1>18 DEF ClearL2, NeverCleared
<1> QED BY <1>2, <1>3, <1>4, <1>5, <1>6, <1>7, <1>8, <1>9, <1>10, <1>11, <1>12, <1>13, <1>14,
           <1>15, <1>16, <1>17, <1>18 DEF Step

LEMMA TiersAsk ==
  ASSUME NEW c, Clients = {c}, IInv, NEW k \in Keys,
         AskGet(c, k) \/ AskDelete(c, k) \/ \E v \in Vals : AskPut(c, k, v)
  PROVE  StateOps!Ask
<1>0. Views(c) /\ Views(c)' BY ViewsHold
<1> USE DEF NoOp, Op, Become
<1>1. op[c] = NoOp /\ op'[c].pc = "l1" /\ op'[c].kind \in {"get", "put", "delete"}
  BY DEF AskGet, AskDelete, AskPut, IInv, TypeOK
<1>2. l1' = l1 /\ l2' = l2 /\ l3' = l3 BY DEF AskGet, AskDelete, AskPut
<1>3. MapView' = MapView BY <1>0, <1>1, <1>2 DEF Views, View
<1>4. Asked = StateOps!Idle /\ Answered' = Answered
  <2>1. Asked = StateOps!Idle /\ Answered = StateOps!Pending BY <1>0, <1>1 DEF Views
  <2>2. Answered' = StateOps!Pending BY <1>0, <1>1 DEF Views, StateOps!Pending
  <2> QED BY <2>1, <2>2
<1>5. Asked' \in StateOps!Requests
  <2> USE <1>0 DEF Views, StateOps!Requests, IInv, TypeOK
  <2>1. CASE AskGet(c, k)
    <3>1. op'[c].kind = "get" /\ op'[c].key = k BY <2>1 DEF AskGet
    <3> QED BY <3>1
  <2>2. CASE AskDelete(c, k)
    <3>1. op'[c].kind = "delete" /\ op'[c].key = k BY <2>2 DEF AskDelete
    <3> QED BY <3>1
  <2>3. ASSUME NEW v \in Vals, AskPut(c, k, v) PROVE Asked' \in StateOps!Requests
    <3>1. op'[c].kind = "put" /\ op'[c].key = k /\ op'[c].val = v BY <2>3 DEF AskPut
    <3> QED BY <3>1
  <2> QED BY <2>1, <2>2, <2>3
<1> QED BY <1>3, <1>4, <1>5 DEF StateOps!Ask

LEMMA NoClearStep ==
  ASSUME NEW c, Clients = {c}, Undisturbed, IInv, NeverCleared, [Next]_vars
  PROVE  NeverCleared'
<1> USE TieredAssumption DEF NeverCleared, Undisturbed, IInv, TypeOK, NoOp, Op, Become, With, Goto, Return, Finish
<1>1. CASE Step(c)
  <2>1. CASE ClearL1(c)
    <3>1. clears < 0 /\ clears \in Nat BY <2>1 DEF ClearL1
    <3> QED BY <3>1
  <2> QED BY <1>1, <2>1 DEF Step, GetL1, GetL2, GetL3, Promote, GetReturns, PutL1, PutL3, DeleteL1,
        DeleteL2, DeleteL3, StartDemote, DemoteRead, DemoteWrite, DemoteRemove, DemoteCheck, ClearL2
<1>2. CASE \E k \in Keys : AskGet(c, k) \/ AskDelete(c, k) \/ \E v \in Vals : AskPut(c, k, v)
  BY <1>2 DEF AskGet, AskDelete, AskPut
<1>3. CASE Restart BY <1>3 DEF Restart
<1>4. CASE UNCHANGED vars BY <1>4 DEF vars
<1> QED BY <1>1, <1>2, <1>3, <1>4 DEF Next

\* TieredStateStore's get, put, delete and demote_to_l2, whichever of the lower
\* tiers are on: to one client they are the map that StateOps promises.
THEOREM TiersImplementMap ==
  ASSUME NEW c, Clients = {c}, Undisturbed
  PROVE  Spec => ImplementsMap
<1> DEFINE Inv == IInv /\ NeverCleared
<1>1. Init => Inv BY InitIInv DEF Init, NeverCleared, NoOp, Op
<1>2. Configured BY DEF Configured, Undisturbed
<1>3. Inv /\ [Next]_vars => Inv' BY <1>2, NextStep, NoClearStep
<1>4. Init => StateOps!Init BY TiersInit
<1>5. Inv /\ [Next]_vars => [StateOps!Next]_<<MapView, Asked, Answered>>
  <2> SUFFICES ASSUME Inv, [Next]_vars
               PROVE  [StateOps!Next]_<<MapView, Asked, Answered>>
    OBVIOUS
  <2>1. CASE Step(c) BY <2>1, TiersStep
  <2>2. CASE \E k \in Keys : AskGet(c, k) \/ AskDelete(c, k) \/ \E v \in Vals : AskPut(c, k, v)
    BY <2>2, TiersAsk DEF StateOps!Next
  <2>3. CASE Restart BY <2>3 DEF Restart, Undisturbed, IInv, TypeOK
  <2>4. CASE UNCHANGED vars
    BY <2>4 DEF vars, MapView, Asked, Answered, View
  <2> QED BY <2>1, <2>2, <2>3, <2>4 DEF Next
<1> QED BY <1>1, <1>3, <1>4, <1>5, PTL DEF Spec, ImplementsMap, StateOps!Spec

---------------------------------------------------------------------------
(* The encrypting wrapper implements StateMap.                               *)

\* Nothing is not an encrypted value.
SealedValues == Nothing \notin [dek : Nat, val : Vals]

\* Whatever the inner store holds was sealed with the data key that the
\* sidecar wraps, and so is the one in memory; a request finds one in memory.
OneDataKey ==
  /\ sidecar \in [kek : Nat, dek : Nat]
  /\ handle.active \in Nat \ {0}
  /\ inner \in [Keys -> {Nothing} \cup [dek : Nat \ {0}, val : Vals]]
  /\ \A k \in Keys : inner[k] # Nothing => sidecar.kek # 0 /\ inner[k].dek = sidecar.dek
  /\ cipher # 0 => sidecar.kek # 0 /\ cipher = sidecar.dek
  /\ req = Sealed!Map!Idle \/ (req \in Sealed!Map!Requests /\ cipher # 0)

LEMMA SealedInit == Sealed!Init => OneDataKey /\ Sealed!Map!Init
  BY DEF Sealed!Init, OneDataKey, Sealed!Map!Init, Sealed!NoSidecar

\* A fresh data key is made over an empty store only.
LEMMA FreshIsOne ==
  ASSUME OneDataKey, sidecar = Sealed!NoSidecar
  PROVE  Sealed!FreshDek = 1
<1>1. {k \in Keys : inner[k] # Nothing} = {} BY DEF OneDataKey, Sealed!NoSidecar
<1>2. Sealed!Cardinality({}) = Cardinality({}) BY DEF Sealed!Cardinality, Cardinality
<1> QED BY <1>1, <1>2, FS_EmptySet DEF Sealed!FreshDek

LEMMA SealedKeeps ==
  ASSUME SealedValues, OneDataKey, [Sealed!Next]_Sealed!vars
  PROVE  OneDataKey'
<1> USE DEF OneDataKey
<1>1. CASE Sealed!WrapExisting BY <1>1 DEF Sealed!WrapExisting, Sealed!Unwraps
<1>2. CASE Sealed!WrapNew
  BY <1>2, FreshIsOne DEF Sealed!WrapNew, Sealed!Wrap, Sealed!NoSidecar
<1>3. CASE Sealed!WrapTorn BY <1>3 DEF Sealed!WrapTorn, Sealed!NoSidecar, Sealed!Torn
<1>4. CASE Sealed!Ask BY <1>4 DEF Sealed!Ask
<1>5. CASE Sealed!Get BY <1>5 DEF Sealed!Get
<1>6. CASE Sealed!Put
  BY <1>6 DEF Sealed!Put, Sealed!Seal, Sealed!Map!Requests, Sealed!Map!Idle
<1>7. CASE Sealed!Delete BY <1>7 DEF Sealed!Delete
<1>8. CASE Sealed!Return BY <1>8 DEF Sealed!Return
<1>9. CASE Sealed!Restart BY <1>9 DEF Sealed!Restart
<1>10. CASE Sealed!Rotate BY <1>10 DEF Sealed!Rotate
<1>11. CASE UNCHANGED Sealed!vars BY <1>11 DEF Sealed!vars
<1> QED BY <1>1, <1>2, <1>3, <1>4, <1>5, <1>6, <1>7, <1>8, <1>9, <1>10, <1>11 DEF Sealed!Next

\* What the inner store is a map of.
Opened == [k \in Keys |-> IF inner[k] = Nothing THEN Nothing ELSE inner[k].val]

\* The user's requests are the map's; wrapping, a restart and a rotation leave
\* the map as it is.
LEMMA SealedStep ==
  ASSUME SealedValues, OneDataKey, [Sealed!Next]_Sealed!vars
  PROVE  [Sealed!Map!Next]_<<Opened, req, ans>>
<1>1. ASSUME inner' = inner PROVE Opened' = Opened BY <1>1 DEF Opened
<1> USE DEF OneDataKey
<1>2. CASE Sealed!WrapExisting BY <1>1, <1>2 DEF Sealed!WrapExisting
<1>3. CASE Sealed!WrapNew BY <1>1, <1>3 DEF Sealed!WrapNew
<1>4. CASE Sealed!WrapTorn BY <1>1, <1>4 DEF Sealed!WrapTorn
<1>5. CASE Sealed!Ask
  BY <1>1, <1>5 DEF Sealed!Ask, Opened, Sealed!Map!Ask, Sealed!Map!Next
<1>6. CASE Sealed!Get
  <2>1. req.key \in Keys /\ req # Sealed!Map!Idle /\ cipher # 0
    BY <1>6 DEF Sealed!Get, Sealed!Map!Requests, Sealed!Map!Idle
  <2>2. ans' = Sealed!Map!Answer(Opened[req.key])
    BY <1>6, <2>1 DEF Sealed!Get, Sealed!OpenSealed, Opened
  <2>3. Sealed!Map!Effect
    BY <1>1, <1>6, <2>1, <2>2 DEF Sealed!Get, Opened, Sealed!Map!Effect
  <2> QED BY <2>3 DEF Sealed!Map!Next
<1>7. CASE Sealed!Put
  <2>1. req.key \in Keys /\ req.val \in Vals /\ req # Sealed!Map!Idle /\ cipher # 0
    BY <1>7 DEF Sealed!Put, Sealed!Map!Requests, Sealed!Map!Idle
  <2>2. Sealed!Seal(req.val) \in [dek : Nat, val : Vals] /\ Sealed!Seal(req.val).val = req.val
    BY <2>1 DEF Sealed!Seal
  <2>3. Opened' = [Opened EXCEPT ![req.key] = req.val]
    BY <1>7, <2>1, <2>2 DEF Sealed!Put, Opened, SealedValues
  <2>4. Sealed!Map!Effect
    BY <1>7, <2>1, <2>3 DEF Sealed!Put, Opened, Sealed!Map!Effect
  <2> QED BY <2>4 DEF Sealed!Map!Next
<1>8. CASE Sealed!Delete
  <2>1. req.key \in Keys /\ req # Sealed!Map!Idle
    BY <1>8 DEF Sealed!Delete, Sealed!Map!Requests, Sealed!Map!Idle
  <2>2. Opened' = [Opened EXCEPT ![req.key] = Nothing]
    BY <1>8, <2>1 DEF Sealed!Delete, Opened
  <2>3. Sealed!Map!Effect
    BY <1>8, <2>1, <2>2 DEF Sealed!Delete, Opened, Sealed!Map!Effect
  <2> QED BY <2>3 DEF Sealed!Map!Next
<1>9. CASE Sealed!Return
  BY <1>1, <1>9 DEF Sealed!Return, Opened, Sealed!Map!Return, Sealed!Map!Next
<1>10. CASE Sealed!Restart BY <1>1, <1>10 DEF Sealed!Restart
<1>11. CASE Sealed!Rotate BY <1>1, <1>11 DEF Sealed!Rotate
<1>12. CASE UNCHANGED Sealed!vars BY <1>1, <1>12 DEF Sealed!vars
<1> QED BY <1>2, <1>3, <1>4, <1>5, <1>6, <1>7, <1>8, <1>9, <1>10, <1>11, <1>12 DEF Sealed!Next

\* EncryptedL3Store's wrap, get, put and delete over any inner store, through
\* restarts, a sidecar cut short and any number of key rotations: to its user
\* it is the plain map; no value becomes unreadable or another one.
THEOREM SealedImplementsMap ==
  ASSUME SealedValues
  PROVE  Sealed!Spec => Sealed!MapSpec
<1>1. OneDataKey /\ [Sealed!Next]_Sealed!vars => OneDataKey' BY SealedKeeps
<1>2. OneDataKey /\ [Sealed!Next]_Sealed!vars => [Sealed!Map!Next]_<<Opened, req, ans>>
  BY SealedStep
<1> QED BY <1>1, <1>2, SealedInit, PTL DEF Sealed!Spec, Sealed!MapSpec, Sealed!Map!Spec, Opened

\* Both stores together: what the suite of runs checks on small instances.
StoresAreMaps == ImplementsMap /\ Sealed!MapSpec

\* The tiered store and the encrypting wrapper of L3 both implement StateMap,
\* which is what StateOps promises a single user of either.
THEOREM StoresImplementMap ==
  ASSUME NEW c, Clients = {c}, Undisturbed, SealedValues
  PROVE  Spec /\ Sealed!Spec => StoresAreMaps
  BY TiersImplementMap, SealedImplementsMap DEF StoresAreMaps

---------------------------------------------------------------------------
(* The mapped file, for any keys, values, appends, failures, compactions,    *)
(* clears and restarts of one client.                                        *)

\* The sizes, and the bytes at the end of a long value are no entry.
MmapSized ==
  /\ Nothing \notin Vals /\ Nothing \notin Keys /\ Long \subseteq Vals /\ TailKey = Nothing
  /\ IsFiniteSet(Keys)
  /\ MaxWrites \in Nat /\ MaxCompacts \in Nat /\ MaxRestarts \in Nat /\ MaxFaults \in Nat
  /\ MaxClears \in Nat

Cell == [key : Keys \cup {Nothing}, val : Vals \cup {Nothing}, part : Nat]

LEMMA SizeIs == \A v : Mm!Size(v) \in {1, 3} /\ (v \in Long <=> Mm!Size(v) = 3)
BY DEF Mm!Size, Mm!LongSize

LEMMA CellsAre ==
  ASSUME NEW k \in Keys, NEW v \in Vals \cup {Nothing}
  PROVE  /\ Mm!Cells(k, v) \in Seq(Cell) /\ Len(Mm!Cells(k, v)) = Mm!Size(v)
         /\ \A i \in 1 .. Mm!Size(v) : Mm!Cells(k, v)[i] = [key |-> k, val |-> v, part |-> i]
<1>1. Mm!Size(v) \in Nat
  BY SizeIs
<1>2. \A i \in 1 .. Mm!Size(v) : [key |-> k, val |-> v, part |-> i] \in Cell
  BY <1>1 DEF Cell
<1> QED BY <1>1, <1>2 DEF Mm!Cells

\* An entry at p: its cells follow one another.
EntryThere(s, p) ==
  /\ p \in 1 .. Len(s) /\ s[p].part = 1 /\ p + Mm!Size(s[p].val) - 1 <= Len(s)
  /\ \A j \in 1 .. Mm!Size(s[p].val) :
       s[p + j - 1] = [key |-> s[p].key, val |-> s[p].val, part |-> j]

LEMMA WholeIs ==
  ASSUME NEW s \in Seq(Cell), NEW p \in Nat
  PROVE  Mm!Whole(s, p) <=> EntryThere(s, p)
<1>1. DOMAIN s = 1 .. Len(s) /\ Len(s) \in Nat
  OBVIOUS
<1>2. CASE p \notin 1 .. Len(s)
  BY <1>1, <1>2 DEF Mm!Whole, EntryThere
<1>3. CASE p \in 1 .. Len(s)
  <2> DEFINE k == s[p].key
             v == s[p].val
             n == Mm!Size(v)
  <2>1. n \in {1, 3}
    BY SizeIs
  <2>2. CASE p + n - 1 <= Len(s)
    <3>1. /\ DOMAIN SubSeq(s, p, p + n - 1) = 1 .. n
          /\ \A j \in 1 .. n : SubSeq(s, p, p + n - 1)[j] = s[p + j - 1]
      BY <1>3, <2>1, <2>2
    <3>2. SubSeq(s, p, p + n - 1) = [j \in 1 .. n |-> s[p + j - 1]]
      BY <1>3, <2>1, <2>2
    <3>3. SubSeq(s, p, p + n - 1) = Mm!Cells(k, v) <=>
            \A j \in 1 .. n : s[p + j - 1] = [key |-> k, val |-> v, part |-> j]
      BY <3>2 DEF Mm!Cells
    <3> QED BY <1>1, <1>3, <3>3 DEF Mm!Whole, EntryThere
  <2>3. CASE ~(p + n - 1 <= Len(s))
    BY <2>3 DEF Mm!Whole, EntryThere
  <2> QED BY <2>2, <2>3
<1> QED BY <1>2, <1>3

\* What an append at p makes of a file that reaches p.
LEMMA OverwriteIs ==
  ASSUME NEW s \in Seq(Cell), NEW t \in Seq(Cell), NEW p \in 1 .. Len(s) + 1
  PROVE  /\ Mm!Overwrite(s, p, t) \in Seq(Cell)
         /\ Len(Mm!Overwrite(s, p, t)) = IF p + Len(t) - 1 <= Len(s) THEN Len(s) ELSE p + Len(t) - 1
         /\ \A i \in 1 .. Len(Mm!Overwrite(s, p, t)) :
              Mm!Overwrite(s, p, t)[i] = IF i >= p /\ i < p + Len(t) THEN t[i - p + 1] ELSE s[i]
<1> DEFINE m == IF p + Len(t) - 1 <= Len(s) THEN Len(s) ELSE p + Len(t) - 1
           f == [i \in 1 .. m |-> IF i >= p /\ i < p + Len(t) THEN t[i - p + 1]
                                  ELSE IF i <= Len(s) THEN s[i] ELSE Mm!Hole]
<1>0. Len(s) \in Nat /\ Len(t) \in Nat /\ m \in Nat
  OBVIOUS
<1>1. Mm!Max({Len(s), p + Len(t) - 1}) = m
  <2>1. m \in {Len(s), p + Len(t) - 1} /\ \A y \in {Len(s), p + Len(t) - 1} : m >= y
    BY <1>0
  <2>2. \A x \in {Len(s), p + Len(t) - 1} :
          (\A y \in {Len(s), p + Len(t) - 1} : x >= y) => x = m
    BY <1>0
  <2> QED BY <2>1, <2>2 DEF Mm!Max
<1>2. Mm!Overwrite(s, p, t) = f
  BY <1>1 DEF Mm!Overwrite
<1>3. \A i \in 1 .. m : f[i] = IF i >= p /\ i < p + Len(t) THEN t[i - p + 1] ELSE s[i]
  BY <1>0
<1>4. \A i \in 1 .. m : f[i] \in Cell
  <2> SUFFICES ASSUME NEW i \in 1 .. m PROVE f[i] \in Cell
    OBVIOUS
  <2>1. CASE i >= p /\ i < p + Len(t)
    <3>1. i - p + 1 \in 1 .. Len(t)
      BY <1>0, <2>1
    <3> QED BY <2>1, <3>1, <1>3
  <2>2. CASE ~(i >= p /\ i < p + Len(t))
    <3>1. i \in 1 .. Len(s)
      BY <1>0, <2>2
    <3> QED BY <2>2, <3>1, <1>3
  <2> QED BY <2>1, <2>2
<1>5. f \in Seq(Cell) /\ Len(f) = m
  BY <1>0, <1>4
<1> HIDE DEF f
<1> QED BY <1>2, <1>3, <1>5

\* A file whose entries fill it up to w; what follows is what is left of long
\* entries that were torn, and too short to be one.
Filled(s, w) ==
  /\ s \in Seq(Cell) /\ w \in 1 .. Len(s) + 1 /\ Len(s) <= w + 1
  /\ \A i \in w .. Len(s) : s[i].val \in Long
  /\ \A i \in 1 .. w - 1 : \E p \in 1 .. i :
       EntryThere(s, p) /\ i < p + Mm!Size(s[p].val) /\ p + Mm!Size(s[p].val) <= w

Entries(s) == {p \in 1 .. Len(s) : EntryThere(s, p)}

\* Two entries do not overlap.
LEMMA Apart ==
  ASSUME NEW s, Len(s) \in Nat, NEW p, NEW q, EntryThere(s, p), EntryThere(s, q), q < p
  PROVE  q + Mm!Size(s[q].val) <= p
<1> DEFINE n == Mm!Size(s[q].val)
<1>1. p \in Nat /\ q \in Nat /\ n \in {1, 3} /\ s[p].part = 1
  BY SizeIs DEF EntryThere
<1>2. \A j \in 1 .. n : s[q + j - 1].part = j
  <2>1. \A j \in 1 .. n : s[q + j - 1] = [key |-> s[q].key, val |-> s[q].val, part |-> j]
    BY DEF EntryThere
  <2> HIDE DEF n
  <2> SUFFICES ASSUME NEW j \in 1 .. n PROVE s[q + j - 1].part = j
    OBVIOUS
  <2>2. s[q + j - 1] = [key |-> s[q].key, val |-> s[q].val, part |-> j]
    BY <2>1
  <2> QED BY <2>2
<1> HIDE DEF n
<1>3. ASSUME p < q + n PROVE FALSE
  <2>1. p = q + 1 \/ p = q + 2
    BY <1>1, <1>3
  <2>2. n = 3
    BY <1>1, <1>3
  <2>3. q + 2 - 1 = q + 1 /\ q + 3 - 1 = q + 2
    BY <1>1
  <2>4. s[q + 1].part = 2 /\ s[q + 2].part = 3
    BY <1>2, <2>2, <2>3
  <2> QED BY <1>1, <2>1, <2>4
<1>4. n \in Nat
  BY <1>1
<1>5. q + n <= p
  BY <1>1, <1>3, <1>4
<1> QED BY <1>5 DEF n

\* No entry begins inside another one or after w.
LEMMA EntryWithin ==
  ASSUME NEW s, NEW w, Filled(s, w), NEW p, EntryThere(s, p)
  PROVE  p \in 1 .. w - 1 /\ p + Mm!Size(s[p].val) <= w
<1>1. p \in 1 .. Len(s) /\ Len(s) \in Nat /\ w \in Nat /\ Mm!Size(s[p].val) \in {1, 3}
  BY SizeIs DEF Filled, EntryThere
<1>2. CASE p >= w
  <2>1. s[p].val \in Long /\ Len(s) <= w + 1
    BY <1>1, <1>2 DEF Filled
  <2>2. Mm!Size(s[p].val) = 3 /\ p + 3 - 1 <= Len(s)
    BY <2>1, SizeIs DEF EntryThere
  <2> QED BY <1>1, <1>2, <2>1, <2>2
<1>3. CASE p < w
  <2>1. PICK q \in 1 .. p : /\ EntryThere(s, q) /\ p < q + Mm!Size(s[q].val)
                            /\ q + Mm!Size(s[q].val) <= w
    BY <1>1, <1>3 DEF Filled
  <2>2. Mm!Size(s[q].val) \in {1, 3}
    BY SizeIs
  <2>3. CASE q = p
    BY <1>1, <1>3, <2>1, <2>3
  <2>4. CASE q < p
    <3>1. q + Mm!Size(s[q].val) <= p
      BY <1>1, <2>1, <2>4, Apart
    <3> QED BY <1>1, <2>1, <2>2, <3>1
  <2> QED BY <1>1, <2>1, <2>3, <2>4
<1> QED BY <1>1, <1>2, <1>3

\* Behind an entry comes another one, or the end.
LEMMA EntryBehind ==
  ASSUME NEW s, NEW w, Filled(s, w), NEW p, EntryThere(s, p)
  PROVE  \/ EntryThere(s, p + Mm!Size(s[p].val))
         \/ p + Mm!Size(s[p].val) = w
<1> DEFINE n == p + Mm!Size(s[p].val)
<1>a. w \in Nat /\ Len(s) \in Nat
  BY DEF Filled
<1>b. Mm!Size(s[p].val) \in {1, 3}
  BY SizeIs
<1>c. p \in 1 .. w - 1 /\ n <= w
  BY EntryWithin
<1>0. w \in Nat /\ Len(s) \in Nat /\ Mm!Size(s[p].val) \in {1, 3} /\ p \in 1 .. w - 1 /\ n <= w
  BY <1>a, <1>b, <1>c
<1>1. p \in 1 .. w - 1 /\ n <= w /\ n \in Nat /\ w \in Nat /\ Len(s) \in Nat /\ p < n
  BY <1>0
<1>2. CASE n < w
  <2>1. PICK q \in 1 .. n : /\ EntryThere(s, q) /\ n < q + Mm!Size(s[q].val)
                            /\ q + Mm!Size(s[q].val) <= w
    BY <1>1, <1>2 DEF Filled
  <2>2. Mm!Size(s[q].val) \in Nat
    BY SizeIs
  <2>3. CASE q < p
    <3>1. q + Mm!Size(s[q].val) <= p
      BY <1>1, <2>1, <2>3, Apart
    <3> QED BY <1>1, <2>1, <2>2, <3>1
  <2>4. CASE q = p
    BY <1>1, <2>1, <2>4
  <2>5. CASE p < q /\ q < n
    <3>1. n <= q
      BY <1>1, <2>1, <2>5, Apart
    <3> QED BY <1>1, <2>1, <2>5, <3>1
  <2> QED BY <1>1, <2>1, <2>3, <2>4, <2>5
<1> QED BY <1>1, <1>2

\* A set of natural numbers that has a member has a least one.
LEMMA LeastOf ==
  ASSUME NEW T \in SUBSET Nat, T # {}
  PROVE  \E n \in T : \A m \in T : n <= m
<1> DEFINE R == {mn \in Nat \X Nat : mn[1] < mn[2]}
<1>1. IsWellFoundedOn(R, Nat)
  BY NatLessThanWellFounded, Zenon DEF OpToRel
<1>2. \E n \in T : \A m \in T : <<m, n>> \notin R
  BY <1>1, WFMin, Zenon
<1>3. \A m, n \in Nat : m < n => <<m, n>> \in R
  OBVIOUS
<1> HIDE DEF R
<1>4. PICK n \in T : \A m \in T : <<m, n>> \notin R
  BY <1>2
<1>5. ASSUME NEW m \in T PROVE n <= m
  <2>1. m \in Nat /\ n \in Nat
    OBVIOUS
  <2>2. ~(m < n)
    BY <1>3, <1>4, <2>1, Zenon
  <2> QED BY <2>1, <2>2
<1> QED BY <1>5

\* The scan of open visits the entries.
Scan(s, f) ==
  f = [p \in 1 .. Len(s) + 1 |-> IF EntryThere(s, p) THEN {p} \cup f[p + Mm!Size(s[p].val)] ELSE {}]

LEMMA ScanUnique ==
  ASSUME NEW s, Len(s) \in Nat, NEW f, NEW g, Scan(s, f), Scan(s, g), NEW p \in 1 .. Len(s) + 1
  PROVE  f[p] = g[p]
<1> DEFINE S == {i \in 0 .. Len(s) : f[Len(s) + 1 - i] # g[Len(s) + 1 - i]}
<1>1. CASE S = {}
  <2>1. Len(s) + 1 - p \in 0 .. Len(s) /\ Len(s) + 1 - (Len(s) + 1 - p) = p
    OBVIOUS
  <2> QED BY <1>1, <2>1
<1>2. CASE S # {}
  <2>1. PICK x \in S : \A y \in S : x <= y
    <3>1. S \in SUBSET Nat
      OBVIOUS
    <3> HIDE DEF S
    <3> QED BY <1>2, <3>1, LeastOf
  <2> DEFINE q == Len(s) + 1 - x
  <2>2. q \in 1 .. Len(s) + 1 /\ f[q] # g[q] /\ x \in 0 .. Len(s)
    BY <2>1
  <2> HIDE DEF S
  <2>3. CASE ~EntryThere(s, q)
    BY <2>2, <2>3 DEF Scan
  <2>4. CASE EntryThere(s, q)
    <3> DEFINE r == q + Mm!Size(s[q].val)
    <3>1. Mm!Size(s[q].val) \in {1, 3} /\ q + Mm!Size(s[q].val) - 1 <= Len(s)
      BY <2>4, SizeIs DEF EntryThere
    <3>2. r \in 1 .. Len(s) + 1 /\ Len(s) + 1 - r \in 0 .. Len(s) /\ Len(s) + 1 - r < x
      <4>1. Len(s) \in Nat /\ x \in Nat /\ q \in Nat /\ q >= 1 /\ q = Len(s) + 1 - x
        BY <2>2
      <4> HIDE DEF q
      <4> QED BY <3>1, <4>1
    <3>3. Len(s) + 1 - r \notin S
      BY <2>1, <2>2, <3>2
    <3>4. Len(s) + 1 - (Len(s) + 1 - r) = r
      BY <3>2
    <3>5. f[r] = g[r]
      BY <3>2, <3>3, <3>4 DEF S
    <3>6. f[q] = {q} \cup f[r] /\ g[q] = {q} \cup g[r]
      BY <2>2, <2>4 DEF Scan
    <3> QED BY <2>2, <3>5, <3>6
  <2> QED BY <2>3, <2>4
<1> QED BY <1>1, <1>2

LEMMA OffsetsAre ==
  ASSUME TailKey = Nothing, NEW s, NEW w, Filled(s, w)
  PROVE  Mm!Offsets(s) = Entries(s)
<1> DEFINE f == [p \in 1 .. Len(s) + 1 |-> IF EntryThere(s, p) THEN {q \in Entries(s) : q >= p} ELSE {}]
           d == CHOOSE g : g = [p \in 1 .. Len(s) + 1 |->
                             IF Mm!Whole(s, p) \/ Mm!Looks(s, p)
                             THEN {p} \cup g[p + Mm!EntryAt(s, p).size] ELSE {}]
<1>0. s \in Seq(Cell) /\ Len(s) \in Nat /\ w \in Nat
  BY DEF Filled
<1>1. ASSUME NEW p \in 1 .. Len(s) + 1
      PROVE  /\ (Mm!Whole(s, p) \/ Mm!Looks(s, p)) <=> EntryThere(s, p)
             /\ EntryThere(s, p) => Mm!EntryAt(s, p).size = Mm!Size(s[p].val)
  <2>1. p \in Nat
    BY <1>0
  <2> QED BY <1>0, <2>1, WholeIs DEF Mm!Looks, Mm!EntryAt
<1>2. Scan(s, f)
  <2> SUFFICES ASSUME NEW p \in 1 .. Len(s) + 1
               PROVE f[p] = IF EntryThere(s, p) THEN {p} \cup f[p + Mm!Size(s[p].val)] ELSE {}
    BY DEF Scan
  <2>1. CASE EntryThere(s, p)
    <3> DEFINE r == p + Mm!Size(s[p].val)
    <3>1. r \in 1 .. Len(s) + 1 /\ p < r /\ p \in 1 .. Len(s)
      BY <1>0, <2>1, SizeIs DEF EntryThere
    <3>2. \A q \in Entries(s) : q > p => q >= r
      <4> SUFFICES ASSUME NEW q \in Entries(s), q > p PROVE q >= r
        OBVIOUS
      <4>1. EntryThere(s, q) /\ q \in Nat
        BY <1>0 DEF Entries
      <4>2. p < q
        BY <1>0, <4>1
      <4>3. r <= q
        BY <1>0, <2>1, <4>1, <4>2, Apart
      <4> QED BY <3>1, <4>1, <4>3
    <3>3. CASE EntryThere(s, r)
      <4>1. f[r] = {q \in Entries(s) : q >= r} /\ f[p] = {q \in Entries(s) : q >= p}
        BY <2>1, <3>1, <3>3
      <4>2. {q \in Entries(s) : q >= p} = {p} \cup {q \in Entries(s) : q >= r}
        <5>1. p \in Entries(s) /\ Entries(s) \subseteq Nat
          BY <1>0, <2>1, <3>1 DEF Entries
        <5> HIDE DEF r
        <5> QED BY <3>1, <3>2, <5>1
      <4> QED BY <2>1, <4>1, <4>2
    <3>4. CASE ~EntryThere(s, r)
      <4>1. r = w
        BY <2>1, <3>4, EntryBehind
      <4>2. f[r] = {} /\ f[p] = {q \in Entries(s) : q >= p}
        BY <2>1, <3>1, <3>4
      <4>3. \A q \in Entries(s) : q < w
        BY <1>0, EntryWithin DEF Entries
      <4>4. {q \in Entries(s) : q >= p} = {p}
        <5>1. p \in Entries(s) /\ Entries(s) \subseteq Nat
          BY <1>0, <2>1, <3>1 DEF Entries
        <5> HIDE DEF r
        <5> QED BY <1>0, <3>1, <3>2, <4>1, <4>3, <5>1
      <4> QED BY <2>1, <4>2, <4>4
    <3> QED BY <3>3, <3>4
  <2>2. CASE ~EntryThere(s, p)
    BY <2>2
  <2> QED BY <2>1, <2>2
<1>3. f = [p \in 1 .. Len(s) + 1 |->
             IF Mm!Whole(s, p) \/ Mm!Looks(s, p)
             THEN {p} \cup f[p + Mm!EntryAt(s, p).size] ELSE {}]
  <2> HIDE DEF f
  <2>1. f = [p \in 1 .. Len(s) + 1 |-> IF EntryThere(s, p) THEN {p} \cup f[p + Mm!Size(s[p].val)] ELSE {}]
    BY <1>2 DEF Scan
  <2>2. [p \in 1 .. Len(s) + 1 |-> IF EntryThere(s, p) THEN {p} \cup f[p + Mm!Size(s[p].val)] ELSE {}]
      = [p \in 1 .. Len(s) + 1 |->
             IF Mm!Whole(s, p) \/ Mm!Looks(s, p)
             THEN {p} \cup f[p + Mm!EntryAt(s, p).size] ELSE {}]
    BY <1>1
  <2> QED BY <2>1, <2>2
<1>4. d = [p \in 1 .. Len(s) + 1 |->
             IF Mm!Whole(s, p) \/ Mm!Looks(s, p)
             THEN {p} \cup d[p + Mm!EntryAt(s, p).size] ELSE {}]
  BY <1>3
<1>5. Scan(s, d)
  <2> HIDE DEF d
  <2>2. [p \in 1 .. Len(s) + 1 |-> IF EntryThere(s, p) THEN {p} \cup d[p + Mm!Size(s[p].val)] ELSE {}]
      = [p \in 1 .. Len(s) + 1 |->
             IF Mm!Whole(s, p) \/ Mm!Looks(s, p)
             THEN {p} \cup d[p + Mm!EntryAt(s, p).size] ELSE {}]
    BY <1>1
  <2> QED BY <1>4, <2>2 DEF Scan
<1>6. Mm!Offsets(s) = d[1]
  BY DEF Mm!Offsets
<1>7. f[1] = Entries(s)
  <2>1. CASE EntryThere(s, 1)
    BY <1>0, <2>1 DEF Entries
  <2>2. CASE ~EntryThere(s, 1)
    <3>1. w = 1
      <4> SUFFICES ASSUME w # 1 PROVE FALSE
        OBVIOUS
      <4>1. w \in 1 .. Len(s) + 1 /\ 1 \in 1 .. w - 1
        BY <1>0 DEF Filled
      <4>2. \E p \in 1 .. 1 : EntryThere(s, p)
        BY <4>1 DEF Filled
      <4> QED BY <2>2, <4>2
    <3>2. Entries(s) = {}
      BY <1>0, <3>1, EntryWithin DEF Entries
    <3> QED BY <1>0, <2>2, <3>2
  <2> QED BY <2>1, <2>2
<1>8. 1 \in 1 .. Len(s) + 1
  BY <1>0
<1> HIDE DEF f, d
<1> QED BY <1>0, <1>2, <1>5, <1>6, <1>7, <1>8, ScanUnique

\* p is the last entry of k, 0 when there is none.
Latest(s, k, p) ==
  IF p = 0 THEN \A q \in Entries(s) : s[q].key # k
  ELSE p \in Entries(s) /\ s[p].key = k /\ \A q \in Entries(s) : s[q].key = k => q <= p

\* Where the index points for it.
Points(s, p) == IF p # 0 /\ s[p].val # Nothing THEN p ELSE 0

LEMMA LatestUnique ==
  ASSUME NEW s, NEW k, NEW p, NEW q, Len(s) \in Nat, Latest(s, k, p), Latest(s, k, q)
  PROVE  p = q
BY DEF Latest, Entries

\* A finite set of numbers has a largest one.
LEMMA LargestOf ==
  ASSUME NEW n \in Nat, NEW T \in SUBSET (0 .. n), T # {}
  PROVE  \E x \in T : \A y \in T : y <= x
<1> DEFINE S == {i \in 0 .. n : n - i \in T}
<1>1. S \in SUBSET Nat /\ S # {}
  <2>1. PICK t \in T : TRUE
    OBVIOUS
  <2>2. n - t \in 0 .. n /\ n - (n - t) = t
    OBVIOUS
  <2> QED BY <2>1, <2>2
<1>2. PICK i \in S : \A j \in S : i <= j
  <2> HIDE DEF S
  <2> QED BY <1>1, LeastOf
<1>3. n - i \in T /\ i \in 0 .. n
  OBVIOUS
<1>4. ASSUME NEW y \in T PROVE y <= n - i
  <2>1. n - y \in 0 .. n /\ n - (n - y) = y
    OBVIOUS
  <2>2. n - y \in S
    BY <2>1
  <2>3. i <= n - y
    BY <1>2, <2>2
  <2> QED BY <1>3, <2>1, <2>3
<1> QED BY <1>3, <1>4

\* The maximum of a finite set of numbers.
LEMMA MaxIs ==
  ASSUME NEW n \in Nat, NEW T \in SUBSET (0 .. n), NEW x \in T, \A y \in T : y <= x
  PROVE  Mm!Max(T) = x
<1>1. x \in T /\ \A y \in T : x >= y
  OBVIOUS
<1>2. \A z \in T : (\A y \in T : z >= y) => z = x
  OBVIOUS
<1> QED BY <1>1, <1>2 DEF Mm!Max

\* What open finds.
LEMMA RecoveredIs ==
  ASSUME TailKey = Nothing, NEW s, NEW w, Filled(s, w)
  PROVE  /\ Mm!Recovered(s).pos = w
         /\ Mm!Recovered(s).index = [k \in Keys |-> Mm!Recovered(s).index[k]]
         /\ \A k \in Keys : \E p \in 0 .. Len(s) :
              Latest(s, k, p) /\ Mm!Recovered(s).index[k] = Points(s, p)
<1> DEFINE last(k) == Mm!Max({0} \cup {p \in Mm!Offsets(s) : Mm!EntryAt(s, p).key = k})
<1>0. s \in Seq(Cell) /\ Len(s) \in Nat /\ w \in Nat /\ w \in 1 .. Len(s) + 1
  BY DEF Filled
<1>1. Mm!Offsets(s) = Entries(s) /\ Entries(s) \subseteq 1 .. Len(s)
  BY OffsetsAre DEF Entries
<1>2. ASSUME NEW p \in Entries(s)
      PROVE  Mm!EntryAt(s, p) = [key |-> s[p].key, val |-> s[p].val, size |-> Mm!Size(s[p].val)]
  <2>1. p \in Nat /\ EntryThere(s, p)
    BY <1>0 DEF Entries
  <2> QED BY <1>0, <2>1, WholeIs DEF Mm!EntryAt
<1>3. ASSUME NEW k \in Keys PROVE last(k) \in 0 .. Len(s) /\ Latest(s, k, last(k))
  <2> DEFINE T == {0} \cup {p \in Mm!Offsets(s) : Mm!EntryAt(s, p).key = k}
  <2>1. T = {0} \cup {p \in Entries(s) : s[p].key = k}
    BY <1>1, <1>2
  <2>2. T \in SUBSET (0 .. Len(s)) /\ T # {}
    BY <1>0, <1>1, <2>1
  <2>3. PICK x \in T : \A y \in T : y <= x
    <3> HIDE DEF T
    <3> QED BY <1>0, <2>2, LargestOf
  <2>4. Mm!Max(T) = x
    <3> HIDE DEF T
    <3> QED BY <1>0, <2>2, <2>3, MaxIs
  <2>5. last(k) = x
    BY <2>4
  <2>6. Latest(s, k, x)
    <3>1. \A q \in Entries(s) : s[q].key = k => q \in T
      BY <2>1
    <3>2. x = 0 \/ (x \in Entries(s) /\ s[x].key = k)
      BY <2>1
    <3> HIDE DEF T
    <3>3. \A q \in Entries(s) : s[q].key = k => q <= x
      BY <2>3, <3>1
    <3> QED BY <1>1, <3>2, <3>3 DEF Latest
  <2> HIDE DEF last
  <2> QED BY <2>2, <2>5, <2>6
<1>4. ASSUME NEW k \in Keys
      PROVE  Mm!Recovered(s).index[k] = Points(s, last(k))
  <2>1. Mm!Recovered(s).index[k] = IF last(k) # 0 /\ Mm!EntryAt(s, last(k)).val # Nothing
                                   THEN last(k) ELSE 0
    BY DEF Mm!Recovered
  <2> HIDE DEF last
  <2>2. last(k) # 0 => last(k) \in Entries(s)
    BY <1>3 DEF Latest
  <2>3. last(k) # 0 => Mm!EntryAt(s, last(k)).val = s[last(k)].val
    BY <1>2, <2>2
  <2> QED BY <2>1, <2>3 DEF Points
<1>5. Mm!Recovered(s).index = [k \in Keys |-> Mm!Recovered(s).index[k]]
  BY DEF Mm!Recovered
<1>6. Mm!Recovered(s).pos = w
  <2> DEFINE T == {1} \cup {p + Mm!EntryAt(s, p).size : p \in Mm!Offsets(s)}
  <2>1. Mm!Recovered(s).pos = Mm!Max(T)
    BY DEF Mm!Recovered
  <2>2. T = {1} \cup {p + Mm!Size(s[p].val) : p \in Entries(s)}
    <3>1. \A p \in Entries(s) : Mm!EntryAt(s, p).size = Mm!Size(s[p].val)
      BY <1>2
    <3> QED BY <1>1, <3>1
  <2>3. \A y \in T : y \in Nat /\ y <= w
    <3>1. ASSUME NEW p \in Entries(s) PROVE p + Mm!Size(s[p].val) \in Nat /\ p + Mm!Size(s[p].val) <= w
      <4>1. EntryThere(s, p) /\ p \in Nat
        BY <1>0 DEF Entries
      <4>2. Mm!Size(s[p].val) \in {1, 3}
        BY SizeIs
      <4> QED BY <4>1, <4>2, EntryWithin
    <3>2. 1 \in Nat /\ 1 <= w
      BY <1>0
    <3>3. \A y \in T : y = 1 \/ \E p \in Entries(s) : y = p + Mm!Size(s[p].val)
      BY <2>2
    <3> HIDE DEF T
    <3> QED BY <3>1, <3>2, <3>3
  <2>4. w \in T
    <3>1. CASE w = 1
      BY <2>2, <3>1
    <3>2. CASE w # 1
      <4>1. w - 1 \in 1 .. w - 1 /\ w \in Nat
        BY <1>0, <3>2
      <4>2. PICK p \in 1 .. w - 1 : /\ EntryThere(s, p) /\ w - 1 < p + Mm!Size(s[p].val)
                                    /\ p + Mm!Size(s[p].val) <= w
        BY <4>1 DEF Filled
      <4>3. Mm!Size(s[p].val) \in {1, 3}
        BY SizeIs
      <4>4. p + Mm!Size(s[p].val) = w
        <5>1. p + Mm!Size(s[p].val) \in Nat
          BY <4>1, <4>2, <4>3
        <5> QED BY <4>1, <4>2, <5>1
      <4>5. p \in Entries(s)
        BY <1>0, <4>2 DEF Entries, EntryThere
      <4> QED BY <2>2, <4>4, <4>5
    <3> QED BY <3>1, <3>2
  <2> HIDE DEF T
  <2>5. T \in SUBSET (0 .. w)
    BY <1>0, <2>3
  <2>6. Mm!Max(T) = w
    BY <1>0, <2>3, <2>4, <2>5, MaxIs
  <2> QED BY <2>1, <2>6
<1> HIDE DEF last
<1> QED BY <1>3, <1>4, <1>5, <1>6

\* t is s up to w.
SameTo(s, t, w) == Len(t) >= w - 1 /\ \A i \in 1 .. w - 1 : t[i] = s[i]

LEMMA EntryKept ==
  ASSUME NEW s, NEW t, NEW w \in Nat, Len(s) \in Nat, Len(t) \in Nat, SameTo(s, t, w),
         NEW p, EntryThere(s, p), p + Mm!Size(s[p].val) <= w
  PROVE  EntryThere(t, p) /\ t[p] = s[p]
<1> DEFINE n == Mm!Size(s[p].val)
<1>1. p \in Nat /\ p >= 1 /\ n \in {1, 3} /\ p + n <= w
  BY SizeIs DEF EntryThere
<1>2. \A j \in 1 .. n : p + j - 1 \in 1 .. w - 1
  BY <1>1
<1>3. \A j \in 1 .. n : t[p + j - 1] = s[p + j - 1]
  BY <1>2 DEF SameTo
<1>4. p \in 1 .. w - 1 /\ w - 1 <= Len(t)
  BY <1>1 DEF SameTo
<1>5. t[p] = s[p]
  BY <1>4 DEF SameTo
<1>6. \A j \in 1 .. n : s[p + j - 1] = [key |-> s[p].key, val |-> s[p].val, part |-> j]
  BY DEF EntryThere
<1>7. s[p].part = 1
  BY DEF EntryThere
<1>8. p \in 1 .. Len(t) /\ p + n - 1 <= Len(t)
  BY <1>1, <1>4
<1> QED BY <1>3, <1>5, <1>6, <1>7, <1>8 DEF EntryThere

\* Whoever changes a file behind its end changes no entry.
LEMMA FilledKept ==
  ASSUME NEW s, NEW t \in Seq(Cell), NEW w, Filled(s, w), SameTo(s, t, w)
  PROVE  /\ \A i \in 1 .. w - 1 : \E p \in 1 .. i :
              EntryThere(t, p) /\ i < p + Mm!Size(t[p].val) /\ p + Mm!Size(t[p].val) <= w
         /\ \A p \in Entries(s) : EntryThere(t, p) /\ t[p] = s[p]
         /\ \A p \in Entries(t) : p < w => p \in Entries(s)
<1>0. s \in Seq(Cell) /\ Len(s) \in Nat /\ Len(t) \in Nat /\ w \in Nat
  BY DEF Filled
<1>1. ASSUME NEW p \in Entries(s) PROVE EntryThere(t, p) /\ t[p] = s[p]
  <2>1. EntryThere(s, p)
    BY DEF Entries
  <2>2. p + Mm!Size(s[p].val) <= w
    BY <2>1, EntryWithin
  <2> QED BY <1>0, <2>1, <2>2, EntryKept
<1>2. ASSUME NEW i \in 1 .. w - 1
      PROVE  \E p \in 1 .. i : p \in Entries(s) /\ i < p + Mm!Size(s[p].val) /\ p + Mm!Size(s[p].val) <= w
  <2>1. PICK p \in 1 .. i : EntryThere(s, p) /\ i < p + Mm!Size(s[p].val) /\ p + Mm!Size(s[p].val) <= w
    BY DEF Filled
  <2>2. p \in Entries(s)
    BY <2>1 DEF Entries, EntryThere
  <2> QED BY <2>1, <2>2
<1>3. ASSUME NEW p \in Entries(t), p < w PROVE p \in Entries(s)
  <2>1. EntryThere(t, p) /\ p \in 1 .. w - 1
    BY <1>0, <1>3 DEF Entries
  <2>2. PICK q \in 1 .. p : q \in Entries(s) /\ p < q + Mm!Size(s[q].val)
    BY <2>1, <1>2
  <2>3. CASE q = p
    BY <2>2, <2>3
  <2>4. CASE q < p
    <3>1. EntryThere(t, q) /\ t[q] = s[q]
      BY <1>1, <2>2
    <3>2. q + Mm!Size(t[q].val) <= p
      BY <1>0, <2>1, <2>4, <3>1, Apart
    <3>3. Mm!Size(s[q].val) \in {1, 3}
      BY SizeIs
    <3> QED BY <1>0, <2>1, <2>2, <3>1, <3>2, <3>3
  <2> QED BY <2>1, <2>2, <2>3, <2>4
<1>4. ASSUME NEW i \in 1 .. w - 1
      PROVE  \E p \in 1 .. i :
              EntryThere(t, p) /\ i < p + Mm!Size(t[p].val) /\ p + Mm!Size(t[p].val) <= w
  BY <1>1, <1>2
<1> QED BY <1>1, <1>3, <1>4

\* An append that fails half-way leaves the entries.
LEMMA TornFile ==
  ASSUME MmapSized, NEW s, NEW w, Filled(s, w), NEW k \in Keys, NEW v \in Vals \cup {Nothing},
         NEW n \in 0 .. Mm!Size(v) - 1
  PROVE  LET t == Mm!Overwrite(s, w, SubSeq(Mm!Cells(k, v), 1, n)) IN
         /\ Filled(t, w) /\ Entries(t) = Entries(s)
         /\ \A p \in Entries(s) : t[p] = s[p]
<1> DEFINE c == SubSeq(Mm!Cells(k, v), 1, n)
           t == Mm!Overwrite(s, w, c)
<1>0. s \in Seq(Cell) /\ Len(s) \in Nat /\ w \in 1 .. Len(s) + 1 /\ w \in Nat
  BY DEF Filled
<1>1. Mm!Size(v) \in {1, 3} /\ n \in Nat /\ n < Mm!Size(v)
  BY SizeIs
<1>2. c \in Seq(Cell) /\ Len(c) = n /\ \A i \in 1 .. n : c[i] = [key |-> k, val |-> v, part |-> i]
  <2>1. /\ Mm!Cells(k, v) \in Seq(Cell) /\ Len(Mm!Cells(k, v)) = Mm!Size(v)
        /\ \A i \in 1 .. Mm!Size(v) : Mm!Cells(k, v)[i] = [key |-> k, val |-> v, part |-> i]
    BY CellsAre
  <2>2. /\ SubSeq(Mm!Cells(k, v), 1, n) \in Seq(Cell)
        /\ Len(SubSeq(Mm!Cells(k, v), 1, n)) = n
        /\ \A i \in 1 .. n : SubSeq(Mm!Cells(k, v), 1, n)[i] = Mm!Cells(k, v)[i]
    BY <1>1, <2>1
  <2> QED BY <1>1, <2>1, <2>2
<1> HIDE DEF c
<1>3. /\ t \in Seq(Cell)
      /\ Len(t) = IF w + n - 1 <= Len(s) THEN Len(s) ELSE w + n - 1
      /\ \A i \in 1 .. Len(t) : t[i] = IF i >= w /\ i < w + n THEN c[i - w + 1] ELSE s[i]
  BY <1>0, <1>2, OverwriteIs
<1> HIDE DEF t
<1>4. SameTo(s, t, w)
  <2>1. Len(t) \in Nat /\ Len(t) >= w - 1
    BY <1>0, <1>1, <1>3
  <2>2. ASSUME NEW i \in 1 .. w - 1 PROVE t[i] = s[i]
    <3>1. i \in 1 .. Len(t) /\ ~(i >= w)
      BY <1>0, <2>1
    <3> QED BY <1>3, <3>1
  <2> QED BY <2>1, <2>2 DEF SameTo
<1>5. Len(s) <= w + 1 /\ \A i \in w .. Len(s) : s[i].val \in Long
  BY DEF Filled
<1>6. w \in 1 .. Len(t) + 1 /\ Len(t) <= w + 1
  BY <1>0, <1>1, <1>3, <1>5
<1>7. ASSUME NEW i \in w .. Len(t) PROVE t[i].val \in Long
  <2>1. CASE i < w + n
    <3>0. /\ w \in Nat /\ n \in Nat /\ Len(t) \in Nat /\ i \in Nat /\ 1 <= w /\ w <= i
          /\ i <= Len(t)
      BY <1>0, <1>1, <1>3, <1>6, <1>7
    <3>1. i - w + 1 \in 1 .. n /\ t[i] = c[i - w + 1]
      <4>1. i - w + 1 \in 1 .. n /\ i \in 1 .. Len(t) /\ i >= w /\ i < w + n
        BY <2>1, <3>0
      <4> QED BY <1>3, <4>1
    <3>2. Mm!Size(v) = 3
      BY <1>1, <3>1
    <3>3. v \in Long
      BY <3>2, SizeIs
    <3> QED BY <1>2, <3>1, <3>3
  <2>2. CASE ~(i < w + n)
    <3>1. i \in w .. Len(s) /\ t[i] = s[i]
      BY <1>0, <1>1, <1>3, <2>2
    <3> QED BY <1>5, <3>1
  <2> QED BY <2>1, <2>2
<1>8. Filled(t, w)
  BY <1>3, <1>4, <1>6, <1>7, FilledKept DEF Filled
<1>9. Entries(t) \subseteq Entries(s)
  <2>1. \A p \in Entries(t) : p < w
    BY <1>0, <1>8, EntryWithin DEF Entries
  <2> QED BY <1>3, <1>4, <2>1, FilledKept
<1>10. ASSUME NEW p \in Entries(s) PROVE p \in Entries(t) /\ t[p] = s[p]
  <2>1. EntryThere(t, p) /\ t[p] = s[p]
    BY <1>3, <1>4, FilledKept
  <2> QED BY <2>1 DEF Entries, EntryThere
<1>11. Filled(t, w) /\ Entries(t) = Entries(s) /\ \A p \in Entries(s) : t[p] = s[p]
  BY <1>8, <1>9, <1>10
<1> QED BY <1>11 DEF t, c

\* One that succeeds adds one behind the others.
LEMMA AppendedFile ==
  ASSUME MmapSized, NEW s, NEW w, Filled(s, w), NEW k \in Keys, NEW v \in Vals \cup {Nothing}
  PROVE  LET t == Mm!Overwrite(s, w, Mm!Cells(k, v)) IN
         /\ Filled(t, w + Mm!Size(v)) /\ Entries(t) = Entries(s) \cup {w}
         /\ \A p \in Entries(s) : t[p] = s[p]
         /\ t[w] = [key |-> k, val |-> v, part |-> 1]
<1> DEFINE c == Mm!Cells(k, v)
           n == Mm!Size(v)
           t == Mm!Overwrite(s, w, c)
<1>0. s \in Seq(Cell) /\ Len(s) \in Nat /\ w \in 1 .. Len(s) + 1 /\ w \in Nat
  BY DEF Filled
<1>1. n \in {1, 3}
  BY SizeIs
<1>2. c \in Seq(Cell) /\ Len(c) = n /\ \A i \in 1 .. n : c[i] = [key |-> k, val |-> v, part |-> i]
  BY CellsAre
<1> HIDE DEF c, n
<1>3. /\ t \in Seq(Cell)
      /\ Len(t) = IF w + n - 1 <= Len(s) THEN Len(s) ELSE w + n - 1
      /\ \A i \in 1 .. Len(t) : t[i] = IF i >= w /\ i < w + n THEN c[i - w + 1] ELSE s[i]
  BY <1>0, <1>2, OverwriteIs
<1> HIDE DEF t
<1>4. SameTo(s, t, w)
  <2>1. Len(t) \in Nat /\ Len(t) >= w - 1
    BY <1>0, <1>1, <1>3
  <2>2. ASSUME NEW i \in 1 .. w - 1 PROVE t[i] = s[i]
    <3>1. i \in 1 .. Len(t) /\ ~(i >= w)
      BY <1>0, <2>1
    <3> QED BY <1>3, <3>1
  <2> QED BY <2>1, <2>2 DEF SameTo
<1>5. Len(s) <= w + 1 /\ \A i \in w .. Len(s) : s[i].val \in Long
  BY DEF Filled
<1>6. w + n \in 1 .. Len(t) + 1 /\ Len(t) <= w + n + 1 /\ w + n - 1 <= Len(t) /\ Len(t) \in Nat
  BY <1>0, <1>1, <1>3, <1>5
<1>7. ASSUME NEW i \in w + n .. Len(t) PROVE t[i].val \in Long
  <2>1. i \in w .. Len(s) /\ t[i] = s[i]
    BY <1>0, <1>1, <1>3
  <2> QED BY <1>5, <2>1
<1>8. ASSUME NEW j \in 1 .. n PROVE t[w + j - 1] = [key |-> k, val |-> v, part |-> j]
  <2>1. w + j - 1 \in 1 .. Len(t) /\ w + j - 1 >= w /\ w + j - 1 < w + n /\ w + j - 1 - w + 1 = j
    BY <1>0, <1>1, <1>6
  <2>2. t[w + j - 1] = c[j]
    <3> DEFINE m == w + j - 1
    <3>1. m \in 1 .. Len(t) /\ m >= w /\ m < w + n /\ m - w + 1 = j
      BY <1>0, <1>1, <2>1
    <3> HIDE DEF m
    <3>2. t[m] = c[m - w + 1]
      BY <1>3, <3>1
    <3> QED BY <3>1, <3>2 DEF m
  <2> QED BY <1>2, <2>2
<1>9. t[w] = [key |-> k, val |-> v, part |-> 1]
  <2>1. 1 \in 1 .. n /\ w + 1 - 1 = w
    BY <1>0, <1>1
  <2> QED BY <1>8, <2>1
<1>10. EntryThere(t, w)
  <2>1. t[w].key = k /\ t[w].val = v /\ t[w].part = 1
    BY <1>9
  <2>2. w \in 1 .. Len(t)
    BY <1>0, <1>1, <1>6
  <2>3. Mm!Size(t[w].val) = n
    BY <2>1 DEF n
  <2> QED BY <1>6, <1>8, <2>1, <2>2, <2>3 DEF EntryThere
<1>11. Filled(t, w + n)
  <2> DEFINE m == w + n
  <2>0. ASSUME NEW i \in 1 .. m - 1
        PROVE \E p \in 1 .. i :
                EntryThere(t, p) /\ i < p + Mm!Size(t[p].val) /\ p + Mm!Size(t[p].val) <= m
    <3>1. CASE i < w
      <4>1. i \in 1 .. w - 1
        BY <1>0, <1>1, <3>1
      <4>2. PICK p \in 1 .. i :
                EntryThere(t, p) /\ i < p + Mm!Size(t[p].val) /\ p + Mm!Size(t[p].val) <= w
        BY <1>3, <1>4, <4>1, FilledKept
      <4>3. Mm!Size(t[p].val) \in {1, 3}
        BY SizeIs
      <4>4. p + Mm!Size(t[p].val) <= w + n
        BY <1>0, <1>1, <4>1, <4>2, <4>3
      <4> QED BY <4>2, <4>4
    <3>2. CASE ~(i < w)
      <4>1. w \in 1 .. i /\ i < w + n
        BY <1>0, <1>1, <3>2
      <4>2. Mm!Size(t[w].val) = n
        BY <1>9 DEF n
      <4>3. w + n <= w + n
        BY <1>0, <1>1
      <4> QED BY <1>10, <4>1, <4>2, <4>3
    <3> QED BY <3>1, <3>2
  <2>1. m \in 1 .. Len(t) + 1 /\ Len(t) <= m + 1 /\ \A i \in m .. Len(t) : t[i].val \in Long
    BY <1>6, <1>7
  <2> HIDE DEF m
  <2>2. \A i \in 1 .. m - 1 : \E p \in 1 .. i :
             EntryThere(t, p) /\ i < p + Mm!Size(t[p].val) /\ p + Mm!Size(t[p].val) <= m
    BY <2>0
  <2>3. Filled(t, m)
    BY <1>3, <2>1, <2>2 DEF Filled
  <2> QED BY <2>3 DEF m
<1>12. ASSUME NEW p \in Entries(t) PROVE p \in Entries(s) \cup {w}
  <2>1. EntryThere(t, p) /\ p \in Nat
    BY <1>6 DEF Entries
  <2>2. CASE p < w
    BY <1>3, <1>4, <2>2, FilledKept
  <2>3. CASE p > w
    <3>1. w + Mm!Size(t[w].val) <= p
      BY <1>0, <1>6, <1>10, <2>1, <2>3, Apart
    <3>2. p < w + n
      BY <1>0, <1>1, <1>11, <2>1, EntryWithin
    <3>3. Mm!Size(t[w].val) = n
      BY <1>9 DEF n
    <3> QED BY <1>0, <1>1, <2>1, <3>1, <3>2, <3>3
  <2> QED BY <1>0, <2>1, <2>2, <2>3
<1>13. ASSUME NEW p \in Entries(s) PROVE p \in Entries(t) /\ t[p] = s[p]
  <2>1. EntryThere(t, p) /\ t[p] = s[p]
    BY <1>3, <1>4, FilledKept
  <2> QED BY <2>1 DEF Entries, EntryThere
<1>14. w \in Entries(t)
  BY <1>10 DEF Entries, EntryThere
<1>15. /\ Filled(t, w + n) /\ Entries(t) = Entries(s) \cup {w}
       /\ \A p \in Entries(s) : t[p] = s[p]
  BY <1>11, <1>12, <1>13, <1>14
<1> QED BY <1>9, <1>15 DEF t, c, n

\* The index open makes of a file.
Ix(s) == Mm!Recovered(s).index

\* It points to the last entries, unless those are tombstones.
LEMMA IxPoints ==
  ASSUME MmapSized, NEW s, NEW w, Filled(s, w), NEW k \in Keys
  PROVE  /\ Ix(s)[k] \in Nat
         /\ Ix(s)[k] # 0 => /\ Ix(s)[k] \in Entries(s)
                            /\ s[Ix(s)[k]].key = k /\ s[Ix(s)[k]].val # Nothing
<1>1. PICK p \in 0 .. Len(s) : Latest(s, k, p) /\ Ix(s)[k] = Points(s, p)
  BY RecoveredIs DEF MmapSized, Ix
<1>2. Len(s) \in Nat
  BY DEF Filled
<1> QED BY <1>1, <1>2 DEF Latest, Points

\* Two files with the same last entry of a key.
LEMMA IxIs ==
  ASSUME MmapSized, NEW s, NEW w, Filled(s, w), NEW k \in Keys, NEW p, Latest(s, k, p)
  PROVE  Ix(s)[k] = Points(s, p)
<1>1. PICK q \in 0 .. Len(s) : Latest(s, k, q) /\ Ix(s)[k] = Points(s, q)
  BY RecoveredIs DEF MmapSized, Ix
<1>2. Len(s) \in Nat
  BY DEF Filled
<1>3. p = q
  BY <1>1, <1>2, LatestUnique
<1> QED BY <1>1, <1>3

LEMMA IxFunction ==
  ASSUME MmapSized, NEW s, NEW w, Filled(s, w)
  PROVE  Ix(s) \in [Keys -> Nat] /\ Mm!Recovered(s).pos = w
<1>1. Ix(s) = [k \in Keys |-> Ix(s)[k]] /\ Mm!Recovered(s).pos = w
  BY RecoveredIs DEF MmapSized, Ix
<1>2. \A k \in Keys : Ix(s)[k] \in Nat
  BY IxPoints
<1> QED BY <1>1, <1>2

LEMMA AppendedIx ==
  ASSUME MmapSized, NEW s, NEW w, Filled(s, w), NEW k \in Keys, NEW v \in Vals \cup {Nothing}
  PROVE  LET t == Mm!Overwrite(s, w, Mm!Cells(k, v)) IN
         Ix(t) = [Ix(s) EXCEPT ![k] = IF v = Nothing THEN 0 ELSE w]
<1> DEFINE t == Mm!Overwrite(s, w, Mm!Cells(k, v))
<1>0. Len(s) \in Nat /\ w \in Nat /\ w # 0
  BY DEF Filled
<1>1. /\ Filled(t, w + Mm!Size(v)) /\ Entries(t) = Entries(s) \cup {w}
      /\ \A p \in Entries(s) : t[p] = s[p]
      /\ t[w] = [key |-> k, val |-> v, part |-> 1]
  BY AppendedFile
<1> HIDE DEF t
<1>2. \A p \in Entries(s) : p \in Nat /\ p < w
  <2> SUFFICES ASSUME NEW p \in Entries(s) PROVE p \in Nat /\ p < w
    OBVIOUS
  <2>1. EntryThere(s, p) /\ p \in Nat
    BY <1>0 DEF Entries
  <2> QED BY <1>0, <2>1, EntryWithin
<1>3. Ix(t) \in [Keys -> Nat] /\ Ix(s) \in [Keys -> Nat]
  BY <1>1, IxFunction
<1>4. Ix(t)[k] = IF v = Nothing THEN 0 ELSE w
  <2>1. Latest(t, k, w)
    BY <1>0, <1>1, <1>2 DEF Latest
  <2> QED BY <1>0, <1>1, <2>1, IxIs DEF Points
<1>5. ASSUME NEW j \in Keys, j # k PROVE Ix(t)[j] = Ix(s)[j]
  <2>1. PICK p \in 0 .. Len(s) : Latest(s, j, p) /\ Ix(s)[j] = Points(s, p)
    BY RecoveredIs DEF MmapSized, Ix
  <2>2. Latest(t, j, p)
    BY <1>0, <1>1, <1>2, <1>5, <2>1 DEF Latest
  <2>3. Ix(t)[j] = Points(t, p)
    BY <1>1, <2>2, IxIs
  <2>4. p # 0 => t[p] = s[p]
    BY <1>1, <2>1 DEF Latest
  <2> QED BY <2>1, <2>3, <2>4 DEF Points
<1>6. Ix(t) = [Ix(s) EXCEPT ![k] = IF v = Nothing THEN 0 ELSE w]
  BY <1>3, <1>4, <1>5
<1> QED BY <1>6 DEF t

LEMMA TornIx ==
  ASSUME MmapSized, NEW s, NEW w, Filled(s, w), NEW t, Filled(t, w), Entries(t) = Entries(s),
         \A p \in Entries(s) : t[p] = s[p]
  PROVE  Ix(t) = Ix(s)
<1>1. Ix(t) \in [Keys -> Nat] /\ Ix(s) \in [Keys -> Nat]
  BY IxFunction
<1>2. ASSUME NEW j \in Keys PROVE Ix(t)[j] = Ix(s)[j]
  <2>1. PICK p \in 0 .. Len(s) : Latest(s, j, p) /\ Ix(s)[j] = Points(s, p)
    BY RecoveredIs DEF MmapSized, Ix
  <2>2. Latest(t, j, p)
    BY <2>1 DEF Latest
  <2>3. Ix(t)[j] = Points(t, p)
    BY <2>2, IxIs
  <2>4. p # 0 => t[p] = s[p]
    BY <2>1 DEF Latest
  <2> QED BY <2>1, <2>3, <2>4 DEF Points
<1> QED BY <1>1, <1>2

\* A file without entries.
LEMMA EmptyFile ==
  ASSUME MmapSized
  PROVE  Filled(<<>>, 1) /\ Entries(<<>>) = {} /\ Ix(<<>>) = Mm!NoIndex
<1>1. <<>> \in Seq(Cell) /\ Len(<<>>) = 0
  OBVIOUS
<1>2. Filled(<<>>, 1)
  BY <1>1 DEF Filled
<1>3. Entries(<<>>) = {}
  BY <1>1 DEF Entries
<1>4. Ix(<<>>) \in [Keys -> Nat]
  BY <1>2, IxFunction
<1>5. \A k \in Keys : Ix(<<>>)[k] = 0
  BY <1>2, <1>3, IxPoints
<1> QED BY <1>2, <1>3, <1>4, <1>5 DEF Mm!NoIndex

---------------------------------------------------------------------------
(* What compaction builds.                                                   *)

\* The ends of n entries, and the files that end there, exist.
LEMMA SumsExist ==
  ASSUME NEW n \in Nat, NEW X
  PROVE  \E f : f = [i \in 0 .. n |-> IF i = 0 THEN 1 ELSE f[i - 1] + X[i]]
<1> DEFINE F(m, f) == f = [i \in 0 .. m |-> IF i = 0 THEN 1 ELSE f[i - 1] + X[i]]
           S == {m \in 0 .. n : ~\E f : F(m, f)}
<1>1. CASE S = {}
  <2>1. n \in 0 .. n
    OBVIOUS
  <2> QED BY <1>1, <2>1
<1>2. CASE S # {}
  <2>1. S \in SUBSET Nat
    OBVIOUS
  <2>2. PICK m \in S : \A y \in S : m <= y
    <3> HIDE DEF S
    <3> QED BY <1>2, <2>1, LeastOf
  <2>3. m \in 0 .. n /\ ~\E f : F(m, f)
    OBVIOUS
  <2>4. CASE m = 0
    <3> DEFINE f == [i \in 0 .. 0 |-> 1]
    <3>1. F(0, f)
      OBVIOUS
    <3> QED BY <2>3, <2>4, <3>1
  <2>5. CASE m # 0
    <3>1. m - 1 \in 0 .. n /\ m - 1 < m
      BY <2>3, <2>5
    <3>2. m - 1 \notin S
      <4> HIDE DEF S
      <4> QED BY <2>2, <2>3, <3>1
    <3>3. PICK f : F(m - 1, f)
      BY <3>1, <3>2
    <3> DEFINE g == [i \in 0 .. m |-> IF i = m THEN f[m - 1] + X[m] ELSE f[i]]
    <3>4. \A i \in 0 .. m - 1 : g[i] = f[i]
      BY <2>3
    <3>5. g[m] = f[m - 1] + X[m]
      BY <2>3
    <3>6. \A i \in 0 .. m - 1 : f[i] = IF i = 0 THEN 1 ELSE f[i - 1] + X[i]
      BY <2>3, <3>3
    <3>7. DOMAIN g = 0 .. m /\ g = [i \in 0 .. m |-> g[i]]
      OBVIOUS
    <3> HIDE DEF g
    <3>8. ASSUME NEW i \in 0 .. m PROVE g[i] = IF i = 0 THEN 1 ELSE g[i - 1] + X[i]
      <4>1. CASE i = m
        <5>1. m - 1 \in 0 .. m - 1 /\ i # 0
          BY <2>3, <2>5, <4>1
        <5> QED BY <3>4, <3>5, <4>1, <5>1
      <4>2. CASE i # m
        <5>1. i \in 0 .. m - 1 /\ (i # 0 => i - 1 \in 0 .. m - 1)
          BY <2>3, <4>2
        <5> QED BY <3>4, <3>6, <5>1
      <4> QED BY <4>1, <4>2
    <3>9. F(m, g)
      BY <3>7, <3>8
    <3> QED BY <2>3, <3>9
  <2> QED BY <2>4, <2>5
<1> QED BY <1>1, <1>2

LEMMA JoinsExist ==
  ASSUME NEW n \in Nat, NEW X
  PROVE  \E f : f = [i \in 0 .. n |-> IF i = 0 THEN <<>> ELSE f[i - 1] \o X[i]]
<1> DEFINE F(m, f) == f = [i \in 0 .. m |-> IF i = 0 THEN <<>> ELSE f[i - 1] \o X[i]]
           S == {m \in 0 .. n : ~\E f : F(m, f)}
<1>1. CASE S = {}
  <2>1. n \in 0 .. n
    OBVIOUS
  <2> QED BY <1>1, <2>1
<1>2. CASE S # {}
  <2>1. S \in SUBSET Nat
    <3> HIDE DEF F
    <3> QED OBVIOUS
  <2>2. PICK m \in S : \A y \in S : m <= y
    <3> HIDE DEF S
    <3> QED BY <1>2, <2>1, LeastOf
  <2>3. m \in 0 .. n /\ ~\E f : F(m, f)
    OBVIOUS
  <2>4. CASE m = 0
    <3> DEFINE f == [i \in 0 .. 0 |-> <<>>]
    <3>1. F(0, f)
      OBVIOUS
    <3> QED BY <2>3, <2>4, <3>1
  <2>5. CASE m # 0
    <3>1. m - 1 \in 0 .. n /\ m - 1 < m
      BY <2>3, <2>5
    <3>2. m - 1 \notin S
      <4> HIDE DEF S
      <4> QED BY <2>2, <2>3, <3>1
    <3>3. PICK f : F(m - 1, f)
      BY <3>1, <3>2
    <3>a. PICK a : a = f[m - 1] \o X[m]
      OBVIOUS
    <3> DEFINE g == [i \in 0 .. m |-> IF i = m THEN a ELSE f[i]]
    <3>4. \A i \in 0 .. m - 1 : g[i] = f[i]
      BY <2>3
    <3>b. g[m] = a
      BY <2>3
    <3>5. g[m] = f[m - 1] \o X[m]
      BY <3>a, <3>b
    <3>6. \A i \in 0 .. m - 1 : f[i] = IF i = 0 THEN <<>> ELSE f[i - 1] \o X[i]
      BY <2>3, <3>3
    <3>7. DOMAIN g = 0 .. m /\ g = [i \in 0 .. m |-> g[i]]
      OBVIOUS
    <3> HIDE DEF g
    <3>8. ASSUME NEW i \in 0 .. m PROVE g[i] = IF i = 0 THEN <<>> ELSE g[i - 1] \o X[i]
      <4>1. CASE i = m
        <5>1. m - 1 \in 0 .. m - 1 /\ i # 0
          BY <2>3, <2>5, <4>1
        <5> QED BY <3>4, <3>5, <4>1, <5>1
      <4>2. CASE i # m
        <5>1. i \in 0 .. m - 1 /\ (i # 0 => i - 1 \in 0 .. m - 1)
          BY <2>3, <4>2
        <5> QED BY <3>4, <3>6, <5>1
      <4> QED BY <4>1, <4>2
    <3>9. F(m, g)
      BY <3>7, <3>8
    <3> QED BY <2>3, <3>9
  <2> QED BY <2>4, <2>5
<1> QED BY <1>1, <1>2

LEMMA SeqsEqual ==
  ASSUME NEW S, NEW a \in Seq(S), NEW b \in Seq(S), Len(a) = Len(b), \A i \in 1 .. Len(a) : a[i] = b[i]
  PROVE  a = b
OBVIOUS

\* The file e cells long after m entries, and what open would make of it.
BuiltTo(m, q, v, e, f) ==
  /\ Filled(f[m], e[m]) /\ Len(f[m]) = e[m] - 1
  /\ \A j \in 1 .. m : /\ e[j - 1] \in Nat \ {0} /\ Ix(f[m])[q[j]] = e[j - 1]
                       /\ e[j - 1] \in Entries(f[m]) /\ f[m][e[j - 1]].val = v[j]
  /\ \A k \in Keys : (\A j \in 1 .. m : q[j] # k) => Ix(f[m])[k] = 0

LEMMA BuiltNext ==
  ASSUME MmapSized, NEW n \in Nat, NEW q \in [1 .. n -> Keys], NEW v \in [1 .. n -> Vals],
         \A i, j \in 1 .. n : i # j => q[i] # q[j],
         NEW e, NEW f, NEW m \in 1 .. n,
         e[m] = e[m - 1] + Mm!Size(v[m]), f[m] = f[m - 1] \o Mm!Cells(q[m], v[m]),
         BuiltTo(m - 1, q, v, e, f)
  PROVE  BuiltTo(m, q, v, e, f)
<1> DEFINE s == f[m - 1]
           w == e[m - 1]
           k == q[m]
           u == v[m]
           c == Mm!Cells(k, u)
           t == Mm!Overwrite(s, w, c)
<1>0. m \in Nat /\ m # 0 /\ k \in Keys /\ u \in Vals /\ u \in Vals \cup {Nothing} /\ u # Nothing
  BY DEF MmapSized
<1>1. /\ Filled(s, w) /\ Len(s) = w - 1
      /\ \A j \in 1 .. m - 1 : /\ e[j - 1] \in Nat \ {0} /\ Ix(s)[q[j]] = e[j - 1]
                               /\ e[j - 1] \in Entries(s) /\ s[e[j - 1]].val = v[j]
      /\ \A x \in Keys : (\A j \in 1 .. m - 1 : q[j] # x) => Ix(s)[x] = 0
  BY DEF BuiltTo
<1>2. s \in Seq(Cell) /\ w \in 1 .. Len(s) + 1 /\ Len(s) \in Nat /\ w \in Nat \ {0}
  BY <1>1 DEF Filled
<1>3. c \in Seq(Cell) /\ Len(c) = Mm!Size(u) /\ Mm!Size(u) \in {1, 3}
  BY <1>0, CellsAre, SizeIs
<1>e. e[m] = w + Mm!Size(u) /\ f[m] = s \o c
  OBVIOUS
<1> HIDE DEF s, w, k, u, c, t
<1>4. f[m] = t
  <2>1. /\ t \in Seq(Cell)
        /\ Len(t) = IF w + Len(c) - 1 <= Len(s) THEN Len(s) ELSE w + Len(c) - 1
        /\ \A i \in 1 .. Len(t) : t[i] = IF i >= w /\ i < w + Len(c) THEN c[i - w + 1] ELSE s[i]
    BY <1>2, <1>3, OverwriteIs DEF t
  <2>2. Len(t) = Len(s) + Len(c)
    BY <1>1, <1>2, <1>3, <2>1
  <2>3. s \o c \in Seq(Cell) /\ Len(s \o c) = Len(s) + Len(c)
    BY <1>2, <1>3
  <2>4. ASSUME NEW i \in 1 .. Len(s) + Len(c) PROVE (s \o c)[i] = t[i]
    <3>1. (s \o c)[i] = IF i <= Len(s) THEN s[i] ELSE c[i - Len(s)]
      BY <1>2, <1>3
    <3>2. CASE i <= Len(s)
      <4>1. ~(i >= w)
        BY <1>1, <1>2, <1>3, <3>2
      <4> QED BY <2>1, <2>2, <3>1, <3>2, <4>1
    <3>3. CASE ~(i <= Len(s))
      <4>1. i >= w /\ i < w + Len(c) /\ i - w + 1 = i - Len(s)
        BY <1>1, <1>2, <1>3, <3>3
      <4> QED BY <2>1, <2>2, <3>1, <3>3, <4>1
    <3> QED BY <3>2, <3>3
  <2>5. s \o c = t
    <3> DEFINE a == s \o c
    <3>1. a \in Seq(Cell) /\ Len(a) = Len(t) /\ \A i \in 1 .. Len(a) : a[i] = t[i]
      BY <2>2, <2>3, <2>4
    <3> HIDE DEF a
    <3>2. a = t
      BY <2>1, <3>1, SeqsEqual
    <3> QED BY <3>2 DEF a
  <2> QED BY <1>e, <2>5
<1>5. /\ Filled(t, w + Mm!Size(u)) /\ Entries(t) = Entries(s) \cup {w}
      /\ \A p \in Entries(s) : t[p] = s[p]
      /\ t[w] = [key |-> k, val |-> u, part |-> 1]
  BY <1>0, <1>1, AppendedFile DEF t, c
<1>6. Ix(t) = [Ix(s) EXCEPT ![k] = w] /\ Ix(s) \in [Keys -> Nat]
  BY <1>0, <1>1, AppendedIx, IxFunction DEF t, c
<1>7. Filled(f[m], e[m]) /\ Len(f[m]) = e[m] - 1
  <2>1. Len(s \o c) = Len(s) + Len(c)
    BY <1>2, <1>3
  <2>2. Len(s) + Mm!Size(u) = w + Mm!Size(u) - 1
    BY <1>1, <1>2, <1>3
  <2>3. Filled(f[m], e[m])
    BY <1>4, <1>5, <1>e
  <2>4. Len(f[m]) = Len(s) + Mm!Size(u)
    BY <1>3, <1>e, <2>1
  <2>5. e[m] = w + Mm!Size(u)
    BY <1>e
  <2>6. e[m] - 1 = Len(s) + Mm!Size(u)
    BY <1>2, <1>3, <2>2, <2>5
  <2> QED BY <2>3, <2>4, <2>6
<1>8. ASSUME NEW j \in 1 .. m
      PROVE  /\ e[j - 1] \in Nat \ {0} /\ Ix(t)[q[j]] = e[j - 1]
             /\ e[j - 1] \in Entries(t) /\ t[e[j - 1]].val = v[j]
  <2>1. CASE j = m
    <3>1. q[j] = k /\ v[j] = u /\ e[j - 1] = w
      BY <2>1 DEF k, u, w
    <3>2. t[w].val = u
      BY <1>5
    <3> QED BY <1>0, <1>2, <1>5, <1>6, <3>1, <3>2
  <2>2. CASE j # m
    <3>1. j \in 1 .. m - 1 /\ j \in 1 .. n /\ m \in 1 .. n
      BY <1>0, <2>2
    <3>2. q[j] # k /\ q[j] \in Keys
      BY <2>2, <3>1 DEF k
    <3>3. /\ e[j - 1] \in Nat \ {0} /\ Ix(s)[q[j]] = e[j - 1]
          /\ e[j - 1] \in Entries(s) /\ s[e[j - 1]].val = v[j]
      BY <1>1, <3>1
    <3>4. Ix(t)[q[j]] = Ix(s)[q[j]]
      BY <1>6, <3>2
    <3> QED BY <1>5, <3>3, <3>4
  <2> QED BY <2>1, <2>2
<1>9. ASSUME NEW x \in Keys, \A j \in 1 .. m : q[j] # x PROVE Ix(t)[x] = 0
  <2>1. x # k
    BY <1>0, <1>9 DEF k
  <2>2. \A j \in 1 .. m - 1 : q[j] # x
    BY <1>0, <1>9
  <2>3. Ix(s)[x] = 0
    BY <1>1, <2>2
  <2> QED BY <1>6, <2>1, <2>3
<1> QED BY <1>4, <1>7, <1>8, <1>9 DEF BuiltTo

LEMMA BuiltAll ==
  ASSUME MmapSized, NEW n \in Nat, NEW q \in [1 .. n -> Keys], NEW v \in [1 .. n -> Vals],
         \A i, j \in 1 .. n : i # j => q[i] # q[j],
         NEW e, NEW f, e[0] = 1, f[0] = <<>>,
         \A i \in 1 .. n : /\ e[i] = e[i - 1] + Mm!Size(v[i])
                           /\ f[i] = f[i - 1] \o Mm!Cells(q[i], v[i])
  PROVE  BuiltTo(n, q, v, e, f)
<1> DEFINE S == {m \in 0 .. n : ~BuiltTo(m, q, v, e, f)}
<1>1. CASE S = {}
  <2>1. n \in 0 .. n
    OBVIOUS
  <2> QED BY <1>1, <2>1
<1>2. CASE S # {}
  <2>1. S \in SUBSET Nat
    OBVIOUS
  <2>2. PICK m \in S : \A y \in S : m <= y
    <3> HIDE DEF S
    <3> QED BY <1>2, <2>1, LeastOf
  <2>3. m \in 0 .. n /\ ~BuiltTo(m, q, v, e, f)
    OBVIOUS
  <2>4. CASE m = 0
    <3>1. Filled(<<>>, 1) /\ Ix(<<>>) = Mm!NoIndex
      BY EmptyFile
    <3>2. \A k \in Keys : Ix(<<>>)[k] = 0
      BY <3>1 DEF Mm!NoIndex
    <3>3. Len(<<>>) = 1 - 1
      OBVIOUS
    <3>4. BuiltTo(0, q, v, e, f)
      BY <3>1, <3>2, <3>3 DEF BuiltTo
    <3> QED BY <2>3, <2>4, <3>4
  <2>5. CASE m # 0
    <3>1. m - 1 \in 0 .. n /\ m - 1 < m /\ m \in 1 .. n
      BY <2>3, <2>5
    <3>2. m - 1 \notin S
      <4> HIDE DEF S
      <4> QED BY <2>2, <2>3, <3>1
    <3>3. BuiltTo(m - 1, q, v, e, f)
      BY <3>1, <3>2
    <3>4. e[m] = e[m - 1] + Mm!Size(v[m]) /\ f[m] = f[m - 1] \o Mm!Cells(q[m], v[m])
      BY <3>1
    <3>5. BuiltTo(m, q, v, e, f)
      BY <3>1, <3>3, <3>4, BuiltNext
    <3> QED BY <2>3, <3>5
  <2> QED BY <2>4, <2>5
<1> QED BY <1>1, <1>2

\* compact writes a file that holds the live entries, and the index of it.
BuildsTo(c, t, w, ix) ==
  /\ disk' = [disk EXCEPT ![used.compact + 2] = t]
  /\ op' = [op EXCEPT ![c].kind = "compact", ![c].pc = "rename", ![c].at = w, ![c].index = ix]
  /\ Filled(t, w) /\ ix = Ix(t)
  /\ \A k \in Mm!Live : ix[k] \in Entries(t) /\ ix[k] # 0 /\ t[ix[k]].val = Mm!ValueOf(k)
  /\ \A k \in Keys : k \notin Mm!Live => ix[k] = 0

LEMMA Compacts ==
  ASSUME MmapSized, NEW c, Mm!CompactBuild(c), \A k \in Mm!Live : Mm!ValueOf(k) \in Vals
  PROVE  \E t, w, ix : BuildsTo(c, t, w, ix)
<1>1. PICK q \in Mm!Orders(Mm!Live) :
       LET ends == CHOOSE g : g = [i \in 0 .. Len(q) |-> IF i = 0 THEN 1 ELSE g[i - 1] + Mm!Size(Mm!ValueOf(q[i]))]
           file == CHOOSE g : g = [i \in 0 .. Len(q) |-> IF i = 0 THEN <<>>
                                                       ELSE g[i - 1] \o Mm!Cells(q[i], Mm!ValueOf(q[i]))]
       IN /\ disk' = [disk EXCEPT ![used.compact + 2] = file[Len(q)]]
          /\ op' = [op EXCEPT ![c].kind = "compact", ![c].pc = "rename", ![c].at = ends[Len(q)],
                    ![c].index = [k \in Keys |-> IF k \in Mm!Live
                                                 THEN ends[(CHOOSE i \in DOMAIN q : q[i] = k) - 1]
                                                 ELSE 0]]
  BY DEF Mm!CompactBuild
<1> DEFINE n == Cardinality(Mm!Live)
<1>2. Mm!Live \subseteq Keys /\ IsFiniteSet(Mm!Live) /\ n \in Nat
  <2>1. Mm!Live \subseteq Keys
    BY DEF Mm!Live
  <2> QED BY <2>1, FS_Subset, FS_CardinalityType DEF MmapSized
<1>b. Mm!Cardinality(Mm!Live) = n
  BY DEF Mm!Cardinality, Cardinality
<1>a. q \in [1 .. n -> Mm!Live] /\ \A i, j \in DOMAIN q : i # j => q[i] # q[j]
  BY <1>b DEF Mm!Orders
<1>3. q \in [1 .. n -> Mm!Live] /\ \A i, j \in 1 .. n : i # j => q[i] # q[j]
  BY <1>a
<1> HIDE DEF n
<1>4. Len(q) = n /\ DOMAIN q = 1 .. n /\ q \in [1 .. n -> Keys]
  BY <1>2, <1>3
<1>6. \A k \in Mm!Live : \E i \in 1 .. n : q[i] = k
  <2>1. IsFiniteSet(1 .. n) /\ Cardinality(1 .. n) = n
    BY <1>2, FS_Interval
  <2>2. q \in Injection(1 .. n, Mm!Live)
    BY <1>3 DEF Injection, IsInjective
  <2>3. Cardinality(1 .. n) = Cardinality(Mm!Live)
    BY <2>1 DEF n
  <2>4. q \in Surjection(1 .. n, Mm!Live)
    BY <1>2, <2>2, <2>3, FS_Injection
  <2> QED BY <2>4 DEF Surjection
<1> DEFINE e == CHOOSE g : g = [i \in 0 .. Len(q) |-> IF i = 0 THEN 1 ELSE g[i - 1] + Mm!Size(Mm!ValueOf(q[i]))]
           f == CHOOSE g : g = [i \in 0 .. Len(q) |-> IF i = 0 THEN <<>>
                                                       ELSE g[i - 1] \o Mm!Cells(q[i], Mm!ValueOf(q[i]))]
           ix == [k \in Keys |-> IF k \in Mm!Live THEN e[(CHOOSE i \in DOMAIN q : q[i] = k) - 1] ELSE 0]
           v == [i \in 1 .. n |-> Mm!ValueOf(q[i])]
<1>5. v \in [1 .. n -> Vals] /\ \A i \in 1 .. n : v[i] = Mm!ValueOf(q[i])
  BY <1>3
<1>7. e = [i \in 0 .. n |-> IF i = 0 THEN 1 ELSE e[i - 1] + Mm!Size(Mm!ValueOf(q[i]))]
  <2> DEFINE X == [i \in 1 .. n |-> Mm!Size(Mm!ValueOf(q[i]))]
  <2>1. PICK g : g = [i \in 0 .. n |-> IF i = 0 THEN 1 ELSE g[i - 1] + X[i]]
    BY <1>2, SumsExist
  <2>2. \A i \in 0 .. n : i # 0 => X[i] = Mm!Size(Mm!ValueOf(q[i]))
    BY <1>2
  <2> HIDE DEF X
  <2>3. [i \in 0 .. n |-> IF i = 0 THEN 1 ELSE g[i - 1] + X[i]]
        = [i \in 0 .. n |-> IF i = 0 THEN 1 ELSE g[i - 1] + Mm!Size(Mm!ValueOf(q[i]))]
    BY <2>2
  <2>4. g = [i \in 0 .. n |-> IF i = 0 THEN 1 ELSE g[i - 1] + Mm!Size(Mm!ValueOf(q[i]))]
    BY <2>1, <2>3
  <2> QED BY <1>4, <2>4
<1>8. f = [i \in 0 .. n |-> IF i = 0 THEN <<>> ELSE f[i - 1] \o Mm!Cells(q[i], Mm!ValueOf(q[i]))]
  <2> DEFINE X == [i \in 1 .. n |-> Mm!Cells(q[i], Mm!ValueOf(q[i]))]
  <2>1. PICK g : g = [i \in 0 .. n |-> IF i = 0 THEN <<>> ELSE g[i - 1] \o X[i]]
    BY <1>2, JoinsExist
  <2>2. \A i \in 0 .. n : i # 0 => X[i] = Mm!Cells(q[i], Mm!ValueOf(q[i]))
    BY <1>2
  <2> HIDE DEF X
  <2>3. [i \in 0 .. n |-> IF i = 0 THEN <<>> ELSE g[i - 1] \o X[i]]
        = [i \in 0 .. n |-> IF i = 0 THEN <<>> ELSE g[i - 1] \o Mm!Cells(q[i], Mm!ValueOf(q[i]))]
    BY <2>2
  <2>4. g = [i \in 0 .. n |-> IF i = 0 THEN <<>> ELSE g[i - 1] \o Mm!Cells(q[i], Mm!ValueOf(q[i]))]
    BY <2>1, <2>3
  <2> QED BY <1>4, <2>4
<1>9. /\ disk' = [disk EXCEPT ![used.compact + 2] = f[n]]
      /\ op' = [op EXCEPT ![c].kind = "compact", ![c].pc = "rename", ![c].at = e[n], ![c].index = ix]
  BY <1>1, <1>4
<1>10. ASSUME NEW k \in Mm!Live
       PROVE  \E i \in 1 .. n : q[i] = k /\ ix[k] = e[i - 1]
  <2> DEFINE i == CHOOSE i \in DOMAIN q : q[i] = k
  <2>1. i \in 1 .. n /\ q[i] = k
    BY <1>4, <1>6
  <2>2. ix[k] = e[i - 1]
    BY <1>2
  <2> QED BY <2>1, <2>2
<1>11. \A k \in Keys : k \notin Mm!Live => ix[k] = 0
  OBVIOUS
<1>12. ix = [k \in Keys |-> ix[k]]
  OBVIOUS
<1> HIDE DEF e, f, ix, v
<1>13. e[0] = 1 /\ \A i \in 1 .. n : e[i] = e[i - 1] + Mm!Size(v[i])
  BY <1>2, <1>5, <1>7
<1>14. f[0] = <<>> /\ \A i \in 1 .. n : f[i] = f[i - 1] \o Mm!Cells(q[i], v[i])
  BY <1>2, <1>5, <1>8
<1>15. BuiltTo(n, q, v, e, f)
  BY <1>2, <1>3, <1>4, <1>5, <1>13, <1>14, BuiltAll
<1>16. Filled(f[n], e[n]) /\ Ix(f[n]) \in [Keys -> Nat]
  BY <1>15, IxFunction DEF BuiltTo
<1>17. ASSUME NEW k \in Mm!Live
       PROVE  /\ ix[k] \in Entries(f[n]) /\ ix[k] # 0 /\ f[n][ix[k]].val = Mm!ValueOf(k)
              /\ ix[k] = Ix(f[n])[k]
  <2>1. PICK i \in 1 .. n : q[i] = k /\ ix[k] = e[i - 1]
    BY <1>10
  <2>2. /\ e[i - 1] \in Nat \ {0} /\ Ix(f[n])[q[i]] = e[i - 1]
        /\ e[i - 1] \in Entries(f[n]) /\ f[n][e[i - 1]].val = v[i]
    BY <1>15 DEF BuiltTo
  <2> QED BY <1>5, <2>1, <2>2
<1>18. ASSUME NEW k \in Keys, k \notin Mm!Live PROVE ix[k] = Ix(f[n])[k]
  <2>1. \A j \in 1 .. n : q[j] # k
    BY <1>3, <1>18
  <2>2. Ix(f[n])[k] = 0
    BY <1>15, <2>1 DEF BuiltTo
  <2> QED BY <1>11, <1>18, <2>2
<1>19. ix = Ix(f[n])
  BY <1>2, <1>12, <1>16, <1>17, <1>18
<1>20. PICK t, w, i : t = f[n] /\ w = e[n] /\ i = ix
  OBVIOUS
<1>21. /\ disk' = [disk EXCEPT ![used.compact + 2] = t]
       /\ op' = [op EXCEPT ![c].kind = "compact", ![c].pc = "rename", ![c].at = w, ![c].index = i]
  BY <1>9, <1>20
<1>22. /\ Filled(t, w) /\ i = Ix(t)
       /\ \A k \in Mm!Live : i[k] \in Entries(t) /\ i[k] # 0 /\ t[i[k]].val = Mm!ValueOf(k)
       /\ \A k \in Keys : k \notin Mm!Live => i[k] = 0
  BY <1>11, <1>16, <1>17, <1>19, <1>20
<1> QED BY <1>21, <1>22 DEF BuildsTo

---------------------------------------------------------------------------
(* The store.                                                                *)

\* What a file holds for a key.
FileValue(s, k) == IF Ix(s)[k] = 0 THEN Nothing ELSE s[Ix(s)[k]].val

OpIs(o) ==
  /\ o = [kind |-> o.kind, pc |-> o.pc, key |-> o.key, val |-> o.val, at |-> o.at,
          known |-> o.known, from |-> o.from, index |-> o.index]
  /\ \/ o = Mm!NoOp
     \/ o.kind = "put" /\ o.pc \in {"append", "index"} /\ o.key \in Keys /\ o.val \in Vals
     \/ o.kind = "delete" /\ o.pc = "append" /\ o.key \in Keys /\ o.val = Nothing
     \/ o.kind = "get" /\ o.pc \in {"read", "return"} /\ o.key \in Keys
     \/ o.kind = "compact" /\ o.pc \in {"rename", "file", "index", "end"}

MmShape ==
  /\ disk \in [Mm!Files -> Seq(Cell)]
  /\ used = [write |-> used.write, compact |-> used.compact, restart |-> used.restart,
             fault |-> used.fault, clear |-> used.clear]
  /\ used.compact \in 0 .. MaxCompacts /\ used.fault \in 0 .. MaxFaults
  /\ path \in 1 .. used.compact + 1 /\ handle \in 1 .. used.compact + 1
  /\ index \in [Keys -> Nat] /\ acked \in [Keys -> SUBSET (Vals \cup {Nothing})]
  /\ op = [c \in Clients |-> op[c]] /\ \A c \in Clients : OpIs(op[c])

\* A put that is in the file and not in the index.
Unindexed(o, k) == o.kind = "put" /\ o.pc = "index" /\ o.key = k

\* The path, the handle or the index are those of the new file already.
Switching(o) == o.kind = "compact" /\ o.pc \in {"file", "index", "end"}

\* The index follows the open file, but for the key of a write under way and
\* one whose tombstone could not be written.
Agrees(o, k) ==
  \/ index[k] = Ix(disk[handle])[k]
  \/ Unindexed(o, k)
  \/ index[k] = 0 /\ \/ o.kind = "delete" /\ o.key = k
                     \/ Nothing \in acked[k] /\ used.fault > 0

\* The new file is whole and holds what was answered.
NewFile(o) ==
  LET n == used.compact + 1 IN
  /\ Filled(disk[n], o.at) /\ o.index = Ix(disk[n])
  /\ \A k \in Keys : FileValue(disk[n], k) \in acked[k]
  /\ o.pc = "rename" => handle # n
  /\ o.pc # "rename" => path = n
  /\ o.pc \in {"index", "end"} => handle = n
  /\ o.pc = "end" => index = o.index

\* How far an operation is.
OpHolds(o) ==
  /\ o.kind = "compact" => NewFile(o)
  /\ (o.kind = "put" /\ o.pc = "index") =>
       Ix(disk[handle])[o.key] = o.at /\ o.at # 0 /\ disk[handle][o.at].val = o.val
  /\ o.kind = "delete" => index[o.key] = 0
  /\ (o.kind = "get" /\ o.pc = "read") => o.at = index[o.key] /\ o.at # 0
  /\ (o.kind = "get" /\ o.pc = "return") => o.from \in {o.key, Nothing}

FileHolds(o) ==
  /\ ~Switching(o) =>
       /\ path = handle /\ Filled(disk[handle], write_pos)
       /\ \A k \in Keys : Agrees(o, k)
  /\ \A k \in Keys : Unindexed(o, k) \/ FileValue(disk[path], k) \in acked[k]

MmInv == MmShape /\ \A c \in Clients : FileHolds(op[c]) /\ OpHolds(op[c])

\* len() counts the keys of the index, and one more while a delete is under way.
Kept == {k \in Keys : index[k] # 0}
Counted(o) ==
  /\ used.fault = 0
  /\ count = Cardinality(Kept) + (IF o.kind = "delete" THEN 1 ELSE 0)
  /\ o.kind = "put" => (o.known <=> index[o.key] # 0)
  /\ o.kind = "compact" => {k \in Keys : o.index[k] # 0} = Kept

\* What there is to show after a step of the only client.
LEMMA MmAfter ==
  ASSUME NEW c, Clients = {c}, MmShape', FileHolds(op[c])', OpHolds(op[c])'
  PROVE  MmInv'
BY DEF MmInv

LEMMA AskPutHolds ==
  ASSUME MmapSized, NEW c, Clients = {c}, MmInv, NEW k \in Keys, NEW v \in Vals, Mm!AskPut(c, k, v)
  PROVE  MmInv'
<1>1. MmShape /\ FileHolds(op[c]) /\ OpHolds(op[c]) /\ c \in Clients
  BY DEF MmInv
<1>2. op[c] = Mm!NoOp /\ UNCHANGED <<disk, path, handle, write_pos, index, count, acked>>
  BY DEF Mm!AskPut
<1>3. used' = [used EXCEPT !.write = @ + 1]
  BY DEF Mm!AskPut, Mm!Use
<1>b. PICK b : b = (index[k] # 0)
  OBVIOUS
<1>4. /\ op' = [x \in Clients |-> op'[x]]
      /\ op'[c] = [kind |-> "put", pc |-> "append", key |-> k, val |-> v, at |-> op[c].at,
                   known |-> b, from |-> op[c].from, index |-> op[c].index]
  <2>1. op' = [op EXCEPT ![c].kind = "put", ![c].pc = "append", ![c].key = k, ![c].val = v,
                         ![c].known = b]
    BY <1>b DEF Mm!AskPut
  <2>2. op = [x \in Clients |-> op[x]]
    BY <1>1 DEF MmShape
  <2>3. op' = [x \in Clients |-> op'[x]]
    BY <2>1, <2>2
  <2>4. op'[c] = [op[c] EXCEPT !.kind = "put", !.pc = "append", !.key = k, !.val = v,
                         !.known = b]
    BY <1>1, <2>1, <2>2
  <2>5. op[c] = [kind |-> op[c].kind, pc |-> op[c].pc, key |-> op[c].key, val |-> op[c].val,
                 at |-> op[c].at, known |-> op[c].known, from |-> op[c].from, index |-> op[c].index]
    BY <1>1 DEF MmShape, OpIs
  <2>6. op'[c] = [kind |-> "put", pc |-> "append", key |-> k, val |-> v, at |-> op[c].at,
                   known |-> b, from |-> op[c].from, index |-> op[c].index]
    BY <2>4, <2>5
  <2> QED BY <2>3, <2>6
<1>5. /\ used' = [write |-> used'.write, compact |-> used'.compact, restart |-> used'.restart,
                  fault |-> used'.fault, clear |-> used'.clear]
      /\ used'.compact = used.compact /\ used'.fault = used.fault
  BY <1>1, <1>3 DEF MmShape
<1>6. OpIs(op[c])'
  BY <1>4 DEF OpIs
<1>7. MmShape'
  BY <1>1, <1>2, <1>4, <1>5, <1>6 DEF MmShape
<1>8. FileHolds(op[c])'
  BY <1>1, <1>2, <1>4, <1>5 DEF FileHolds, Switching, Agrees, Unindexed, Mm!NoOp
<1>9. OpHolds(op[c])'
  BY <1>4 DEF OpHolds
<1> QED BY <1>7, <1>8, <1>9, MmAfter

LEMMA GetIndexHolds ==
  ASSUME MmapSized, NEW c, Clients = {c}, MmInv, NEW k \in Keys, Mm!GetIndex(c, k)
  PROVE  MmInv'
<1>1. MmShape /\ FileHolds(op[c]) /\ OpHolds(op[c]) /\ OpIs(op[c]) /\ c \in Clients
  BY DEF MmInv, MmShape
<1>2. /\ op[c] = Mm!NoOp /\ index[k] # 0
      /\ UNCHANGED <<disk, path, handle, write_pos, index, count, acked, used>>
  BY DEF Mm!GetIndex
<1>4. /\ op' = [x \in Clients |-> op'[x]]
      /\ op'[c] = [kind |-> "get", pc |-> "read", key |-> k, val |-> op[c].val, at |-> index[k],
                   known |-> op[c].known, from |-> op[c].from, index |-> op[c].index]
  <2>1. op' = [op EXCEPT ![c].kind = "get", ![c].pc = "read", ![c].key = k, ![c].at = index[k]]
    BY DEF Mm!GetIndex
  <2>2. op = [x \in Clients |-> op[x]]
    BY <1>1 DEF MmShape
  <2>3. op' = [x \in Clients |-> op'[x]]
    BY <2>1, <2>2
  <2>4. op'[c] = [op[c] EXCEPT !.kind = "get", !.pc = "read", !.key = k, !.at = index[k]]
    BY <1>1, <2>1, <2>2
  <2>5. op[c] = [kind |-> op[c].kind, pc |-> op[c].pc, key |-> op[c].key, val |-> op[c].val,
                 at |-> op[c].at, known |-> op[c].known, from |-> op[c].from, index |-> op[c].index]
    BY <1>1 DEF MmShape, OpIs
  <2>6. op'[c] = [kind |-> "get", pc |-> "read", key |-> k, val |-> op[c].val, at |-> index[k],
                  known |-> op[c].known, from |-> op[c].from, index |-> op[c].index]
    BY <2>4, <2>5
  <2> QED BY <2>3, <2>6
<1>7. MmShape'
  BY <1>1, <1>2, <1>4 DEF MmShape, OpIs
<1>8. FileHolds(op[c])'
  BY <1>1, <1>2, <1>4 DEF FileHolds, Switching, Agrees, Unindexed, Mm!NoOp
<1>9. OpHolds(op[c])'
  BY <1>2, <1>4 DEF OpHolds
<1> QED BY <1>7, <1>8, <1>9, MmAfter

LEMMA GetReturnsHolds ==
  ASSUME MmapSized, NEW c, Clients = {c}, MmInv, Mm!GetReturns(c)
  PROVE  MmInv'
<1>1. MmShape /\ FileHolds(op[c]) /\ OpHolds(op[c]) /\ OpIs(op[c]) /\ c \in Clients
  BY DEF MmInv, MmShape
<1>2. /\ op[c].kind = "get"
      /\ UNCHANGED <<disk, path, handle, write_pos, index, count, acked, used>>
  BY DEF Mm!GetReturns, Mm!Kind
<1>4. op' = [x \in Clients |-> op'[x]] /\ op'[c] = Mm!NoOp /\ OpIs(op'[c])
  <2>1. op' = [op EXCEPT ![c] = Mm!NoOp]
    BY DEF Mm!GetReturns, Mm!Finish
  <2>2. op = [x \in Clients |-> op[x]]
    BY <1>1 DEF MmShape
  <2>3. OpIs(Mm!NoOp)
    BY DEF OpIs, Mm!NoOp
  <2> QED BY <1>1, <2>1, <2>2, <2>3
<1>7. MmShape'
  BY <1>1, <1>2, <1>4 DEF MmShape
<1>8. FileHolds(op[c])'
  BY <1>1, <1>2, <1>4 DEF FileHolds, Switching, Agrees, Unindexed, Mm!NoOp
<1>9. OpHolds(op[c])'
  BY <1>4 DEF OpHolds, Mm!NoOp
<1> QED BY <1>7, <1>8, <1>9, MmAfter

LEMMA PutIndexHolds ==
  ASSUME MmapSized, NEW c, Clients = {c}, MmInv, Mm!PutIndex(c)
  PROVE  MmInv'
<1>1. MmShape /\ FileHolds(op[c]) /\ OpHolds(op[c]) /\ OpIs(op[c]) /\ c \in Clients
  BY DEF MmInv, MmShape
<1> DEFINE k == op[c].key
<1>2. /\ op[c].kind = "put" /\ op[c].pc = "index" /\ k \in Keys /\ op[c].val \in Vals
      /\ UNCHANGED <<disk, path, handle, write_pos, used>>
      /\ index' = [index EXCEPT ![k] = op[c].at]
      /\ acked' = [acked EXCEPT ![k] = {op[c].val}]
  BY <1>1 DEF Mm!PutIndex, Mm!Kind, OpIs, Mm!NoOp
<1>3. /\ Ix(disk[handle])[k] = op[c].at /\ op[c].at # 0 /\ disk[handle][op[c].at].val = op[c].val
      /\ path = handle /\ Filled(disk[handle], write_pos)
  BY <1>1, <1>2 DEF OpHolds, FileHolds, Switching
<1>4. op' = [x \in Clients |-> op'[x]] /\ op'[c] = Mm!NoOp /\ OpIs(op'[c])
  <2>1. op' = [op EXCEPT ![c] = Mm!NoOp]
    BY DEF Mm!PutIndex, Mm!Finish
  <2>2. op = [x \in Clients |-> op[x]]
    BY <1>1 DEF MmShape
  <2>3. OpIs(Mm!NoOp)
    BY DEF OpIs, Mm!NoOp
  <2> QED BY <1>1, <2>1, <2>2, <2>3
<1>5. op[c].at \in Nat /\ Ix(disk[handle]) \in [Keys -> Nat]
  BY <1>2, <1>3, IxFunction
<1>6. FileValue(disk[handle], k) = op[c].val
  BY <1>3 DEF FileValue
<1>7. MmShape'
  <2>1. index' \in [Keys -> Nat] /\ acked' \in [Keys -> SUBSET (Vals \cup {Nothing})]
    BY <1>1, <1>2, <1>5 DEF MmShape
  <2> QED BY <1>1, <1>2, <1>4, <2>1 DEF MmShape
<1>8. FileHolds(op[c])'
  <2>1. ASSUME NEW j \in Keys PROVE Agrees(op[c], j)'
    <3>1. CASE j = k
      <4>1. index'[j] = Ix(disk'[handle'])[j]
        BY <1>1, <1>2, <1>3, <3>1 DEF MmShape
      <4> QED BY <4>1 DEF Agrees
    <3>2. CASE j # k
      <4>1. index'[j] = index[j] /\ acked'[j] = acked[j]
        BY <1>1, <1>2, <3>2 DEF MmShape
      <4>2. Agrees(op[c], j)
        BY <1>1, <1>2 DEF FileHolds, Switching
      <4> QED BY <1>2, <3>2, <4>1, <4>2 DEF Agrees, Unindexed
    <3> QED BY <3>1, <3>2
  <2>2. ASSUME NEW j \in Keys PROVE FileValue(disk[path], j)' \in acked'[j]
    <3>1. CASE j = k
      BY <1>1, <1>2, <1>3, <1>6, <3>1 DEF MmShape
    <3>2. CASE j # k
      <4>1. acked'[j] = acked[j]
        BY <1>1, <1>2, <3>2 DEF MmShape
      <4>2. FileValue(disk[path], j) \in acked[j]
        BY <1>1, <3>2 DEF FileHolds, Unindexed
      <4> QED BY <1>2, <4>1, <4>2
    <3> QED BY <3>1, <3>2
  <2> QED BY <1>2, <1>3, <2>1, <2>2 DEF FileHolds
<1>9. OpHolds(op[c])'
  BY <1>4 DEF OpHolds, Mm!NoOp
<1> QED BY <1>7, <1>8, <1>9, MmAfter

LEMMA DeleteIndexHolds ==
  ASSUME MmapSized, NEW c, Clients = {c}, MmInv, NEW k \in Keys, Mm!DeleteIndex(c, k)
  PROVE  MmInv'
<1>1. MmShape /\ FileHolds(op[c]) /\ OpHolds(op[c]) /\ OpIs(op[c]) /\ c \in Clients
  BY DEF MmInv, MmShape
<1>2. /\ op[c] = Mm!NoOp /\ index' = [index EXCEPT ![k] = 0]
      /\ UNCHANGED <<disk, path, handle, write_pos, count, acked>>
      /\ used' = [used EXCEPT !.write = @ + 1]
  BY DEF Mm!DeleteIndex, Mm!Use
<1>3. /\ used' = [write |-> used'.write, compact |-> used'.compact, restart |-> used'.restart,
                  fault |-> used'.fault, clear |-> used'.clear]
      /\ used'.compact = used.compact /\ used'.fault = used.fault
  BY <1>1, <1>2 DEF MmShape
<1>4. /\ op' = [x \in Clients |-> op'[x]]
      /\ op'[c] = [kind |-> "delete", pc |-> "append", key |-> k, val |-> op[c].val,
                   at |-> op[c].at, known |-> op[c].known, from |-> op[c].from,
                   index |-> op[c].index]
  <2>1. op' = [op EXCEPT ![c].kind = "delete", ![c].pc = "append", ![c].key = k]
    BY DEF Mm!DeleteIndex
  <2>2. op = [x \in Clients |-> op[x]]
    BY <1>1 DEF MmShape
  <2>3. op' = [x \in Clients |-> op'[x]]
    BY <2>1, <2>2
  <2>4. op'[c] = [op[c] EXCEPT !.kind = "delete", !.pc = "append", !.key = k]
    BY <1>1, <2>1, <2>2
  <2>5. op[c] = [kind |-> op[c].kind, pc |-> op[c].pc, key |-> op[c].key, val |-> op[c].val,
                 at |-> op[c].at, known |-> op[c].known, from |-> op[c].from, index |-> op[c].index]
    BY <1>1 DEF MmShape, OpIs
  <2>6. op'[c] = [kind |-> "delete", pc |-> "append", key |-> k, val |-> op[c].val,
                  at |-> op[c].at, known |-> op[c].known, from |-> op[c].from,
                  index |-> op[c].index]
    BY <2>4, <2>5
  <2> QED BY <2>3, <2>6
<1>5. op[c].val = Nothing
  BY <1>2 DEF Mm!NoOp
<1>7. MmShape'
  <2>1. OpIs(op'[c])
    BY <1>4, <1>5 DEF OpIs
  <2>2. index' \in [Keys -> Nat]
    BY <1>1, <1>2 DEF MmShape
  <2> QED BY <1>1, <1>2, <1>3, <1>4, <2>1, <2>2 DEF MmShape
<1>8. FileHolds(op[c])'
  <2>1. ASSUME NEW j \in Keys PROVE Agrees(op[c], j)'
    <3>1. CASE j = k
      <4>1. index'[j] = 0 /\ op'[c].kind = "delete" /\ op'[c].key = j
        BY <1>1, <1>2, <1>4, <3>1 DEF MmShape
      <4> QED BY <4>1 DEF Agrees
    <3>2. CASE j # k
      <4>1. index'[j] = index[j] /\ acked'[j] = acked[j]
        BY <1>1, <1>2, <3>2 DEF MmShape
      <4>3. op[c].kind = "none"
        BY <1>2 DEF Mm!NoOp
      <4>4. ~Switching(op[c]) /\ ~Unindexed(op[c], j) /\ op[c].kind # "delete"
        BY <4>3 DEF Switching, Unindexed
      <4>2. Agrees(op[c], j) /\ ~Unindexed(op[c], j) /\ op[c].kind # "delete"
        BY <1>1, <4>4 DEF FileHolds
      <4> QED BY <1>2, <1>3, <4>1, <4>2 DEF Agrees
    <3> QED BY <3>1, <3>2
  <2>2. path' = handle' /\ Filled(disk[handle], write_pos)'
    BY <1>1, <1>2 DEF FileHolds, Switching, Mm!NoOp
  <2>3. ASSUME NEW j \in Keys PROVE FileValue(disk[path], j)' \in acked'[j]
    BY <1>1, <1>2 DEF FileHolds, Unindexed, Mm!NoOp
  <2> QED BY <2>1, <2>2, <2>3 DEF FileHolds
<1>9. OpHolds(op[c])'
  <2>1. index'[k] = 0
    BY <1>1, <1>2 DEF MmShape
  <2> QED BY <1>4, <2>1 DEF OpHolds
<1> QED BY <1>7, <1>8, <1>9, MmAfter

LEMMA GetFileHolds ==
  ASSUME MmapSized, NEW c, Clients = {c}, MmInv, Mm!GetFile(c)
  PROVE  MmInv'
<1>1. MmShape /\ FileHolds(op[c]) /\ OpHolds(op[c]) /\ OpIs(op[c]) /\ c \in Clients
  BY DEF MmInv, MmShape
<1> DEFINE s == disk[handle]
           a == op[c].at
           k == op[c].key
<1>2. /\ op[c].kind = "get" /\ op[c].pc = "read" /\ k \in Keys
      /\ UNCHANGED <<disk, path, handle, write_pos, index, count, acked, used>>
  BY <1>1 DEF Mm!GetFile, Mm!Kind, OpIs, Mm!NoOp
<1>3. /\ Filled(s, write_pos) /\ a = index[k] /\ a # 0 /\ Agrees(op[c], k) /\ ~Unindexed(op[c], k)
  BY <1>1, <1>2 DEF FileHolds, OpHolds, Switching, Unindexed
<1>5. a \in Entries(s) /\ s[a].key = k
  <2>1. index[k] = Ix(s)[k]
    BY <1>2, <1>3 DEF Agrees
  <2> QED BY <1>2, <1>3, <2>1, IxPoints
<1>6. PICK v, f : /\ op' = [op EXCEPT ![c].pc = "return", ![c].val = v, ![c].from = f]
                  /\ f \in {k, Nothing}
  <2>1. CASE Mm!Whole(s, a)
    <3>1. Mm!EntryAt(s, a).key = k
      BY <1>5, <2>1 DEF Mm!EntryAt
    <3>2. op' = [op EXCEPT ![c].pc = "return", ![c].val = Mm!EntryAt(s, a).val,
                           ![c].from = Mm!EntryAt(s, a).key]
      BY <2>1 DEF Mm!GetFile
    <3> QED BY <3>1, <3>2
  <2>2. CASE ~Mm!Whole(s, a)
    <3>1. op' = [op EXCEPT ![c].pc = "return", ![c].from = Nothing]
      BY <2>2 DEF Mm!GetFile
    <3>2. op[c] = [kind |-> op[c].kind, pc |-> op[c].pc, key |-> op[c].key, val |-> op[c].val,
                   at |-> op[c].at, known |-> op[c].known, from |-> op[c].from, index |-> op[c].index]
      BY <1>1 DEF OpIs
    <3>3. op = [x \in Clients |-> op[x]]
      BY <1>1 DEF MmShape
    <3>4. op' = [op EXCEPT ![c].pc = "return", ![c].val = op[c].val, ![c].from = Nothing]
      BY <1>1, <3>1, <3>2, <3>3
    <3> QED BY <3>4
  <2> QED BY <2>1, <2>2
<1>4. /\ op' = [x \in Clients |-> op'[x]]
      /\ op'[c] = [kind |-> op[c].kind, pc |-> "return", key |-> op[c].key, val |-> v,
                   at |-> op[c].at, known |-> op[c].known, from |-> f, index |-> op[c].index]
  <2>1. op' = [op EXCEPT ![c].pc = "return", ![c].val = v, ![c].from = f]
    BY <1>6
  <2>2. op = [x \in Clients |-> op[x]]
    BY <1>1 DEF MmShape
  <2>3. op' = [x \in Clients |-> op'[x]]
    BY <2>1, <2>2
  <2>4. op'[c] = [op[c] EXCEPT !.pc = "return", !.val = v, !.from = f]
    BY <1>1, <2>1, <2>2
  <2>5. op[c] = [kind |-> op[c].kind, pc |-> op[c].pc, key |-> op[c].key, val |-> op[c].val,
                 at |-> op[c].at, known |-> op[c].known, from |-> op[c].from, index |-> op[c].index]
    BY <1>1 DEF MmShape, OpIs
  <2>6. op'[c] = [kind |-> op[c].kind, pc |-> "return", key |-> op[c].key, val |-> v,
                  at |-> op[c].at, known |-> op[c].known, from |-> f, index |-> op[c].index]
    BY <2>4, <2>5
  <2> QED BY <2>3, <2>6
<1>7. MmShape'
  BY <1>1, <1>2, <1>4 DEF MmShape, OpIs
<1>8. FileHolds(op[c])'
  BY <1>1, <1>2, <1>4 DEF FileHolds, Switching, Agrees, Unindexed
<1>9. OpHolds(op[c])'
  BY <1>2, <1>4, <1>6 DEF OpHolds
<1> QED BY <1>7, <1>8, <1>9, MmAfter

LEMMA CompactRenameHolds ==
  ASSUME MmapSized, NEW c, Clients = {c}, MmInv, Mm!CompactRename(c)
  PROVE  MmInv'
<1>1. MmShape /\ FileHolds(op[c]) /\ OpHolds(op[c]) /\ OpIs(op[c]) /\ c \in Clients
  BY DEF MmInv, MmShape
<1>2. op[c].kind = "compact" /\ op[c].pc = "rename" /\ path' = used.compact + 1
      /\ UNCHANGED <<disk, handle, write_pos, index, count, acked, used>>
  BY DEF Mm!CompactRename, Mm!Kind
<1>3. NewFile(op[c])
  BY <1>1, <1>2 DEF OpHolds
<1>4. /\ op' = [x \in Clients |-> op'[x]]
      /\ op'[c] = [kind |-> op[c].kind, pc |-> "file", key |-> op[c].key, val |-> op[c].val,
                   at |-> op[c].at, known |-> op[c].known, from |-> op[c].from,
                   index |-> op[c].index]
  <2>1. op' = [op EXCEPT ![c].pc = "file"]
    BY DEF Mm!CompactRename, Mm!Goto
  <2>2. op = [x \in Clients |-> op[x]]
    BY <1>1 DEF MmShape
  <2>3. op' = [x \in Clients |-> op'[x]]
    BY <2>1, <2>2
  <2>4. op'[c] = [op[c] EXCEPT !.pc = "file"]
    BY <1>1, <2>1, <2>2
  <2>5. op[c] = [kind |-> op[c].kind, pc |-> op[c].pc, key |-> op[c].key, val |-> op[c].val,
                 at |-> op[c].at, known |-> op[c].known, from |-> op[c].from, index |-> op[c].index]
    BY <1>1 DEF MmShape, OpIs
  <2>6. op'[c] = [kind |-> op[c].kind, pc |-> "file", key |-> op[c].key, val |-> op[c].val,
                  at |-> op[c].at, known |-> op[c].known, from |-> op[c].from,
                  index |-> op[c].index]
    BY <2>4, <2>5
  <2> QED BY <2>3, <2>6
<1>7. MmShape'
  BY <1>1, <1>2, <1>4 DEF MmShape, OpIs
<1>8. FileHolds(op[c])'
  BY <1>2, <1>3, <1>4 DEF FileHolds, NewFile, Switching
<1>9. OpHolds(op[c])'
  BY <1>2, <1>3, <1>4 DEF OpHolds, NewFile
<1> QED BY <1>7, <1>8, <1>9, MmAfter

LEMMA CompactFileHolds ==
  ASSUME MmapSized, NEW c, Clients = {c}, MmInv, Mm!CompactFile(c)
  PROVE  MmInv'
<1>1. MmShape /\ FileHolds(op[c]) /\ OpHolds(op[c]) /\ OpIs(op[c]) /\ c \in Clients
  BY DEF MmInv, MmShape
<1>2. op[c].kind = "compact" /\ op[c].pc = "file" /\ handle' = path
      /\ UNCHANGED <<disk, path, write_pos, index, count, acked, used>>
  BY DEF Mm!CompactFile, Mm!Kind
<1>3. NewFile(op[c])
  BY <1>1, <1>2 DEF OpHolds
<1>4. /\ op' = [x \in Clients |-> op'[x]]
      /\ op'[c] = [kind |-> op[c].kind, pc |-> "index", key |-> op[c].key, val |-> op[c].val,
                   at |-> op[c].at, known |-> op[c].known, from |-> op[c].from,
                   index |-> op[c].index]
  <2>1. op' = [op EXCEPT ![c].pc = "index"]
    BY DEF Mm!CompactFile, Mm!Goto
  <2>2. op = [x \in Clients |-> op[x]]
    BY <1>1 DEF MmShape
  <2>3. op' = [x \in Clients |-> op'[x]]
    BY <2>1, <2>2
  <2>4. op'[c] = [op[c] EXCEPT !.pc = "index"]
    BY <1>1, <2>1, <2>2
  <2>5. op[c] = [kind |-> op[c].kind, pc |-> op[c].pc, key |-> op[c].key, val |-> op[c].val,
                 at |-> op[c].at, known |-> op[c].known, from |-> op[c].from, index |-> op[c].index]
    BY <1>1 DEF MmShape, OpIs
  <2>6. op'[c] = [kind |-> op[c].kind, pc |-> "index", key |-> op[c].key, val |-> op[c].val,
                  at |-> op[c].at, known |-> op[c].known, from |-> op[c].from,
                  index |-> op[c].index]
    BY <2>4, <2>5
  <2> QED BY <2>3, <2>6
<1>7. MmShape'
  BY <1>1, <1>2, <1>4 DEF MmShape, OpIs
<1>8. FileHolds(op[c])'
  BY <1>2, <1>3, <1>4 DEF FileHolds, NewFile, Switching
<1>9. OpHolds(op[c])'
  BY <1>2, <1>3, <1>4 DEF OpHolds, NewFile
<1> QED BY <1>7, <1>8, <1>9, MmAfter

LEMMA CompactIndexHolds ==
  ASSUME MmapSized, NEW c, Clients = {c}, MmInv, Mm!CompactIndex(c)
  PROVE  MmInv'
<1>1. MmShape /\ FileHolds(op[c]) /\ OpHolds(op[c]) /\ OpIs(op[c]) /\ c \in Clients
  BY DEF MmInv, MmShape
<1>2. op[c].kind = "compact" /\ op[c].pc = "index" /\ index' = op[c].index
      /\ UNCHANGED <<disk, path, handle, write_pos, count, acked, used>>
  BY DEF Mm!CompactIndex, Mm!Kind
<1>3. NewFile(op[c])
  BY <1>1, <1>2 DEF OpHolds
<1>4. /\ op' = [x \in Clients |-> op'[x]]
      /\ op'[c] = [kind |-> op[c].kind, pc |-> "end", key |-> op[c].key, val |-> op[c].val,
                   at |-> op[c].at, known |-> op[c].known, from |-> op[c].from,
                   index |-> op[c].index]
  <2>1. op' = [op EXCEPT ![c].pc = "end"]
    BY DEF Mm!CompactIndex, Mm!Goto
  <2>2. op = [x \in Clients |-> op[x]]
    BY <1>1 DEF MmShape
  <2>3. op' = [x \in Clients |-> op'[x]]
    BY <2>1, <2>2
  <2>4. op'[c] = [op[c] EXCEPT !.pc = "end"]
    BY <1>1, <2>1, <2>2
  <2>5. op[c] = [kind |-> op[c].kind, pc |-> op[c].pc, key |-> op[c].key, val |-> op[c].val,
                 at |-> op[c].at, known |-> op[c].known, from |-> op[c].from, index |-> op[c].index]
    BY <1>1 DEF MmShape, OpIs
  <2>6. op'[c] = [kind |-> op[c].kind, pc |-> "end", key |-> op[c].key, val |-> op[c].val,
                  at |-> op[c].at, known |-> op[c].known, from |-> op[c].from,
                  index |-> op[c].index]
    BY <2>4, <2>5
  <2> QED BY <2>3, <2>6
<1>7. MmShape'
  <2>1. index' \in [Keys -> Nat]
    BY <1>2, <1>3, IxFunction DEF NewFile
  <2> QED BY <1>1, <1>2, <1>4, <2>1 DEF MmShape, OpIs
<1>8. FileHolds(op[c])'
  BY <1>2, <1>3, <1>4 DEF FileHolds, NewFile, Switching
<1>9. OpHolds(op[c])'
  BY <1>2, <1>3, <1>4 DEF OpHolds, NewFile
<1> QED BY <1>7, <1>8, <1>9, MmAfter

LEMMA CompactEndHolds ==
  ASSUME MmapSized, NEW c, Clients = {c}, MmInv, Mm!CompactEnd(c)
  PROVE  MmInv'
<1>1. MmShape /\ FileHolds(op[c]) /\ OpHolds(op[c]) /\ OpIs(op[c]) /\ c \in Clients
  BY DEF MmInv, MmShape
<1>2. /\ op[c].kind = "compact" /\ op[c].pc = "end" /\ write_pos' = op[c].at
      /\ UNCHANGED <<disk, path, handle, index, count, acked, used>>
  BY DEF Mm!CompactEnd, Mm!Kind
<1>3. NewFile(op[c])
  BY <1>1, <1>2 DEF OpHolds
<1>4. op' = [x \in Clients |-> op'[x]] /\ op'[c] = Mm!NoOp /\ OpIs(op'[c])
  <2>1. op' = [op EXCEPT ![c] = Mm!NoOp]
    BY DEF Mm!CompactEnd, Mm!Finish
  <2>2. op = [x \in Clients |-> op[x]]
    BY <1>1 DEF MmShape
  <2>3. OpIs(Mm!NoOp)
    BY DEF OpIs, Mm!NoOp
  <2> QED BY <1>1, <2>1, <2>2, <2>3
<1>7. MmShape'
  BY <1>1, <1>2, <1>4 DEF MmShape
<1>8. FileHolds(op[c])'
  <2>1. /\ path' = handle' /\ Filled(disk[handle], write_pos)' /\ index' = Ix(disk'[handle'])
        /\ \A k \in Keys : FileValue(disk[path], k)' \in acked'[k]
    BY <1>2, <1>3 DEF NewFile
  <2> QED BY <2>1 DEF FileHolds, Agrees
<1>9. OpHolds(op[c])'
  BY <1>4 DEF OpHolds, Mm!NoOp
<1> QED BY <1>7, <1>8, <1>9, MmAfter

\* An append that is torn changes nothing that is read.
LEMMA TornKept ==
  ASSUME MmapSized, MmShape, Filled(disk[handle], write_pos), NEW k \in Keys,
         NEW v \in Vals \cup {Nothing}, NEW n \in 0 .. Mm!Size(v) - 1,
         disk' = [disk EXCEPT ![handle] =
                    Mm!Overwrite(disk[handle], write_pos, SubSeq(Mm!Cells(k, v), 1, n))]
  PROVE  /\ disk' \in [Mm!Files -> Seq(Cell)] /\ Filled(disk'[handle], write_pos)
         /\ Ix(disk'[handle]) = Ix(disk[handle])
         /\ \A j \in Keys : FileValue(disk'[handle], j) = FileValue(disk[handle], j)
<1> DEFINE s == disk[handle]
           t == Mm!Overwrite(s, write_pos, SubSeq(Mm!Cells(k, v), 1, n))
<1>1. handle \in Mm!Files /\ disk \in [Mm!Files -> Seq(Cell)]
  BY DEF MmShape, MmapSized, Mm!Files
<1>2. Filled(t, write_pos) /\ Entries(t) = Entries(s) /\ \A p \in Entries(s) : t[p] = s[p]
  BY TornFile
<1>3. disk'[handle] = t
  BY <1>1
<1> HIDE DEF t
<1>4. Ix(t) = Ix(s)
  BY <1>2, TornIx
<1>5. t \in Seq(Cell)
  BY <1>2 DEF Filled
<1>6. disk' \in [Mm!Files -> Seq(Cell)]
  BY <1>1, <1>5 DEF t
<1>7. ASSUME NEW j \in Keys PROVE FileValue(t, j) = FileValue(s, j)
  <2>1. Ix(s)[j] # 0 => Ix(s)[j] \in Entries(s)
    BY IxPoints
  <2> QED BY <1>2, <1>4, <2>1 DEF FileValue
<1> QED BY <1>2, <1>3, <1>4, <1>6, <1>7

\* One that succeeds changes what is read of its key.
LEMMA AppendKept ==
  ASSUME MmapSized, MmShape, Filled(disk[handle], write_pos), NEW k \in Keys,
         NEW v \in Vals \cup {Nothing}, Mm!AppendEntry(k, v)
  PROVE  /\ disk' \in [Mm!Files -> Seq(Cell)] /\ Filled(disk'[handle], write_pos')
         /\ write_pos \in Nat /\ write_pos # 0
         /\ Ix(disk'[handle]) = [Ix(disk[handle]) EXCEPT ![k] = IF v = Nothing THEN 0 ELSE write_pos]
         /\ disk'[handle][write_pos].val = v
         /\ \A j \in Keys : FileValue(disk'[handle], j) = IF j = k THEN v ELSE FileValue(disk[handle], j)
<1> DEFINE s == disk[handle]
           t == Mm!Overwrite(s, write_pos, Mm!Cells(k, v))
<1>1. handle \in Mm!Files /\ disk \in [Mm!Files -> Seq(Cell)]
  BY DEF MmShape, MmapSized, Mm!Files
<1>0. disk' = [disk EXCEPT ![handle] = t] /\ write_pos' = write_pos + Mm!Size(v)
  BY DEF Mm!AppendEntry
<1>2. /\ Filled(t, write_pos + Mm!Size(v)) /\ Entries(t) = Entries(s) \cup {write_pos}
      /\ \A p \in Entries(s) : t[p] = s[p]
      /\ t[write_pos] = [key |-> k, val |-> v, part |-> 1]
  BY AppendedFile
<1>3. disk'[handle] = t
  BY <1>0, <1>1
<1>4. Ix(t) = [Ix(s) EXCEPT ![k] = IF v = Nothing THEN 0 ELSE write_pos]
  BY AppendedIx
<1>5. t \in Seq(Cell) /\ write_pos \in Nat /\ write_pos # 0
  BY <1>2 DEF Filled
<1>6. disk' \in [Mm!Files -> Seq(Cell)]
  <2> HIDE DEF t
  <2> QED BY <1>0, <1>1, <1>5
<1> HIDE DEF t
<1>8. Ix(s) \in [Keys -> Nat] /\ t[write_pos].val = v
  BY <1>2, IxFunction
<1>7. ASSUME NEW j \in Keys PROVE FileValue(t, j) = IF j = k THEN v ELSE FileValue(s, j)
  <2>1. CASE j = k
    <3>1. Ix(t)[j] = IF v = Nothing THEN 0 ELSE write_pos
      BY <1>4, <1>8, <2>1
    <3> QED BY <1>5, <1>8, <2>1, <3>1 DEF FileValue
  <2>2. CASE j # k
    <3>1. Ix(t)[j] = Ix(s)[j]
      BY <1>4, <1>8, <2>2
    <3>2. Ix(s)[j] # 0 => Ix(s)[j] \in Entries(s)
      BY IxPoints
    <3> QED BY <1>2, <2>2, <3>1, <3>2 DEF FileValue
  <2> QED BY <2>1, <2>2
<1> QED BY <1>0, <1>2, <1>3, <1>4, <1>5, <1>6, <1>7, <1>8

LEMMA PutAppendHolds ==
  ASSUME MmapSized, NEW c, Clients = {c}, MmInv, Mm!PutAppend(c)
  PROVE  MmInv'
<1>1. MmShape /\ FileHolds(op[c]) /\ OpHolds(op[c]) /\ OpIs(op[c]) /\ c \in Clients
  BY DEF MmInv, MmShape
<1> DEFINE k == op[c].key
           v == op[c].val
<1>2. /\ op[c].kind = "put" /\ op[c].pc = "append" /\ k \in Keys /\ v \in Vals
      /\ UNCHANGED <<path, handle, index, count, acked, used>> /\ Mm!AppendEntry(k, v)
  BY <1>1 DEF Mm!PutAppend, Mm!Kind, OpIs, Mm!NoOp
<1>3. path = handle /\ Filled(disk[handle], write_pos) /\ \A j \in Keys : Agrees(op[c], j)
  BY <1>1, <1>2 DEF FileHolds, Switching
<1>5. v \in Vals \cup {Nothing} /\ v # Nothing
  BY <1>2 DEF MmapSized
<1>6. /\ disk' \in [Mm!Files -> Seq(Cell)] /\ Filled(disk'[handle], write_pos')
      /\ write_pos \in Nat /\ write_pos # 0
      /\ Ix(disk'[handle]) = [Ix(disk[handle]) EXCEPT ![k] = write_pos]
      /\ disk'[handle][write_pos].val = v
      /\ \A j \in Keys : FileValue(disk'[handle], j) = IF j = k THEN v ELSE FileValue(disk[handle], j)
  BY <1>1, <1>2, <1>3, <1>5, AppendKept
<1>a. Ix(disk[handle]) \in [Keys -> Nat]
  BY <1>3, IxFunction
<1>4. /\ op' = [x \in Clients |-> op'[x]]
      /\ op'[c] = [kind |-> op[c].kind, pc |-> "index", key |-> op[c].key, val |-> op[c].val,
                   at |-> write_pos, known |-> op[c].known, from |-> op[c].from,
                   index |-> op[c].index]
  <2>1. op' = [op EXCEPT ![c].pc = "index", ![c].at = write_pos]
    BY DEF Mm!PutAppend
  <2>2. op = [x \in Clients |-> op[x]]
    BY <1>1 DEF MmShape
  <2>3. op' = [x \in Clients |-> op'[x]]
    BY <2>1, <2>2
  <2>4. op'[c] = [op[c] EXCEPT !.pc = "index", !.at = write_pos]
    BY <1>1, <2>1, <2>2
  <2>5. op[c] = [kind |-> op[c].kind, pc |-> op[c].pc, key |-> op[c].key, val |-> op[c].val,
                 at |-> op[c].at, known |-> op[c].known, from |-> op[c].from, index |-> op[c].index]
    BY <1>1 DEF MmShape, OpIs
  <2>6. op'[c] = [kind |-> op[c].kind, pc |-> "index", key |-> op[c].key, val |-> op[c].val,
                  at |-> write_pos, known |-> op[c].known, from |-> op[c].from,
                  index |-> op[c].index]
    BY <2>4, <2>5
  <2> QED BY <2>3, <2>6
<1>7. MmShape'
  BY <1>1, <1>2, <1>4, <1>6 DEF MmShape, OpIs
<1>8. FileHolds(op[c])'
  <2>1. ASSUME NEW j \in Keys PROVE Agrees(op[c], j)'
    <3>1. CASE j = k
      BY <1>2, <1>4, <3>1 DEF Agrees, Unindexed
    <3>2. CASE j # k
      <4>1. Ix(disk'[handle])[j] = Ix(disk[handle])[j]
        BY <1>6, <1>a, <3>2
      <4>2. Agrees(op[c], j)
        BY <1>3
      <4> QED BY <1>2, <4>1, <4>2 DEF Agrees, Unindexed
    <3> QED BY <3>1, <3>2
  <2>2. ASSUME NEW j \in Keys PROVE Unindexed(op[c], j)' \/ FileValue(disk[path], j)' \in acked'[j]
    <3>1. CASE j = k
      BY <1>2, <1>4, <3>1 DEF Unindexed
    <3>2. CASE j # k
      <4>1. FileValue(disk[path], j) \in acked[j]
        BY <1>1, <1>2 DEF FileHolds, Unindexed
      <4> QED BY <1>2, <1>3, <1>6, <3>2, <4>1
    <3> QED BY <3>1, <3>2
  <2> QED BY <1>2, <1>3, <1>6, <2>1, <2>2 DEF FileHolds
<1>9. OpHolds(op[c])'
  <2>1. Ix(disk'[handle])[k] = write_pos
    BY <1>2, <1>6, <1>a
  <2> QED BY <1>2, <1>4, <1>6, <2>1 DEF OpHolds
<1> QED BY <1>7, <1>8, <1>9, MmAfter

LEMMA DeleteAppendHolds ==
  ASSUME MmapSized, NEW c, Clients = {c}, MmInv, Mm!DeleteAppend(c)
  PROVE  MmInv'
<1>1. MmShape /\ FileHolds(op[c]) /\ OpHolds(op[c]) /\ OpIs(op[c]) /\ c \in Clients
  BY DEF MmInv, MmShape
<1> DEFINE k == op[c].key
<1>2. /\ op[c].kind = "delete" /\ k \in Keys
      /\ UNCHANGED <<path, handle, index, used>> /\ Mm!AppendEntry(k, Nothing)
      /\ acked' = [acked EXCEPT ![k] = {Nothing}]
  BY <1>1 DEF Mm!DeleteAppend, Mm!Kind, OpIs, Mm!NoOp
<1>3. /\ path = handle /\ Filled(disk[handle], write_pos) /\ \A j \in Keys : Agrees(op[c], j)
      /\ index[k] = 0
  BY <1>1, <1>2 DEF FileHolds, OpHolds, Switching
<1>6. /\ disk' \in [Mm!Files -> Seq(Cell)] /\ Filled(disk'[handle], write_pos')
      /\ Ix(disk'[handle]) = [Ix(disk[handle]) EXCEPT ![k] = 0]
      /\ \A j \in Keys : FileValue(disk'[handle], j) = IF j = k THEN Nothing
                                                       ELSE FileValue(disk[handle], j)
  BY <1>1, <1>2, <1>3, AppendKept
<1>a. Ix(disk[handle]) \in [Keys -> Nat]
  BY <1>3, IxFunction
<1>4. op' = [x \in Clients |-> op'[x]] /\ op'[c] = Mm!NoOp /\ OpIs(op'[c])
  <2>1. op' = [op EXCEPT ![c] = Mm!NoOp]
    BY DEF Mm!DeleteAppend, Mm!Finish
  <2>2. op = [x \in Clients |-> op[x]]
    BY <1>1 DEF MmShape
  <2>3. OpIs(Mm!NoOp)
    BY DEF OpIs, Mm!NoOp
  <2> QED BY <1>1, <2>1, <2>2, <2>3
<1>7. MmShape'
  <2>1. acked' \in [Keys -> SUBSET (Vals \cup {Nothing})]
    BY <1>1, <1>2 DEF MmShape
  <2> QED BY <1>1, <1>2, <1>4, <1>6, <2>1 DEF MmShape
<1>8. FileHolds(op[c])'
  <2>1. ASSUME NEW j \in Keys PROVE Agrees(op[c], j)' /\ FileValue(disk[path], j)' \in acked'[j]
    <3>1. CASE j = k
      <4>1. Ix(disk'[handle])[k] = 0 /\ acked'[k] = {Nothing}
        BY <1>1, <1>2, <1>6, <1>a DEF MmShape
      <4> QED BY <1>2, <1>3, <1>6, <3>1, <4>1 DEF Agrees
    <3>2. CASE j # k
      <4>1. Ix(disk'[handle])[j] = Ix(disk[handle])[j] /\ acked'[j] = acked[j]
        BY <1>1, <1>2, <1>6, <1>a, <3>2 DEF MmShape
      <4>2. Agrees(op[c], j) /\ ~Unindexed(op[c], j)
        BY <1>2, <1>3 DEF Unindexed
      <4>3. FileValue(disk[path], j) \in acked[j]
        BY <1>1, <4>2 DEF FileHolds
      <4>4. Agrees(op[c], j)'
        BY <1>2, <3>2, <4>1, <4>2 DEF Agrees
      <4> QED BY <1>2, <1>3, <1>6, <3>2, <4>1, <4>3, <4>4
    <3> QED BY <3>1, <3>2
  <2> QED BY <1>2, <1>3, <1>6, <2>1 DEF FileHolds
<1>9. OpHolds(op[c])'
  BY <1>4 DEF OpHolds, Mm!NoOp
<1> QED BY <1>7, <1>8, <1>9, MmAfter

LEMMA PutFailsHolds ==
  ASSUME MmapSized, NEW c, Clients = {c}, MmInv, Mm!PutFails(c)
  PROVE  MmInv'
<1>1. MmShape /\ FileHolds(op[c]) /\ OpHolds(op[c]) /\ OpIs(op[c]) /\ c \in Clients
  BY DEF MmInv, MmShape
<1> DEFINE k == op[c].key
           v == op[c].val
<1>2. /\ op[c].kind = "put" /\ op[c].pc = "append" /\ k \in Keys /\ v \in Vals \cup {Nothing}
      /\ UNCHANGED <<path, handle, index, count, write_pos>>
      /\ acked' = [acked EXCEPT ![k] = @ \cup {v}]
      /\ used' = [used EXCEPT !.fault = @ + 1] /\ used.fault < MaxFaults
  <2>1. /\ op[c].kind = "put" /\ op[c].pc = "append"
        /\ UNCHANGED <<path, handle, index, count>> /\ UNCHANGED write_pos
        /\ acked' = [acked EXCEPT ![k] = @ \cup {v}]
        /\ used' = [used EXCEPT !.fault = @ + 1] /\ used.fault < MaxFaults
    BY DEF Mm!PutFails, Mm!Kind, Mm!Use, Mm!Tear
  <2>2. k \in Keys /\ v \in Vals \cup {Nothing}
    BY <1>1, <2>1 DEF OpIs, Mm!NoOp
  <2> QED BY <2>1, <2>2
<1>3. path = handle /\ Filled(disk[handle], write_pos) /\ \A j \in Keys : Agrees(op[c], j)
  BY <1>1, <1>2 DEF FileHolds, Switching
<1>5. PICK n \in 0 .. Mm!Size(v) - 1 :
        disk' = [disk EXCEPT ![handle] =
                   Mm!Overwrite(disk[handle], write_pos, SubSeq(Mm!Cells(k, v), 1, n))]
  BY DEF Mm!PutFails, Mm!Tear
<1>6. /\ disk' \in [Mm!Files -> Seq(Cell)] /\ Filled(disk'[handle], write_pos)
      /\ Ix(disk'[handle]) = Ix(disk[handle])
      /\ \A j \in Keys : FileValue(disk'[handle], j) = FileValue(disk[handle], j)
  BY <1>1, <1>2, <1>3, <1>5, TornKept
<1>a. /\ used' = [write |-> used'.write, compact |-> used'.compact, restart |-> used'.restart,
                  fault |-> used'.fault, clear |-> used'.clear]
      /\ used'.compact = used.compact /\ used'.fault \in 0 .. MaxFaults /\ used'.fault > 0
  <2>1. /\ used = [write |-> used.write, compact |-> used.compact, restart |-> used.restart,
                   fault |-> used.fault, clear |-> used.clear]
        /\ used.fault \in 0 .. MaxFaults /\ MaxFaults \in Nat
    BY <1>1 DEF MmShape, MmapSized
  <2>2. used' = [write |-> used.write, compact |-> used.compact, restart |-> used.restart,
                 fault |-> used.fault + 1, clear |-> used.clear]
    BY <1>2, <2>1
  <2>3. used.fault + 1 \in 0 .. MaxFaults /\ used.fault + 1 > 0
    BY <1>2, <2>1
  <2> QED BY <2>2, <2>3
<1>4. op' = [x \in Clients |-> op'[x]] /\ op'[c] = Mm!NoOp /\ OpIs(op'[c])
  <2>1. op' = [op EXCEPT ![c] = Mm!NoOp]
    BY DEF Mm!PutFails, Mm!Finish
  <2>2. op = [x \in Clients |-> op[x]]
    BY <1>1 DEF MmShape
  <2>3. OpIs(Mm!NoOp)
    BY DEF OpIs, Mm!NoOp
  <2> QED BY <1>1, <2>1, <2>2, <2>3
<1>7. MmShape'
  <2>1. acked' \in [Keys -> SUBSET (Vals \cup {Nothing})]
    BY <1>1, <1>2 DEF MmShape
  <2> QED BY <1>1, <1>2, <1>4, <1>6, <1>a, <2>1 DEF MmShape
<1>8. FileHolds(op[c])'
  <2>1. ASSUME NEW j \in Keys PROVE Agrees(op[c], j)' /\ FileValue(disk[path], j)' \in acked'[j]
    <3>1. acked[j] \subseteq acked'[j] /\ (j = k => v \in acked'[j])
      BY <1>1, <1>2 DEF MmShape
    <3>2. Agrees(op[c], j) /\ ~Unindexed(op[c], j)
      BY <1>2, <1>3 DEF Unindexed
    <3>3. FileValue(disk[path], j) \in acked[j]
      BY <1>1, <3>2 DEF FileHolds
    <3>4. \/ index[j] = Ix(disk[handle])[j]
          \/ index[j] = 0 /\ Nothing \in acked'[j]
      BY <1>2, <3>1, <3>2 DEF Agrees
    <3>5. Agrees(op[c], j)'
      BY <1>2, <1>6, <1>a, <3>4 DEF Agrees
    <3> QED BY <1>2, <1>3, <1>6, <3>1, <3>3, <3>5
  <2> QED BY <1>2, <1>3, <1>6, <2>1 DEF FileHolds
<1>9. OpHolds(op[c])'
  BY <1>4 DEF OpHolds, Mm!NoOp
<1> QED BY <1>7, <1>8, <1>9, MmAfter

LEMMA DeleteFailsHolds ==
  ASSUME MmapSized, NEW c, Clients = {c}, MmInv, Mm!DeleteFails(c)
  PROVE  MmInv'
<1>1. MmShape /\ FileHolds(op[c]) /\ OpHolds(op[c]) /\ OpIs(op[c]) /\ c \in Clients
  BY DEF MmInv, MmShape
<1> DEFINE k == op[c].key
           v == Nothing
<1>2. /\ op[c].kind = "delete" /\ op[c].pc = "append" /\ k \in Keys /\ v \in Vals \cup {Nothing}
      /\ UNCHANGED <<path, handle, index, count, write_pos>>
      /\ acked' = [acked EXCEPT ![k] = @ \cup {v}]
      /\ used' = [used EXCEPT !.fault = @ + 1] /\ used.fault < MaxFaults
  <2>1. /\ op[c].kind = "delete" /\ op[c].pc = "append"
        /\ UNCHANGED <<path, handle, index, count>> /\ UNCHANGED write_pos
        /\ acked' = [acked EXCEPT ![k] = @ \cup {v}]
        /\ used' = [used EXCEPT !.fault = @ + 1] /\ used.fault < MaxFaults
    BY DEF Mm!DeleteFails, Mm!Kind, Mm!Use, Mm!Tear
  <2>2. k \in Keys /\ v \in Vals \cup {Nothing}
    BY <1>1, <2>1 DEF OpIs, Mm!NoOp
  <2> QED BY <2>1, <2>2
<1>3. path = handle /\ Filled(disk[handle], write_pos) /\ \A j \in Keys : Agrees(op[c], j)
  BY <1>1, <1>2 DEF FileHolds, Switching
<1>5. PICK n \in 0 .. Mm!Size(v) - 1 :
        disk' = [disk EXCEPT ![handle] =
                   Mm!Overwrite(disk[handle], write_pos, SubSeq(Mm!Cells(k, v), 1, n))]
  BY DEF Mm!DeleteFails, Mm!Tear
<1>6. /\ disk' \in [Mm!Files -> Seq(Cell)] /\ Filled(disk'[handle], write_pos)
      /\ Ix(disk'[handle]) = Ix(disk[handle])
      /\ \A j \in Keys : FileValue(disk'[handle], j) = FileValue(disk[handle], j)
  BY <1>1, <1>2, <1>3, <1>5, TornKept
<1>a. /\ used' = [write |-> used'.write, compact |-> used'.compact, restart |-> used'.restart,
                  fault |-> used'.fault, clear |-> used'.clear]
      /\ used'.compact = used.compact /\ used'.fault \in 0 .. MaxFaults /\ used'.fault > 0
  <2>1. /\ used = [write |-> used.write, compact |-> used.compact, restart |-> used.restart,
                   fault |-> used.fault, clear |-> used.clear]
        /\ used.fault \in 0 .. MaxFaults /\ MaxFaults \in Nat
    BY <1>1 DEF MmShape, MmapSized
  <2>2. used' = [write |-> used.write, compact |-> used.compact, restart |-> used.restart,
                 fault |-> used.fault + 1, clear |-> used.clear]
    BY <1>2, <2>1
  <2>3. used.fault + 1 \in 0 .. MaxFaults /\ used.fault + 1 > 0
    BY <1>2, <2>1
  <2> QED BY <2>2, <2>3
<1>4. op' = [x \in Clients |-> op'[x]] /\ op'[c] = Mm!NoOp /\ OpIs(op'[c])
  <2>1. op' = [op EXCEPT ![c] = Mm!NoOp]
    BY DEF Mm!DeleteFails, Mm!Finish
  <2>2. op = [x \in Clients |-> op[x]]
    BY <1>1 DEF MmShape
  <2>3. OpIs(Mm!NoOp)
    BY DEF OpIs, Mm!NoOp
  <2> QED BY <1>1, <2>1, <2>2, <2>3
<1>7. MmShape'
  <2>1. acked' \in [Keys -> SUBSET (Vals \cup {Nothing})]
    BY <1>1, <1>2 DEF MmShape
  <2> QED BY <1>1, <1>2, <1>4, <1>6, <1>a, <2>1 DEF MmShape
<1>8. FileHolds(op[c])'
  <2>1. ASSUME NEW j \in Keys PROVE Agrees(op[c], j)' /\ FileValue(disk[path], j)' \in acked'[j]
    <3>1. acked[j] \subseteq acked'[j] /\ (j = k => v \in acked'[j])
      BY <1>1, <1>2 DEF MmShape
    <3>2. Agrees(op[c], j) /\ ~Unindexed(op[c], j)
      BY <1>2, <1>3 DEF Unindexed
    <3>3. FileValue(disk[path], j) \in acked[j]
      BY <1>1, <3>2 DEF FileHolds
    <3>4. \/ index[j] = Ix(disk[handle])[j]
          \/ index[j] = 0 /\ Nothing \in acked'[j]
      BY <1>2, <3>1, <3>2 DEF Agrees
    <3>5. Agrees(op[c], j)'
      BY <1>2, <1>6, <1>a, <3>4 DEF Agrees
    <3> QED BY <1>2, <1>3, <1>6, <3>1, <3>3, <3>5
  <2> QED BY <1>2, <1>3, <1>6, <2>1 DEF FileHolds
<1>9. OpHolds(op[c])'
  BY <1>4 DEF OpHolds, Mm!NoOp
<1> QED BY <1>7, <1>8, <1>9, MmAfter

LEMMA ClearHolds ==
  ASSUME MmapSized, NEW c, Clients = {c}, MmInv, Mm!Clear(c)
  PROVE  MmInv'
<1>1. MmShape /\ FileHolds(op[c]) /\ OpHolds(op[c]) /\ OpIs(op[c]) /\ c \in Clients
  BY DEF MmInv, MmShape
<1>2. /\ op[c] = Mm!NoOp /\ index' = Mm!NoIndex /\ disk' = [disk EXCEPT ![handle] = <<>>]
      /\ write_pos' = 1 /\ acked' = [k \in Keys |-> {Nothing}] /\ UNCHANGED <<path, handle, op>>
      /\ used' = [used EXCEPT !.clear = @ + 1]
  BY DEF Mm!Clear, Mm!Use
<1>3. path = handle
  BY <1>1, <1>2 DEF FileHolds, Switching, Mm!NoOp
<1>a. /\ used' = [write |-> used'.write, compact |-> used'.compact, restart |-> used'.restart,
                  fault |-> used'.fault, clear |-> used'.clear]
      /\ used'.compact = used.compact /\ used'.fault = used.fault
  BY <1>1, <1>2 DEF MmShape
<1>5. handle \in Mm!Files /\ disk \in [Mm!Files -> Seq(Cell)]
  BY <1>1 DEF MmShape, MmapSized, Mm!Files
<1>6. disk' \in [Mm!Files -> Seq(Cell)] /\ disk'[handle] = <<>>
  BY <1>2, <1>5
<1>7. MmShape'
  <2>1. acked' \in [Keys -> SUBSET (Vals \cup {Nothing})] /\ index' \in [Keys -> Nat]
    BY <1>2 DEF Mm!NoIndex
  <2> QED BY <1>1, <1>2, <1>6, <1>a, <2>1 DEF MmShape
<1>8. FileHolds(op[c])'
  <2>1. Filled(<<>>, 1) /\ Ix(<<>>) = Mm!NoIndex
    BY EmptyFile
  <2>2. ASSUME NEW j \in Keys PROVE FileValue(<<>>, j) = Nothing
    BY <2>1 DEF FileValue, Mm!NoIndex
  <2> QED BY <1>2, <1>3, <1>6, <2>1, <2>2 DEF FileHolds, Agrees
<1>9. OpHolds(op[c])'
  BY <1>2 DEF OpHolds, Mm!NoOp
<1> QED BY <1>7, <1>8, <1>9, MmAfter

LEMMA CompactBuildHolds ==
  ASSUME MmapSized, NEW c, Clients = {c}, MmInv, Mm!CompactBuild(c)
  PROVE  MmInv'
<1>1. MmShape /\ FileHolds(op[c]) /\ OpHolds(op[c]) /\ OpIs(op[c]) /\ c \in Clients
  BY DEF MmInv, MmShape
<1>2. /\ op[c] = Mm!NoOp /\ UNCHANGED <<path, handle, write_pos, index, count, acked>>
      /\ used.compact < MaxCompacts /\ used' = [used EXCEPT !.compact = @ + 1]
  BY DEF Mm!CompactBuild, Mm!Use
<1>b. op[c].kind = "none"
  BY <1>2 DEF Mm!NoOp
<1>3. /\ path = handle /\ Filled(disk[handle], write_pos) /\ \A j \in Keys : Agrees(op[c], j)
      /\ \A j \in Keys : FileValue(disk[handle], j) \in acked[j]
  BY <1>1, <1>b DEF FileHolds, Switching, Unindexed
<1>5. ASSUME NEW j \in Keys, index[j] # 0
      PROVE  /\ index[j] = Ix(disk[handle])[j] /\ j \in Mm!Live
             /\ Mm!ValueOf(j) = FileValue(disk[handle], j) /\ Mm!ValueOf(j) \in Vals
  <2>1. index[j] = Ix(disk[handle])[j]
    BY <1>3, <1>5, <1>b DEF Agrees, Unindexed
  <2>2. /\ index[j] \in Entries(disk[handle]) /\ disk[handle][index[j]].val # Nothing
    BY <1>3, <1>5, <2>1, IxPoints
  <2>3. /\ index[j] \in Nat /\ EntryThere(disk[handle], index[j]) /\ disk[handle] \in Seq(Cell)
        /\ index[j] \in 1 .. Len(disk[handle])
    BY <1>1, <1>3, <2>2 DEF Entries, Filled, MmShape
  <2>4. Mm!Whole(disk[handle], index[j])
    BY <2>3, WholeIs
  <2>5. Mm!ValueOf(j) = disk[handle][index[j]].val
    BY <2>4 DEF Mm!ValueOf, Mm!EntryAt
  <2>6. disk[handle][index[j]] \in Cell
    BY <2>3
  <2>7. disk[handle][index[j]].val \in Vals
    BY <2>2, <2>6 DEF Cell
  <2> QED BY <1>5, <2>1, <2>4, <2>5, <2>7 DEF Mm!Live, FileValue
<1>6. \A j \in Mm!Live : j \in Keys /\ index[j] # 0
  BY DEF Mm!Live
<1>f. PICK t, w, ix : BuildsTo(c, t, w, ix)
  <2>1. \A k \in Mm!Live : Mm!ValueOf(k) \in Vals
    BY <1>5, <1>6
  <2> QED BY <2>1, Compacts
<1>c. /\ disk' = [disk EXCEPT ![used.compact + 2] = t]
      /\ op' = [op EXCEPT ![c].kind = "compact", ![c].pc = "rename", ![c].at = w, ![c].index = ix]
      /\ Filled(t, w) /\ ix = Ix(t)
      /\ \A k \in Mm!Live : ix[k] \in Entries(t) /\ ix[k] # 0 /\ t[ix[k]].val = Mm!ValueOf(k)
      /\ \A k \in Keys : k \notin Mm!Live => ix[k] = 0
  BY <1>f DEF BuildsTo
<1>a. /\ used' = [write |-> used'.write, compact |-> used'.compact, restart |-> used'.restart,
                  fault |-> used'.fault, clear |-> used'.clear]
      /\ used'.compact = used.compact + 1 /\ used'.compact \in 0 .. MaxCompacts
      /\ used'.fault = used.fault /\ used.compact \in Nat
  <2>1. /\ used = [write |-> used.write, compact |-> used.compact, restart |-> used.restart,
                   fault |-> used.fault, clear |-> used.clear]
        /\ used.compact \in 0 .. MaxCompacts /\ MaxCompacts \in Nat
    BY <1>1 DEF MmShape, MmapSized
  <2>2. used' = [write |-> used.write, compact |-> used.compact + 1, restart |-> used.restart,
                 fault |-> used.fault, clear |-> used.clear]
    BY <1>2, <2>1
  <2>3. used.compact + 1 \in 0 .. MaxCompacts /\ used.compact \in Nat
    BY <1>2, <2>1
  <2> QED BY <2>2, <2>3
<1>4. /\ op' = [x \in Clients |-> op'[x]]
      /\ op'[c] = [kind |-> "compact", pc |-> "rename", key |-> op[c].key, val |-> op[c].val,
                   at |-> w, known |-> op[c].known, from |-> op[c].from, index |-> ix]
  <2>1. op' = [op EXCEPT ![c].kind = "compact", ![c].pc = "rename", ![c].at = w, ![c].index = ix]
    BY <1>c
  <2>2. op = [x \in Clients |-> op[x]]
    BY <1>1 DEF MmShape
  <2>3. op' = [x \in Clients |-> op'[x]]
    BY <2>1, <2>2
  <2>4. op'[c] = [op[c] EXCEPT !.kind = "compact", !.pc = "rename", !.at = w, !.index = ix]
    BY <1>1, <2>1, <2>2
  <2>5. op[c] = [kind |-> op[c].kind, pc |-> op[c].pc, key |-> op[c].key, val |-> op[c].val,
                 at |-> op[c].at, known |-> op[c].known, from |-> op[c].from, index |-> op[c].index]
    BY <1>1 DEF MmShape, OpIs
  <2>6. op'[c] = [kind |-> "compact", pc |-> "rename", key |-> op[c].key, val |-> op[c].val,
                  at |-> w, known |-> op[c].known, from |-> op[c].from, index |-> ix]
    BY <2>4, <2>5
  <2> QED BY <2>3, <2>6
<1>d. /\ used.compact + 2 \in Mm!Files /\ handle \in Mm!Files /\ handle # used.compact + 2
      /\ handle \in 1 .. used'.compact + 1
  BY <1>1, <1>2, <1>a DEF MmShape, MmapSized, Mm!Files
<1>e. /\ disk' \in [Mm!Files -> Seq(Cell)] /\ disk'[handle] = disk[handle]
      /\ disk'[used.compact + 2] = t
  <2>1. disk \in [Mm!Files -> Seq(Cell)] /\ t \in Seq(Cell)
    BY <1>1, <1>c DEF MmShape, Filled
  <2> QED BY <1>c, <1>d, <2>1
<1>7. MmShape'
  <2>1. OpIs(op'[c])
    BY <1>4 DEF OpIs
  <2> QED BY <1>1, <1>2, <1>3, <1>4, <1>a, <1>d, <1>e, <2>1 DEF MmShape
<1>8. FileHolds(op[c])'
  <2>1. ASSUME NEW j \in Keys PROVE Agrees(op[c], j)'
    <3>1. Agrees(op[c], j)
      BY <1>3
    <3> QED BY <1>2, <1>a, <1>b, <1>e, <3>1 DEF Agrees, Unindexed
  <2> QED BY <1>2, <1>3, <1>e, <2>1 DEF FileHolds
<1>9. OpHolds(op[c])'
  <2>1. used'.compact + 1 = used.compact + 2
    BY <1>a
  <2>2. ASSUME NEW j \in Keys PROVE FileValue(t, j) \in acked[j]
    <3>1. CASE j \in Mm!Live
      <4>1. FileValue(t, j) = Mm!ValueOf(j)
        BY <1>c, <3>1 DEF FileValue
      <4>2. Mm!ValueOf(j) = FileValue(disk[handle], j)
        BY <1>5, <1>6, <3>1
      <4> QED BY <1>3, <4>1, <4>2
    <3>2. CASE j \notin Mm!Live
      <4>a. ix = Ix(t) /\ \A k \in Keys : k \notin Mm!Live => ix[k] = 0
        BY <1>f DEF BuildsTo
      <4>0. Ix(t)[j] = 0
        BY <3>2, <4>a
      <4>1. index[j] = 0 /\ FileValue(t, j) = Nothing
        BY <1>5, <3>2, <4>0 DEF FileValue
      <4>2. Nothing \in acked[j]
        <5>1. CASE index[j] = Ix(disk[handle])[j]
          BY <1>3, <4>1, <5>1 DEF FileValue
        <5>2. CASE index[j] # Ix(disk[handle])[j]
          BY <1>3, <1>b, <5>2 DEF Agrees, Unindexed
        <5> QED BY <5>1, <5>2
      <4> QED BY <4>1, <4>2
    <3> QED BY <3>1, <3>2
  <2>3. NewFile(op[c])'
    BY <1>2, <1>4, <1>c, <1>d, <1>e, <2>1, <2>2 DEF NewFile
  <2> QED BY <1>4, <2>3 DEF OpHolds
<1> QED BY <1>7, <1>8, <1>9, MmAfter

\* The file the path names can be read back at every moment.
LEMMA PathFilled ==
  ASSUME NEW c, Clients = {c}, MmInv
  PROVE  \E w : Filled(disk[path], w)
<1>1. FileHolds(op[c]) /\ OpHolds(op[c])
  BY DEF MmInv
<1>2. CASE Switching(op[c])
  BY <1>1, <1>2 DEF OpHolds, NewFile, Switching
<1>3. CASE ~Switching(op[c])
  BY <1>1, <1>3 DEF FileHolds
<1> QED BY <1>2, <1>3

LEMMA RestartHolds ==
  ASSUME MmapSized, NEW c, Clients = {c}, MmInv, Mm!Restart
  PROVE  MmInv'
<1>1. MmShape /\ FileHolds(op[c]) /\ OpHolds(op[c]) /\ OpIs(op[c]) /\ c \in Clients
  BY DEF MmInv, MmShape
<1>2. /\ used' = [used EXCEPT !.restart = @ + 1] /\ handle' = path /\ path' = path
      /\ op' = [x \in Clients |-> Mm!NoOp]
      /\ index' = Mm!Recovered(disk'[path]).index /\ write_pos' = Mm!Recovered(disk'[path]).pos
      /\ acked' = [k \in Keys |-> acked[k] \cup
           {op[x].val : x \in {d \in Clients : op[d].kind \in {"put", "delete"} /\ op[d].key = k}}]
  BY DEF Mm!Restart, Mm!Use
<1>3. PICK w : /\ disk' \in [Mm!Files -> Seq(Cell)] /\ Filled(disk'[path], w)
               /\ \A j \in Keys : FileValue(disk'[path], j) = FileValue(disk[path], j)
  <2>1. CASE UNCHANGED disk
    BY <1>1, <2>1, PathFilled DEF MmShape
  <2>2. CASE \E x \in Clients : /\ Mm!Writing(x)
                                /\ \E n \in 1..(Mm!Size(op[x].val) - 1) :
                                     disk' = [disk EXCEPT ![handle] =
                                           Mm!Overwrite(disk[handle], write_pos,
                                                     SubSeq(Mm!Cells(op[x].key, op[x].val), 1, n))]
    <3> DEFINE k == op[c].key
               v == op[c].val
    <3>1. PICK n \in 1 .. Mm!Size(v) - 1 :
            disk' = [disk EXCEPT ![handle] =
                       Mm!Overwrite(disk[handle], write_pos, SubSeq(Mm!Cells(k, v), 1, n))]
      BY <2>2
    <3>2. op[c].kind \in {"put", "delete"}
      BY <2>2 DEF Mm!Writing
    <3>3. k \in Keys /\ v \in Vals \cup {Nothing} /\ ~Switching(op[c])
      BY <1>1, <3>2 DEF OpIs, Mm!NoOp, Switching
    <3>4. path = handle /\ Filled(disk[handle], write_pos)
      BY <1>1, <3>3 DEF FileHolds
    <3>5. n \in 0 .. Mm!Size(v) - 1
      <4>1. Mm!Size(v) \in {1, 3}
        BY SizeIs
      <4> QED BY <4>1
    <3> QED BY <1>1, <3>1, <3>3, <3>4, <3>5, TornKept
  <2> QED BY <2>1, <2>2 DEF Mm!Restart
<1>4. op' = [x \in Clients |-> op'[x]] /\ op'[c] = Mm!NoOp /\ OpIs(op'[c])
  BY <1>1, <1>2 DEF OpIs, Mm!NoOp
<1>5. /\ used' = [write |-> used'.write, compact |-> used'.compact, restart |-> used'.restart,
                  fault |-> used'.fault, clear |-> used'.clear]
      /\ used'.compact = used.compact /\ used'.fault = used.fault
  BY <1>1, <1>2 DEF MmShape
<1>6. index' = Ix(disk'[path]) /\ write_pos' = w /\ index' \in [Keys -> Nat]
  BY <1>2, <1>3, IxFunction DEF Ix
<1>a. ASSUME NEW j \in Keys
      PROVE  /\ acked[j] \subseteq acked'[j] /\ acked'[j] \subseteq Vals \cup {Nothing}
             /\ Unindexed(op[c], j) => op[c].val \in acked'[j]
  <2>1. acked'[j] = acked[j] \cup
           {op[x].val : x \in {d \in Clients : op[d].kind \in {"put", "delete"} /\ op[d].key = j}}
    BY <1>2
  <2>2. acked[j] \subseteq Vals \cup {Nothing}
    BY <1>1 DEF MmShape
  <2>3. op[c].kind \in {"put", "delete"} => op[c].val \in Vals \cup {Nothing}
    BY <1>1 DEF OpIs, Mm!NoOp
  <2> QED BY <2>1, <2>2, <2>3 DEF Unindexed
<1>7. MmShape'
  <2>1. acked' = [j \in Keys |-> acked'[j]]
    BY <1>2
  <2>2. acked' \in [Keys -> SUBSET (Vals \cup {Nothing})]
    BY <1>a, <2>1
  <2> QED BY <1>1, <1>2, <1>3, <1>4, <1>5, <1>6, <2>2 DEF MmShape
<1>8. FileHolds(op[c])'
  <2>1. ASSUME NEW j \in Keys PROVE FileValue(disk'[path], j) \in acked'[j]
    <3>1. CASE Unindexed(op[c], j)
      <4>1. /\ op[c].kind = "put" /\ op[c].pc = "index" /\ op[c].key = j
            /\ Ix(disk[handle])[j] = op[c].at /\ op[c].at # 0 /\ disk[handle][op[c].at].val = op[c].val
            /\ path = handle
        BY <1>1, <3>1 DEF Unindexed, OpHolds, FileHolds, Switching
      <4>2. FileValue(disk[path], j) = op[c].val
        BY <4>1 DEF FileValue
      <4> QED BY <1>3, <1>a, <3>1, <4>2
    <3>2. CASE ~Unindexed(op[c], j)
      BY <1>1, <1>3, <1>a, <3>2 DEF FileHolds
    <3> QED BY <3>1, <3>2
  <2> QED BY <1>2, <1>3, <1>6, <2>1 DEF FileHolds, Agrees
<1>9. OpHolds(op[c])'
  BY <1>4 DEF OpHolds, Mm!NoOp
<1> QED BY <1>7, <1>8, <1>9, MmAfter

LEMMA MmInit ==
  ASSUME MmapSized, NEW c, Clients = {c}, Mm!Init
  PROVE  MmInv
<1>1. /\ disk = [i \in Mm!Files |-> <<>>] /\ path = 1 /\ handle = 1 /\ write_pos = 1
      /\ index = Mm!NoIndex /\ op = [x \in Clients |-> Mm!NoOp] /\ acked = [k \in Keys |-> {Nothing}]
      /\ used = [write |-> 0, compact |-> 0, restart |-> 0, fault |-> 0, clear |-> 0]
  BY DEF Mm!Init
<1>2. 1 \in Mm!Files /\ MaxCompacts \in Nat /\ MaxFaults \in Nat
  BY DEF MmapSized, Mm!Files
<1>3. op[c] = Mm!NoOp /\ OpIs(op[c]) /\ op = [x \in Clients |-> op[x]]
  BY <1>1 DEF OpIs, Mm!NoOp
<1>4. MmShape
  <2>1. disk \in [Mm!Files -> Seq(Cell)]
    BY <1>1
  <2>2. index \in [Keys -> Nat] /\ acked \in [Keys -> SUBSET (Vals \cup {Nothing})]
    BY <1>1 DEF Mm!NoIndex
  <2> QED BY <1>1, <1>2, <1>3, <2>1, <2>2 DEF MmShape
<1>5. Filled(<<>>, 1) /\ Ix(<<>>) = Mm!NoIndex
  BY EmptyFile
<1>6. ASSUME NEW j \in Keys PROVE FileValue(<<>>, j) = Nothing
  BY <1>5 DEF FileValue, Mm!NoIndex
<1>7. FileHolds(op[c])
  BY <1>1, <1>2, <1>5, <1>6 DEF FileHolds, Agrees
<1>8. OpHolds(op[c])
  BY <1>3 DEF OpHolds, Mm!NoOp
<1> QED BY <1>4, <1>7, <1>8 DEF MmInv

LEMMA MmStep ==
  ASSUME MmapSized, NEW c, Clients = {c}, MmInv, [Mm!Next]_Mm!vars
  PROVE  MmInv'
<1>1. CASE UNCHANGED Mm!vars
  <2>1. /\ disk' = disk /\ path' = path /\ handle' = handle /\ write_pos' = write_pos
        /\ index' = index /\ op' = op /\ acked' = acked /\ used' = used
    BY <1>1 DEF Mm!vars
  <2>2. MmShape /\ FileHolds(op[c]) /\ OpHolds(op[c]) /\ c \in Clients
    BY DEF MmInv
  <2>3. MmShape'
    BY <2>1, <2>2 DEF MmShape
  <2>4. FileHolds(op[c])'
    BY <2>1, <2>2 DEF FileHolds, Agrees
  <2>5. OpHolds(op[c])'
    BY <2>1, <2>2 DEF OpHolds, NewFile
  <2> QED BY <2>3, <2>4, <2>5, MmAfter
<1>2. CASE Mm!Restart
  BY <1>2, RestartHolds
<1>3. CASE Mm!Step(c)
  BY <1>3, PutAppendHolds, PutFailsHolds, PutIndexHolds, DeleteAppendHolds, DeleteFailsHolds,
     GetFileHolds, GetReturnsHolds, ClearHolds, CompactBuildHolds, CompactRenameHolds,
     CompactFileHolds, CompactIndexHolds, CompactEndHolds DEF Mm!Step
<1>4. ASSUME NEW k \in Keys, Mm!GetIndex(c, k) \/ Mm!DeleteIndex(c, k) \/ \E v \in Vals : Mm!AskPut(c, k, v)
      PROVE MmInv'
  BY <1>4, GetIndexHolds, DeleteIndexHolds, AskPutHolds
<1> QED BY <1>1, <1>2, <1>3, <1>4 DEF Mm!Next

\* What a get, or an open, finds.
LEMMA ReadIs ==
  ASSUME MmapSized, NEW s, NEW w, Filled(s, w), NEW k \in Keys
  PROVE  Mm!Read(s, Ix(s), k) = FileValue(s, k)
<1>1. CASE Ix(s)[k] = 0
  BY <1>1 DEF Mm!Read, FileValue
<1>2. CASE Ix(s)[k] # 0
  <2>1. Ix(s)[k] \in Nat /\ Ix(s)[k] \in Entries(s)
    BY <1>2, IxPoints
  <2>2. s \in Seq(Cell) /\ EntryThere(s, Ix(s)[k])
    BY <2>1 DEF Entries, Filled
  <2>3. Mm!Whole(s, Ix(s)[k])
    BY <2>1, <2>2, WholeIs
  <2> QED BY <1>2, <2>3 DEF Mm!Read, Mm!EntryAt, FileValue
<1> QED BY <1>1, <1>2

\* The store has one user.
OneUser == \E c : Clients = {c}

LEMMA MmFound ==
  ASSUME MmapSized, OneUser, MmInv
  PROVE  Mm!ReadsAcked /\ Mm!RecoversAcked /\ Mm!FileAgrees /\ Mm!GetsOwnEntry
<1>0. PICK c : Clients = {c}
  BY DEF OneUser
<1>1. MmShape /\ FileHolds(op[c]) /\ OpHolds(op[c]) /\ OpIs(op[c]) /\ c \in Clients
  BY <1>0 DEF MmInv, MmShape
<1>2. PICK w : Filled(disk[path], w)
  BY <1>0, PathFilled
<1>3. Mm!RecoversAcked
  <2> SUFFICES ASSUME NEW k \in Keys,
                      \A x \in Clients : op[x].kind \in {"put", "delete"} => op[x].key # k
               PROVE  Mm!Read(disk[path], Ix(disk[path]), k) \in acked[k]
    BY DEF Mm!RecoversAcked, Ix
  <2>1. ~Unindexed(op[c], k)
    BY <1>1 DEF Unindexed
  <2> QED BY <1>1, <1>2, <2>1, ReadIs DEF FileHolds
<1>4. ASSUME Mm!Quiet
      PROVE  /\ path = handle /\ \A k \in Keys : Agrees(op[c], k) /\ ~Unindexed(op[c], k)
             /\ op[c].kind = "none"
  <2>1. op[c].kind = "none"
    BY <1>1, <1>4 DEF Mm!Quiet, Mm!NoOp
  <2> QED BY <1>1, <2>1 DEF FileHolds, Switching, Unindexed
<1>5. ASSUME Mm!Quiet, NEW k \in Keys
      PROVE  \/ /\ Mm!Read(disk[handle], index, k) = FileValue(disk[handle], k)
                /\ FileValue(disk[handle], k) \in acked[k]
             \/ /\ Mm!Read(disk[handle], index, k) = Nothing
                /\ Nothing \in acked[k] /\ used.fault > 0
  <2>1. path = handle /\ Agrees(op[c], k) /\ ~Unindexed(op[c], k) /\ op[c].kind = "none"
    BY <1>4, <1>5
  <2>2. CASE index[k] = Ix(disk[handle])[k]
    <3>1. Mm!Read(disk[handle], index, k) = Mm!Read(disk[handle], Ix(disk[handle]), k)
      BY <2>2 DEF Mm!Read
    <3>2. FileValue(disk[handle], k) \in acked[k]
      BY <1>1, <2>1 DEF FileHolds
    <3> QED BY <1>2, <2>1, <3>1, <3>2, ReadIs
  <2>3. CASE index[k] = 0 /\ Nothing \in acked[k] /\ used.fault > 0
    BY <2>3 DEF Mm!Read
  <2> QED BY <2>1, <2>2, <2>3 DEF Agrees
<1>6. Mm!ReadsAcked
  BY <1>5 DEF Mm!ReadsAcked
<1>7. Mm!FileAgrees
  <2> SUFFICES ASSUME Mm!Quiet, used.fault = 0, NEW k \in Keys
               PROVE  Mm!Read(disk[path], Ix(disk[path]), k) = Mm!Read(disk[handle], index, k)
    BY DEF Mm!FileAgrees, Ix
  <2>1. path = handle
    BY <1>4
  <2>2. Mm!Read(disk[handle], index, k) = FileValue(disk[handle], k)
    BY <1>5
  <2> QED BY <1>2, <2>1, <2>2, ReadIs
<1>8. Mm!GetsOwnEntry
  <2> SUFFICES ASSUME Mm!Kind(c, "get", "return") PROVE op[c].from \in {op[c].key, Nothing}
    BY <1>0 DEF Mm!GetsOwnEntry
  <2> QED BY <1>1 DEF OpHolds, Mm!Kind
<1> QED BY <1>3, <1>6, <1>7, <1>8

\* One user of the mapped store reads what the last answered put or delete of
\* the key left, an open at any moment recovers it, and a get is answered with
\* an entry of its key, through any appends that are torn, compactions, clears
\* and restarts.
THEOREM AnswersAreFound ==
  ASSUME MmapSized, OneUser
  PROVE  Mm!Spec => [](Mm!ReadsAcked /\ Mm!RecoversAcked /\ Mm!FileAgrees /\ Mm!GetsOwnEntry)
<1>1. Mm!Init => MmInv
  BY MmInit DEF OneUser
<1>2. MmInv /\ [Mm!Next]_Mm!vars => MmInv'
  BY MmStep DEF OneUser
<1>3. MmInv => Mm!ReadsAcked /\ Mm!RecoversAcked /\ Mm!FileAgrees /\ Mm!GetsOwnEntry
  BY MmFound
<1> QED BY <1>1, <1>2, <1>3, PTL DEF Mm!Spec

---------------------------------------------------------------------------
(* len()                                                                     *)

\* Where no append fails, the count is that of the index.
CountInv == \A c \in Clients : Counted(op[c])

LEMMA KeptChanges ==
  ASSUME MmapSized, MmShape, NEW k \in Keys, NEW a \in Nat, index' = [index EXCEPT ![k] = a]
  PROVE  /\ IsFiniteSet(Kept) /\ Cardinality(Kept) \in Nat
         /\ a # 0 => Cardinality(Kept') = IF k \in Kept THEN Cardinality(Kept) ELSE Cardinality(Kept) + 1
         /\ a = 0 => Cardinality(Kept') = IF k \in Kept THEN Cardinality(Kept) - 1 ELSE Cardinality(Kept)
<1>1. IsFiniteSet(Kept) /\ Cardinality(Kept) \in Nat
  <2>1. Kept \in SUBSET Keys
    BY DEF Kept
  <2> QED BY <2>1, FS_Subset, FS_CardinalityType DEF MmapSized
<1>2. a # 0 => Kept' = Kept \cup {k}
  BY DEF MmShape, Kept
<1>3. a = 0 => Kept' = Kept \ {k}
  BY DEF MmShape, Kept
<1> QED BY <1>1, <1>2, <1>3, FS_AddElement, FS_RemoveElement

LEMMA KeptFinite ==
  ASSUME MmapSized
  PROVE  IsFiniteSet(Kept) /\ Cardinality(Kept) \in Nat
<1>1. Kept \in SUBSET Keys
  BY DEF Kept
<1> QED BY <1>1, FS_Subset, FS_CardinalityType DEF MmapSized

\* What compaction copies: the entries the index points to.
LEMMA LiveIsKept ==
  ASSUME MmapSized, NEW c, Clients = {c}, MmInv, Mm!CompactBuild(c)
  PROVE  Mm!Live = Kept /\ \A k \in Mm!Live : Mm!ValueOf(k) \in Vals
<1>1. MmShape /\ FileHolds(op[c]) /\ c \in Clients
  BY DEF MmInv
<1>2. op[c].kind = "none"
  <2>1. op[c] = Mm!NoOp
    BY DEF Mm!CompactBuild
  <2> QED BY <2>1 DEF Mm!NoOp
<1>3. Filled(disk[handle], write_pos) /\ \A j \in Keys : Agrees(op[c], j)
  BY <1>1, <1>2 DEF FileHolds, Switching
<1>4. ASSUME NEW j \in Keys, index[j] # 0 PROVE j \in Mm!Live /\ Mm!ValueOf(j) \in Vals
  <2>1. index[j] = Ix(disk[handle])[j]
    BY <1>2, <1>3, <1>4 DEF Agrees, Unindexed
  <2>2. index[j] \in Entries(disk[handle]) /\ disk[handle][index[j]].val # Nothing
    BY <1>3, <1>4, <2>1, IxPoints
  <2>3. /\ index[j] \in Nat /\ EntryThere(disk[handle], index[j]) /\ disk[handle] \in Seq(Cell)
        /\ index[j] \in 1 .. Len(disk[handle])
    BY <1>1, <1>3, <2>2 DEF Entries, Filled, MmShape
  <2>4. Mm!Whole(disk[handle], index[j])
    BY <2>3, WholeIs
  <2>5. Mm!ValueOf(j) = disk[handle][index[j]].val
    BY <2>4 DEF Mm!ValueOf, Mm!EntryAt
  <2>6. disk[handle][index[j]] \in Cell
    BY <2>3
  <2>7. disk[handle][index[j]].val \in Vals
    BY <2>2, <2>6 DEF Cell
  <2> QED BY <1>4, <2>4, <2>5, <2>7 DEF Mm!Live
<1>5. \A j \in Mm!Live : j \in Keys /\ index[j] # 0
  BY DEF Mm!Live
<1>6. Mm!Live = Kept
  BY <1>4, <1>5 DEF Kept
<1> QED BY <1>4, <1>5, <1>6

LEMMA CountStep ==
  ASSUME MmapSized, MaxFaults = 0, NEW c, Clients = {c}, MmInv, CountInv, [Mm!Next]_Mm!vars
  PROVE  CountInv'
<1>1. MmShape /\ FileHolds(op[c]) /\ OpHolds(op[c]) /\ OpIs(op[c]) /\ Counted(op[c]) /\ c \in Clients
  BY DEF MmInv, MmShape, CountInv
<1>2. SUFFICES Counted(op[c])'
  BY DEF CountInv
<1>3. MmInv'
  BY MmStep
<1>4. used'.fault = 0
  BY <1>3 DEF MmInv, MmShape
<1>5. /\ op = [x \in Clients |-> op[x]]
      /\ op[c] = [kind |-> op[c].kind, pc |-> op[c].pc, key |-> op[c].key, val |-> op[c].val,
                  at |-> op[c].at, known |-> op[c].known, from |-> op[c].from, index |-> op[c].index]
  BY <1>1 DEF MmShape, OpIs
<1>6. Cardinality(Kept) \in Nat
  BY KeptFinite
<1>7. \A S : Mm!Cardinality(S) = Cardinality(S)
  BY DEF Mm!Cardinality, Cardinality
<1>p. Cardinality(Kept') \in Nat
  <2>1. Kept' \in SUBSET Keys
    BY DEF Kept
  <2> QED BY <2>1, FS_Subset, FS_CardinalityType DEF MmapSized
<1>n. Mm!NoOp.kind = "none"
  BY DEF Mm!NoOp
<1>8. ASSUME UNCHANGED <<index, count>>, op[c].kind # "delete", op'[c].kind \in {"none", "get"}
      PROVE  Counted(op[c])'
  BY <1>1, <1>4, <1>8 DEF Counted, Kept
<1>9. ASSUME NEW k \in Keys, NEW v \in Vals, Mm!AskPut(c, k, v) PROVE Counted(op[c])'
  <2>1. op'[c].kind = "put" /\ op'[c].key = k /\ (op'[c].known <=> index[k] # 0)
    BY <1>1, <1>5, <1>9 DEF Mm!AskPut
  <2>2. op[c].kind = "none" /\ UNCHANGED <<index, count>>
    BY <1>9, <1>n DEF Mm!AskPut
  <2> QED BY <1>1, <1>4, <2>1, <2>2 DEF Counted, Kept
<1>10. CASE Mm!PutAppend(c)
  <2>1. /\ op'[c].kind = "put" /\ op'[c].key = op[c].key /\ op'[c].known = op[c].known
        /\ op[c].kind = "put" /\ UNCHANGED <<index, count>>
    BY <1>1, <1>5, <1>10 DEF Mm!PutAppend, Mm!Kind
  <2> QED BY <1>1, <1>4, <2>1 DEF Counted, Kept
<1>11. CASE Mm!PutFails(c) \/ Mm!DeleteFails(c)
  BY <1>1, <1>11 DEF Mm!PutFails, Mm!DeleteFails, Mm!Use, Counted
<1>12. CASE Mm!PutIndex(c)
  <2>1. /\ op[c].kind = "put" /\ op[c].pc = "index" /\ op[c].key \in Keys
        /\ index' = [index EXCEPT ![op[c].key] = op[c].at]
        /\ count' = IF op[c].known THEN count ELSE count + 1
    BY <1>1, <1>12 DEF Mm!PutIndex, Mm!Kind, OpIs, Mm!NoOp
  <2>2. op'[c].kind = "none"
    BY <1>1, <1>5, <1>12, <1>n DEF Mm!PutIndex, Mm!Finish
  <2>3. op[c].at # 0 /\ op[c].at \in Nat
    <3>1. op[c].at # 0 /\ index'[op[c].key] = op[c].at
      BY <1>1, <2>1 DEF OpHolds, MmShape
    <3> QED BY <1>3, <2>1, <3>1 DEF MmInv, MmShape
  <2>4. Cardinality(Kept') = IF op[c].key \in Kept THEN Cardinality(Kept) ELSE Cardinality(Kept) + 1
    BY <1>1, <2>1, <2>3, KeptChanges
  <2>5. op[c].known <=> op[c].key \in Kept
    BY <1>1, <2>1 DEF Counted, Kept
  <2>6. count = Cardinality(Kept)
    BY <1>1, <1>6, <2>1 DEF Counted
  <2>7. count' = Cardinality(Kept')
    BY <2>1, <2>4, <2>5, <2>6
  <2> QED BY <1>4, <1>p, <2>2, <2>7 DEF Counted
<1>13. ASSUME NEW k \in Keys, Mm!DeleteIndex(c, k) PROVE Counted(op[c])'
  <2>1. /\ op[c] = Mm!NoOp /\ index[k] # 0 /\ index' = [index EXCEPT ![k] = 0] /\ count' = count
    BY <1>13 DEF Mm!DeleteIndex
  <2>2. op'[c].kind = "delete"
    BY <1>1, <1>5, <1>13 DEF Mm!DeleteIndex
  <2>3. Cardinality(Kept') = Cardinality(Kept) - 1
    <3>1. k \in Kept /\ 0 \in Nat
      BY <2>1 DEF Kept
    <3> QED BY <1>1, <2>1, <3>1, KeptChanges
  <2>4. count = Cardinality(Kept)
    BY <1>1, <1>6, <1>n, <2>1 DEF Counted
  <2>5. count' = Cardinality(Kept') + 1
    BY <1>6, <2>1, <2>3, <2>4
  <2> QED BY <1>4, <2>2, <2>5 DEF Counted
<1>14. CASE Mm!DeleteAppend(c)
  <2>1. op[c].kind = "delete" /\ index' = index /\ count' = count - 1
    BY <1>14 DEF Mm!DeleteAppend, Mm!Kind
  <2>2. op'[c].kind = "none"
    BY <1>1, <1>5, <1>14, <1>n DEF Mm!DeleteAppend, Mm!Finish
  <2>3. count = Cardinality(Kept) + 1 /\ Kept' = Kept
    BY <1>1, <2>1 DEF Counted, Kept
  <2>4. count' = Cardinality(Kept')
    BY <1>6, <2>1, <2>3
  <2> QED BY <1>4, <1>6, <2>2, <2>3, <2>4 DEF Counted
<1>15. CASE Mm!GetFile(c) \/ Mm!GetReturns(c) \/ \E k \in Keys : Mm!GetIndex(c, k)
  <2>1. UNCHANGED <<index, count>> /\ op[c].kind # "delete"
    BY <1>15, <1>n DEF Mm!GetFile, Mm!GetReturns, Mm!GetIndex, Mm!Kind
  <2>2. CASE Mm!GetFile(c)
    BY <1>1, <1>5, <1>8, <2>1, <2>2 DEF Mm!GetFile, Mm!Kind
  <2>3. CASE Mm!GetReturns(c)
    BY <1>1, <1>5, <1>8, <1>n, <2>1, <2>3 DEF Mm!GetReturns, Mm!Finish
  <2>4. CASE \E k \in Keys : Mm!GetIndex(c, k)
    BY <1>1, <1>5, <1>8, <2>1, <2>4 DEF Mm!GetIndex
  <2> QED BY <1>15, <2>2, <2>3, <2>4
<1>16. CASE Mm!Clear(c)
  <2>1. index' = Mm!NoIndex /\ count' = 0 /\ op'[c].kind = "none"
    BY <1>16, <1>n DEF Mm!Clear
  <2>2. Kept' = {}
    BY <2>1 DEF Kept, Mm!NoIndex
  <2>3. Cardinality(Kept') = 0
    BY <2>2, FS_EmptySet
  <2> QED BY <1>4, <2>1, <2>3 DEF Counted
<1>17. CASE Mm!CompactRename(c) \/ Mm!CompactFile(c)
  <2>1. /\ UNCHANGED <<index, count>> /\ op[c].kind = "compact"
        /\ \E x : op' = [op EXCEPT ![c].pc = x]
    BY <1>17 DEF Mm!CompactRename, Mm!CompactFile, Mm!Kind, Mm!Goto
  <2>2. op'[c].kind = "compact" /\ op'[c].index = op[c].index
    BY <1>1, <1>5, <2>1
  <2> QED BY <1>1, <1>4, <2>1, <2>2 DEF Counted, Kept
<1>18. CASE Mm!CompactIndex(c)
  <2>1. /\ index' = op[c].index /\ count' = count /\ op[c].kind = "compact"
        /\ op' = [op EXCEPT ![c].pc = "end"]
    BY <1>18 DEF Mm!CompactIndex, Mm!Kind, Mm!Goto
  <2>2. op'[c].kind = "compact" /\ op'[c].index = op[c].index
    BY <1>1, <1>5, <2>1
  <2>3. Kept' = Kept /\ {k \in Keys : op[c].index[k] # 0} = Kept
    BY <1>1, <2>1 DEF Counted, Kept
  <2>4. count = Cardinality(Kept)
    BY <1>1, <1>6, <2>1 DEF Counted
  <2> QED BY <1>4, <1>6, <2>1, <2>2, <2>3, <2>4 DEF Counted
<1>19. CASE Mm!CompactEnd(c)
  <2>1. op[c].kind = "compact" /\ UNCHANGED <<index, count>>
    BY <1>19 DEF Mm!CompactEnd, Mm!Kind
  <2>2. op'[c].kind = "none"
    BY <1>1, <1>5, <1>19, <1>n DEF Mm!CompactEnd, Mm!Finish
  <2> QED BY <1>8, <2>1, <2>2
<1>20. CASE Mm!CompactBuild(c)
  <2>1. op[c].kind = "none" /\ UNCHANGED <<index, count>>
    BY <1>20, <1>n DEF Mm!CompactBuild
  <2>2. Mm!Live = Kept /\ \A k \in Mm!Live : Mm!ValueOf(k) \in Vals
    BY <1>1, <1>20, LiveIsKept
  <2>3. PICK t, w, ix : BuildsTo(c, t, w, ix)
    BY <1>20, <2>2, Compacts
  <2>4. op' = [op EXCEPT ![c].kind = "compact", ![c].pc = "rename", ![c].at = w, ![c].index = ix]
    BY <2>3 DEF BuildsTo
  <2>5. op'[c].kind = "compact" /\ op'[c].index = ix
    BY <1>1, <1>5, <2>4
  <2>6. \A k \in Keys : ix[k] # 0 <=> k \in Mm!Live
    BY <2>3 DEF BuildsTo
  <2>7. {k \in Keys : op'[c].index[k] # 0} = Kept' /\ Kept' = Kept
    BY <2>1, <2>2, <2>5, <2>6 DEF Kept
  <2> QED BY <1>1, <1>4, <1>6, <2>1, <2>5, <2>7 DEF Counted
<1>21. CASE Mm!Restart
  <2>1. op'[c].kind = "none" /\ count' = Mm!Cardinality(Kept')
    BY <1>1, <1>21, <1>n DEF Mm!Restart, Kept
  <2> QED BY <1>4, <1>7, <1>p, <2>1 DEF Counted
<1>22. CASE UNCHANGED Mm!vars
  BY <1>1, <1>22 DEF Mm!vars, Counted, Kept
<1> QED BY <1>9, <1>10, <1>11, <1>12, <1>13, <1>14, <1>15, <1>16, <1>17, <1>18, <1>19, <1>20,
           <1>21, <1>22 DEF Mm!Next, Mm!Step

\* "Number of live entries": one user of the store is told by len() how many
\* keys have an entry, where no append fails.
THEOREM EntriesAreCounted ==
  ASSUME MmapSized, OneUser, MaxFaults = 0
  PROVE  Mm!Spec => []Mm!CountExact
<1>1. Mm!Init => MmInv /\ CountInv
  <2> SUFFICES ASSUME Mm!Init PROVE MmInv /\ CountInv
    OBVIOUS
  <2>1. MmInv
    BY MmInit DEF OneUser
  <2>2. Kept = {}
    BY DEF Mm!Init, Mm!NoIndex, Kept
  <2>3. Cardinality(Kept) = 0
    BY <2>2, FS_EmptySet
  <2>4. \A c \in Clients : Counted(op[c])
    BY <2>3 DEF Mm!Init, Mm!NoOp, Counted
  <2> QED BY <2>1, <2>4 DEF CountInv
<1>2. MmInv /\ CountInv /\ [Mm!Next]_Mm!vars => (MmInv /\ CountInv)'
  BY MmStep, CountStep DEF OneUser
<1>3. MmInv /\ CountInv => Mm!CountExact
  <2> SUFFICES ASSUME CountInv, Mm!Quiet PROVE count = Mm!Cardinality(Kept)
    BY DEF Mm!CountExact, Kept
  <2>1. PICK c : Clients = {c}
    BY DEF OneUser
  <2>2. op[c].kind = "none" /\ Counted(op[c])
    BY <2>1 DEF Mm!Quiet, Mm!NoOp, CountInv
  <2>3. count = Cardinality(Kept)
    BY <2>2, KeptFinite DEF Counted
  <2>4. Mm!Cardinality(Kept) = Cardinality(Kept)
    BY DEF Mm!Cardinality, Cardinality
  <2> QED BY <2>3, <2>4
<1> QED BY <1>1, <1>2, <1>3, PTL DEF Mm!Spec
=============================================================================
