---------------------------- MODULE TieredStore ----------------------------
(***************************************************************************)
(* The tiered state store: L1 in memory, L2 in a mapped file, L3 in a      *)
(* database.  An operation of a client works through the tiers one after   *)
(* the other; demotion and promotion move values between them; a restart   *)
(* empties L1 and nothing else.                                            *)
(*                                                                         *)
(* Source: aeon-state tiered.rs, with l1.rs and l3.rs for the tiers' own   *)
(* operations (l2.rs is module MmapStore).  Sizes are counted in entries.  *)
(* Errors of L3 are modelled, errors of L2 are not: they end a get or a    *)
(* demotion with nothing changed, and a delete with only L1 changed.       *)
(***************************************************************************)
EXTENDS Naturals, FiniteSets

CONSTANTS
  Keys, Vals, Nothing,
  Clients,
  Writers,      \* the clients that put, delete and clear
  L2On, L3On,   \* l2_enabled, l3_enabled
  MaxL1,        \* l1_max_bytes, in entries
  MaxRestarts,  \* bound: restarts
  MaxFaults,    \* bound: errors of L3
  MaxClears     \* bound: clears

ASSUME TieredAssumption ==
  /\ Nothing \notin Vals /\ Writers \subseteq Clients
  /\ L2On \in BOOLEAN /\ L3On \in BOOLEAN /\ MaxL1 \in Nat
  /\ MaxRestarts \in Nat /\ MaxFaults \in Nat /\ MaxClears \in Nat

VARIABLES
  l1, l2, l3,   \* the tiers' contents
  op,           \* op[c]: the operation of the client and how far it is
  acked,        \* acked[k]: the values k may have after what was answered
  restarts, faults, clears

vars == <<l1, l2, l3, op, acked, restarts, faults, clears>>

Empty == [k \in Keys |-> Nothing]
Values == Vals \cup {Nothing}
Op(kind, pc, k, v, todo) == [kind |-> kind, pc |-> pc, key |-> k, val |-> v, todo |-> todo]
NoOp == Op("none", "idle", Nothing, Nothing, {})

Init ==
  /\ l1 = Empty /\ l2 = Empty /\ l3 = Empty
  /\ op = [c \in Clients |-> NoOp]
  /\ acked = [k \in Keys |-> {Nothing}]
  /\ restarts = 0 /\ faults = 0 /\ clears = 0

Kind(c, kind, pc) == op[c].kind = kind /\ op[c].pc = pc
Become(c, o) == op' = [op EXCEPT ![c] = o]
Goto(c, pc) == Become(c, Op(op[c].kind, pc, op[c].key, op[c].val, op[c].todo))
With(c, pc, v) == Become(c, Op(op[c].kind, pc, op[c].key, v, op[c].todo))
Return(c, v) == With(c, "return", v)
Finish(c) == Become(c, NoOp)
Fault == faults < MaxFaults /\ faults' = faults + 1
OverThreshold == Cardinality({k \in Keys : l1[k] # Nothing}) > MaxL1

---------------------------------------------------------------------------
(* Requests.                                                                 *)

AskGet(c, k) ==
  /\ op[c] = NoOp
  /\ Become(c, Op("get", "l1", k, Nothing, {}))
  /\ UNCHANGED <<l1, l2, l3, acked, restarts, faults, clears>>

AskPut(c, k, v) ==
  /\ op[c] = NoOp /\ c \in Writers
  /\ Become(c, Op("put", "l1", k, v, {}))
  /\ UNCHANGED <<l1, l2, l3, acked, restarts, faults, clears>>

AskDelete(c, k) ==
  /\ op[c] = NoOp /\ c \in Writers
  /\ Become(c, Op("delete", "l1", k, Nothing, {}))
  /\ UNCHANGED <<l1, l2, l3, acked, restarts, faults, clears>>

---------------------------------------------------------------------------
(* get: the tiers in order; a hit below L1 is promoted.                      *)

GetL1(c) ==
  /\ Kind(c, "get", "l1")
  /\ IF l1[op[c].key] # Nothing THEN Return(c, l1[op[c].key]) ELSE Goto(c, "l2")
  /\ UNCHANGED <<l1, l2, l3, acked, restarts, faults, clears>>

GetL2(c) ==
  /\ Kind(c, "get", "l2")
  /\ IF L2On /\ l2[op[c].key] # Nothing
     THEN With(c, "promote", l2[op[c].key])
     ELSE Goto(c, "l3")
  /\ UNCHANGED <<l1, l2, l3, acked, restarts, faults, clears>>

\* An error of L3 is taken for a miss.
GetL3(c) ==
  /\ Kind(c, "get", "l3")
  /\ \/ /\ IF L3On /\ l3[op[c].key] # Nothing
           THEN With(c, "promote", l3[op[c].key])
           ELSE Return(c, Nothing)
        /\ UNCHANGED faults
     \/ L3On /\ Fault /\ Return(c, Nothing)
  /\ UNCHANGED <<l1, l2, l3, acked, restarts, clears>>

Promote(c) ==
  /\ Kind(c, "get", "promote")
  /\ l1' = [l1 EXCEPT ![op[c].key] = op[c].val]
  /\ Goto(c, "return")
  /\ UNCHANGED <<l2, l3, acked, restarts, faults, clears>>

GetReturns(c) ==
  /\ Kind(c, "get", "return")
  /\ Finish(c)
  /\ UNCHANGED <<l1, l2, l3, acked, restarts, faults, clears>>

---------------------------------------------------------------------------
(* put writes L1, then through to L3; L2 is left alone.  delete goes through *)
(* all tiers.  An error of L3 is returned, with the tiers before it changed. *)

PutL1(c) ==
  /\ Kind(c, "put", "l1")
  /\ l1' = [l1 EXCEPT ![op[c].key] = op[c].val]
  /\ Goto(c, "l3")
  /\ UNCHANGED <<l2, l3, acked, restarts, faults, clears>>

\* Mutant of PutL3: no write-through.
PutStaysInL1(c) ==
  /\ Kind(c, "put", "l3")
  /\ acked' = [acked EXCEPT ![op[c].key] = {op[c].val}]
  /\ Finish(c)
  /\ UNCHANGED <<l1, l2, l3, restarts, faults, clears>>

PutL3(c) ==
  LET k == op[c].key IN
  /\ Kind(c, "put", "l3")
  /\ \/ /\ l3' = IF L3On THEN [l3 EXCEPT ![k] = op[c].val] ELSE l3
        /\ acked' = [acked EXCEPT ![k] = {op[c].val}]
        /\ UNCHANGED faults
     \/ /\ L3On /\ Fault
        /\ acked' = [acked EXCEPT ![k] = @ \cup {op[c].val}]
        /\ UNCHANGED l3
  /\ Finish(c)
  /\ UNCHANGED <<l1, l2, restarts, clears>>

DeleteL1(c) ==
  /\ Kind(c, "delete", "l1")
  /\ l1' = [l1 EXCEPT ![op[c].key] = Nothing]
  /\ Goto(c, "l2")
  /\ UNCHANGED <<l2, l3, acked, restarts, faults, clears>>

DeleteL2(c) ==
  /\ Kind(c, "delete", "l2")
  /\ l2' = IF L2On THEN [l2 EXCEPT ![op[c].key] = Nothing] ELSE l2
  /\ Goto(c, "l3")
  /\ UNCHANGED <<l1, l3, acked, restarts, faults, clears>>

DeleteL3(c) ==
  LET k == op[c].key IN
  /\ Kind(c, "delete", "l3")
  /\ \/ /\ l3' = IF L3On THEN [l3 EXCEPT ![k] = Nothing] ELSE l3
        /\ acked' = [acked EXCEPT ![k] = {Nothing}]
        /\ UNCHANGED faults
     \/ /\ L3On /\ Fault
        /\ acked' = [acked EXCEPT ![k] = @ \cup {Nothing}]
        /\ UNCHANGED l3
  /\ Finish(c)
  /\ UNCHANGED <<l1, l2, restarts, clears>>

---------------------------------------------------------------------------
(* demote_to_l2: keys of a snapshot are read, written to L2 and removed from *)
(* L1 until L1 is below its threshold.                                       *)

StartDemote(c) ==
  /\ op[c] = NoOp /\ L2On /\ OverThreshold
  /\ \E S \in SUBSET {k \in Keys : l1[k] # Nothing} :
       /\ S # {}
       /\ Become(c, Op("demote", "pick", Nothing, Nothing, S))
  /\ UNCHANGED <<l1, l2, l3, acked, restarts, faults, clears>>

DemoteRead(c) ==
  /\ Kind(c, "demote", "pick")
  /\ \/ op[c].todo = {} /\ Finish(c)
     \/ \E k \in op[c].todo :
          Become(c, Op("demote", IF l1[k] # Nothing THEN "l2" ELSE "pick", k, l1[k], op[c].todo \ {k}))
  /\ UNCHANGED <<l1, l2, l3, acked, restarts, faults, clears>>

DemoteWrite(c) ==
  /\ Kind(c, "demote", "l2")
  /\ l2' = [l2 EXCEPT ![op[c].key] = op[c].val]
  /\ Goto(c, "l1")
  /\ UNCHANGED <<l1, l3, acked, restarts, faults, clears>>

DemoteRemove(c) ==
  /\ Kind(c, "demote", "l1")
  /\ l1' = [l1 EXCEPT ![op[c].key] = Nothing]
  /\ Goto(c, "check")
  /\ UNCHANGED <<l2, l3, acked, restarts, faults, clears>>

DemoteCheck(c) ==
  /\ Kind(c, "demote", "check")
  /\ IF OverThreshold THEN Goto(c, "pick") ELSE Finish(c)
  /\ UNCHANGED <<l1, l2, l3, acked, restarts, faults, clears>>

---------------------------------------------------------------------------

\* clear empties L1, then L2, and leaves L3.
ClearL1(c) ==
  /\ op[c] = NoOp /\ c \in Writers /\ clears < MaxClears
  /\ l1' = Empty
  /\ Become(c, Op("clear", "l2", Nothing, Nothing, {}))
  /\ clears' = clears + 1
  /\ UNCHANGED <<l2, l3, acked, restarts, faults>>

ClearL2(c) ==
  /\ Kind(c, "clear", "l2")
  /\ l2' = IF L2On THEN Empty ELSE l2
  /\ acked' = [k \in Keys |-> {Nothing}]
  /\ Finish(c)
  /\ UNCHANGED <<l1, l3, restarts, faults, clears>>

\* The process ends, whatever is under way, and with_config opens the store
\* again: L1 is new, L2 and L3 are as they were left.
Restart ==
  /\ restarts < MaxRestarts /\ restarts' = restarts + 1
  /\ l1' = Empty
  /\ op' = [c \in Clients |-> NoOp]
  /\ acked' = [k \in Keys |-> acked[k] \cup
                {op[c].val : c \in {d \in Clients : op[d].kind = "put" /\ op[d].key = k}}
                \cup {Nothing : c \in {d \in Clients : \/ op[d].kind = "delete" /\ op[d].key = k
                                                   \/ op[d].kind = "clear"}}]
  /\ UNCHANGED <<l2, l3, faults, clears>>

Step(c) ==
  \/ GetL1(c) \/ GetL2(c) \/ GetL3(c) \/ Promote(c) \/ GetReturns(c)
  \/ PutL1(c) \/ PutL3(c)
  \/ DeleteL1(c) \/ DeleteL2(c) \/ DeleteL3(c)
  \/ StartDemote(c) \/ DemoteRead(c) \/ DemoteWrite(c) \/ DemoteRemove(c) \/ DemoteCheck(c)
  \/ ClearL1(c) \/ ClearL2(c)

Next ==
  \/ \E c \in Clients :
       \/ Step(c)
       \/ \E k \in Keys : AskGet(c, k) \/ AskDelete(c, k) \/ \E v \in Vals : AskPut(c, k, v)
  \/ Restart

Spec == Init /\ [][Next]_vars

---------------------------------------------------------------------------
(* Properties.                                                               *)

\* Types of the store's state.
TypeOK ==
  /\ l1 \in [Keys -> Values] /\ l2 \in [Keys -> Values] /\ l3 \in [Keys -> Values]
  /\ op \in [Clients -> [kind : {"none", "get", "put", "delete", "demote", "clear"},
                         pc : {"idle", "l1", "l2", "l3", "promote", "return", "pick", "check"},
                         key : Keys \cup {Nothing}, val : Values, todo : SUBSET Keys]]
  /\ \A c \in Clients : op[c].kind \in {"get", "put", "delete"} => op[c].key \in Keys
  /\ acked \in [Keys -> SUBSET Values]
  /\ restarts \in Nat /\ faults \in Nat /\ clears \in Nat

\* What a get would find: the first tier that has the key.
View(k) ==
  IF l1[k] # Nothing THEN l1[k]
  ELSE IF L2On /\ l2[k] # Nothing THEN l2[k]
  ELSE IF L3On THEN l3[k] ELSE Nothing

\* "Read path: L1 hit, L1 miss -> L2 hit -> promote, L2 miss -> L3": when no
\* operation is under way, a read finds what the last answered write of the
\* key left, however its value has moved between the tiers and whatever a
\* failed or interrupted write changed before it stopped.
ReadsLastWrite ==
  (\A c \in Clients : op[c] = NoOp) => \A k \in Keys : View(k) \in acked[k]

\* The request of a single client, and the answer it will get: a put takes
\* effect in L1, a delete when it leaves L1, a get when it is answered.
Client == CHOOSE c \in Clients : TRUE
MapView ==
  [k \in Keys |-> IF op[Client].kind = "delete" /\ op[Client].key = k /\ op[Client].pc # "l1"
                  THEN Nothing ELSE View(k)]
Asked ==
  CASE op[Client].kind = "get" -> [kind |-> "get", key |-> op[Client].key]
    [] op[Client].kind = "put" ->
         [kind |-> "put", key |-> op[Client].key, val |-> op[Client].val]
    [] op[Client].kind = "delete" -> [kind |-> "delete", key |-> op[Client].key]
    [] OTHER -> [kind |-> "none"]
Answered ==
  [done |-> \/ op[Client].kind \in {"put", "delete"} /\ op[Client].pc # "l1"
            \/ op[Client].kind = "get" /\ op[Client].pc = "return",
   val |-> IF op[Client].kind = "get" /\ op[Client].pc = "return"
           THEN op[Client].val ELSE Nothing]

\* The tiered store implements StateOps for a single client: three tiers with
\* promotion, demotion and write-through look like one map.
StateOps == INSTANCE StateMap WITH map <- MapView, req <- Asked, ans <- Answered
ImplementsMap == StateOps!Spec
=============================================================================
