---------------------------- MODULE EncryptedL3 ----------------------------
(* EncryptedL3Store: a wrapper that seals every value of an L3 store with    *)
(* one data key, kept wrapped in a sidecar beside the store.  To its user it *)
(* is the plain map of StateMap, across restarts and key rotations.          *)
EXTENDS Kek, FiniteSets

CONSTANTS
    Keys, Vals, Nothing,
    MaxKek,       \* bound on the key rotations
    TornSidecar   \* the process may die inside the write of the sidecar

VARIABLES
    inner,    \* the inner store: Nothing, or a value and the key that sealed it
    sidecar,  \* "none", "torn" or a wrapped data key
    cipher,   \* the data key in memory; 0 while the store is not wrapped
    handle,   \* the key handle the store is wrapped with
    req, ans  \* the user's request and its answer

vars == <<inner, sidecar, cipher, handle, req, ans>>

Map == INSTANCE StateMap
         WITH map <- [k \in Keys |-> IF inner[k] = Nothing THEN Nothing ELSE inner[k].val]

NoSidecar == [kek |-> 0, dek |-> 0]
Torn      == [kek |-> 0, dek |-> 1]

\* The data keys in use: one more than any that ever sealed a value.
FreshDek == 1 + Cardinality({k \in Keys : inner[k] # Nothing})

Seal(v) == [dek |-> cipher, val |-> v]

Failed == [done |-> TRUE, val |-> "failed"]

\* open: only the data key that sealed a value opens it.
OpenSealed(sealed) == IF sealed = Nothing THEN Map!Answer(Nothing)
                      ELSE IF sealed.dek = cipher THEN Map!Answer(sealed.val)
                      ELSE Failed

Init ==
    /\ inner = [k \in Keys |-> Nothing]
    /\ sidecar = NoSidecar
    /\ cipher = 0
    /\ handle = [active |-> 1, previous |-> 0]
    /\ req = Map!Idle
    /\ ans = Map!Pending

\* Mutant of WrapExisting: the store is wrapped with a data key of its own.
WrapExistingFresh ==
    /\ cipher = 0 /\ sidecar # NoSidecar
    /\ Unwraps(handle, sidecar)
    /\ cipher' = 1 + sidecar.dek
    /\ UNCHANGED <<inner, sidecar, handle, req, ans>>

\* wrap with a sidecar: it must unwrap, there is no way back to plaintext.
WrapExisting ==
    /\ cipher = 0 /\ sidecar # NoSidecar
    /\ Unwraps(handle, sidecar)
    /\ cipher' = sidecar.dek
    /\ UNCHANGED <<inner, sidecar, handle, req, ans>>

\* wrap without a sidecar: a fresh data key; std::fs::write of the sidecar.
WrapNew ==
    /\ cipher = 0 /\ sidecar = NoSidecar
    /\ sidecar' = Wrap(handle, FreshDek)
    /\ cipher' = FreshDek
    /\ UNCHANGED <<inner, handle, req, ans>>

\* The process dies while the sidecar is written.
WrapTorn ==
    /\ TornSidecar
    /\ cipher = 0 /\ sidecar = NoSidecar
    /\ sidecar' = Torn
    /\ UNCHANGED <<inner, cipher, handle, req, ans>>

Ask == /\ cipher # 0
       /\ req = Map!Idle /\ req' \in Map!Requests
       /\ UNCHANGED <<inner, sidecar, cipher, handle, ans>>

Get == /\ req.kind = "get" /\ ~ans.done
       /\ ans' = OpenSealed(inner[req.key])
       /\ UNCHANGED <<inner, sidecar, cipher, handle, req>>

Put == /\ req.kind = "put" /\ ~ans.done
       /\ inner' = [inner EXCEPT ![req.key] = Seal(req.val)]
       /\ ans' = Map!Answer(Nothing)
       /\ UNCHANGED <<sidecar, cipher, handle, req>>

Delete == /\ req.kind = "delete" /\ ~ans.done
          /\ inner' = [inner EXCEPT ![req.key] = Nothing]
          /\ ans' = Map!Answer(Nothing)
          /\ UNCHANGED <<sidecar, cipher, handle, req>>

Return == /\ ans.done
          /\ req' = Map!Idle /\ ans' = Map!Pending
          /\ UNCHANGED <<inner, sidecar, cipher, handle>>

\* The process ends between two requests.
Restart == /\ cipher # 0 /\ req = Map!Idle
           /\ cipher' = 0
           /\ UNCHANGED <<inner, sidecar, handle, req, ans>>

\* A new active key; the sidecar is never wrapped again, so its key must be
\* one of the two the handle tracks.
Rotate == /\ cipher = 0
          /\ handle.active < MaxKek
          /\ sidecar.kek \in {0, handle.active}
          /\ handle' = [active |-> handle.active + 1, previous |-> handle.active]
          /\ UNCHANGED <<inner, sidecar, cipher, req, ans>>

Next == \/ WrapExisting \/ WrapNew \/ WrapTorn \/ Ask \/ Get \/ Put \/ Delete \/ Return
        \/ Restart \/ Rotate

Spec == Init /\ [][Next]_vars

-----------------------------------------------------------------------------
TypeOK ==
    /\ \A k \in Keys : inner[k] = Nothing \/ (inner[k].val \in Vals /\ inner[k].dek > 0)
    /\ sidecar.kek \in 0 .. MaxKek /\ handle.active \in 1 .. MaxKek
    /\ req = Map!Idle \/ req \in Map!Requests

\* The wrapper is the plain map to its user: no restart or rotation makes a
\* value unreadable or another one.
MapSpec == Map!Spec

\* A store can always be wrapped again: the sidecar is missing or unwraps.
WrapsAgain == sidecar = NoSidecar \/ Unwraps(handle, sidecar)
=============================================================================
