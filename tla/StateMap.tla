------------------------------ MODULE StateMap ------------------------------
(***************************************************************************)
(* What aeon-types' StateOps promises a single user: a map from keys to    *)
(* values.  A request is asked, takes effect once, and is answered; a get  *)
(* is answered with what the map holds.                                    *)
(***************************************************************************)
CONSTANTS Keys, Vals, Nothing

VARIABLES
  map,   \* map[k]: the value of k, Nothing when there is none
  req,   \* the request under way
  ans    \* its answer, once it has taken effect

Idle == [kind |-> "none"]
Requests ==
  [kind : {"get"}, key : Keys]
    \cup [kind : {"put"}, key : Keys, val : Vals]
    \cup [kind : {"delete"}, key : Keys]
Pending == [done |-> FALSE, val |-> Nothing]
Answer(v) == [done |-> TRUE, val |-> v]

Init == map = [k \in Keys |-> Nothing] /\ req = Idle /\ ans = Pending

Ask == req = Idle /\ req' \in Requests /\ UNCHANGED <<map, ans>>

Effect ==
  /\ req # Idle /\ ~ans.done
  /\ \/ /\ req.kind = "get"
        /\ ans' = Answer(map[req.key]) /\ UNCHANGED map
     \/ /\ req.kind = "put"
        /\ map' = [map EXCEPT ![req.key] = req.val] /\ ans' = Answer(Nothing)
     \/ /\ req.kind = "delete"
        /\ map' = [map EXCEPT ![req.key] = Nothing] /\ ans' = Answer(Nothing)
  /\ UNCHANGED req

Return == ans.done /\ req' = Idle /\ ans' = Pending /\ UNCHANGED map

Next == Ask \/ Effect \/ Return
Spec == Init /\ [][Next]_<<map, req, ans>>
=============================================================================
