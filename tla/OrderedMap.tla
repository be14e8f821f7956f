----------------------------- MODULE OrderedMap -----------------------------
(***************************************************************************)
(* What the B+tree promises its callers: a map from keys to values, whose  *)
(* operations fill in a request with what they did.                        *)
(***************************************************************************)
CONSTANTS
    Keys, Vals, Modes,
    NONE        \* no value

VARIABLES
    map,        \* the value of each key, or NONE
    req         \* the last request and its answer

Init ==
    /\ map = [k \in Keys |-> NONE]
    /\ req = NONE

Asked(op, k, v, mode) ==
    /\ req'.op = op /\ req'.key = k
    /\ req'.val = v /\ req'.mode = mode

\* The key gets the value and the answer tells what that changed.
Put(k, to) ==
    /\ map' = [map EXCEPT ![k] = to]
    /\ req'.updated = (map[k] # to)
    /\ req'.added = (map[k] = NONE /\ to # NONE)
    /\ req'.old = IF map[k] # to THEN map[k] ELSE NONE

Update(k, v, mode) ==
    /\ Asked("update", k, v, mode)
    /\ \/ mode = "INSERT_ONLY" /\ map[k] # NONE /\ Put(k, map[k])
       \/ mode = "UPDATE_ONLY" /\ map[k] = NONE /\ Put(k, NONE)
       \/ mode = "INSERT_ONLY" /\ map[k] = NONE /\ Put(k, v)
       \/ mode = "UPDATE_ONLY" /\ map[k] # NONE /\ Put(k, v)
       \/ mode = "UPSERT" /\ Put(k, v)

Delete(k) == Asked("delete", k, NONE, NONE) /\ Put(k, NONE)

Next == \E k \in Keys :
            \/ Delete(k)
            \/ \E v \in Vals, mode \in Modes : Update(k, v, mode)

Spec == Init /\ [][Next]_<<map, req>>
=============================================================================
