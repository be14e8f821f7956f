------------------------------ MODULE SerialKV ------------------------------
(***************************************************************************)
(* What the transactions of the key-value store promise, without versions, *)
(* history or free list.  A transaction that attempted an update commits   *)
(* exactly when no key it depends on was changed by a commit since it      *)
(* began, so everything it depends on still has, at the moment of its      *)
(* commit, the value it saw: it could have run alone at that moment.  A    *)
(* transaction that attempted none always commits and changes nothing.     *)
(***************************************************************************)
EXTENDS Integers

CONSTANTS Keys, Vals, NONE, DELETED, Tx

VARIABLES
    store,    \* the committed value of each key
    state,    \* of each transaction: "active", or how the last one ended
    snap,     \* what the transaction reads
    view,     \* keys it depends on
    updater,  \* it attempted an update
    writes,   \* value it will give to each key, DELETED, or NONE to keep it
    dirty     \* keys that commits have changed since it began

avars == <<store, state, snap, view, updater, writes, dirty>>

Unwritten == [k \in Keys |-> NONE]

Init ==
    /\ store \in [Keys -> Vals \cup {NONE}]
    /\ state = [t \in Tx |-> "idle"]
    /\ snap = [t \in Tx |-> Unwritten]
    /\ view = [t \in Tx |-> {}]
    /\ updater = [t \in Tx |-> FALSE]
    /\ writes = [t \in Tx |-> Unwritten]
    /\ dirty = [t \in Tx |-> {}]

Begin(t) ==
    /\ state[t] # "active"
    /\ state' = [state EXCEPT ![t] = "active"]
    /\ snap' = [snap EXCEPT ![t] = store]
    /\ UNCHANGED <<store, view, updater, writes, dirty>>

\* An operation of a statement, or the revert of a whole statement: it
\* depends on every key it writes, and a writer stays an updater.
Work(t) ==
    /\ state[t] = "active"
    /\ view' \in [Tx -> SUBSET Keys]
    /\ updater' \in [Tx -> BOOLEAN]
    /\ writes' \in [Tx -> [Keys -> Vals \cup {NONE, DELETED}]]
    /\ \A u \in Tx \ {t} : UNCHANGED <<view[u], updater[u], writes[u]>>
    /\ updater[t] => updater'[t]
    /\ \A k \in Keys : writes'[t][k] # NONE => k \in view'[t] /\ updater'[t]
    /\ UNCHANGED <<store, state, snap, dirty>>

Applied(t) == [k \in Keys |-> CASE writes[t][k] = NONE    -> store[k]
                                [] writes[t][k] = DELETED -> NONE
                                [] OTHER                  -> writes[t][k]]

Changed(new) == {k \in Keys : new[k] # store[k]}

\* t ends; what the others still open missed grows by the keys of new.
Finish(t, outcome, new) ==
    /\ state[t] = "active"
    /\ store' = new
    /\ state' = [state EXCEPT ![t] = outcome]
    /\ snap' = [snap EXCEPT ![t] = Unwritten]
    /\ view' = [view EXCEPT ![t] = {}]
    /\ updater' = [updater EXCEPT ![t] = FALSE]
    /\ writes' = [writes EXCEPT ![t] = Unwritten]
    /\ dirty' = [u \in Tx |-> IF u # t /\ state[u] = "active"
                              THEN dirty[u] \cup Changed(new) ELSE {}]

Stale(t) == view[t] \cap dirty[t] # {}

\* The promise: an updater commits on current data only.
Current(t) == \A k \in view[t] : snap[t][k] = store[k]

Commit(t) ==
    /\ updater[t] => ~Stale(t) /\ Current(t)
    /\ Finish(t, "committed", Applied(t))

Conflict(t) == updater[t] /\ Stale(t) /\ Finish(t, "conflict", store)

\* A rollback, or a commit whose write to the file failed.
Rollback(t) == \E outcome \in {"aborted", "error"} : Finish(t, outcome, store)

Next == \E t \in Tx : Begin(t) \/ Work(t) \/ Commit(t) \/ Conflict(t) \/ Rollback(t)

Spec == Init /\ [][Next]_avars
=============================================================================
