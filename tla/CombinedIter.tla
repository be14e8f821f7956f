---------------------------- MODULE CombinedIter ----------------------------
(***************************************************************************)
(* Reads and writes of one transaction (db/transaction.go) on keys that    *)
(* are byte strings, and the iterator that merges its pending updates with *)
(* its snapshot.                                                           *)
(*                                                                         *)
(* A transaction is a record: snapshot and pending are functions on the    *)
(* keys they contain; an entry of pending is flagged as updated or         *)
(* deleted; reads is the set of ranges <<start, stop>> it depends on.      *)
(*                                                                         *)
(* An iterator over a tree (BIter, checked against the tree in the module  *)
(* of that name) is the map it was made from and its position: a key, the  *)
(* sentinel at the front, or past the last key.  Trees are copied on       *)
(* write and pages of the pending tree are never freed, so an iterator     *)
(* does not see updates that the transaction makes after Seek.             *)
(*                                                                         *)
(* In a tree of three or more levels Next does not get past the last key:  *)
(* it goes back to the first key of a subtree that ends with it, and Seek  *)
(* past the last key, which does the same, then fails an assert.  Which    *)
(* trees these are depends on pages and is left to the constant BackTo.    *)
(***************************************************************************)
EXTENDS KeyEncoding, TLC

CONSTANT BackTo   \* of a map in a tree of three or more levels, the key that
                  \* Next goes back to from the last one

ASSUME BackToAssumption == \A map \in DOMAIN BackTo : BackTo[map] \in DOMAIN map

NewTx(snapshot) == [snapshot |-> snapshot, pending |-> <<>>, reads |-> {},
                    updateAttempted |-> FALSE]

\* A map with one more key, or with a new value for the key.
Bind(map, key, val) ==
    [k \in DOMAIN map \cup {key} |-> IF k = key THEN val ELSE map[k]]

Updated(val) == [deleted |-> FALSE, val |-> val]
Deleted      == [deleted |-> TRUE, val |-> <<>>]

-----------------------------------------------------------------------------
(* Point reads and updates.                                                *)

Exists(tx, key) ==
    IF key \in DOMAIN tx.pending THEN ~tx.pending[key].deleted ELSE key \in DOMAIN tx.snapshot

ValueOf(tx, key) ==
    IF key \in DOMAIN tx.pending THEN tx.pending[key].val ELSE tx.snapshot[key]

Depend(tx, start, stop) == [tx EXCEPT !.reads = @ \cup {<<start, stop>>}]

Attempt(tx, key) == [Depend(tx, key, key) EXCEPT !.updateAttempted = TRUE]

Put(tx, key, entry) == [tx EXCEPT !.pending = Bind(@, key, entry)]

kvUpdate(tx, key, val, mode) ==
    LET exists == Exists(tx, key)
        dup    == mode = "INSERT_ONLY" /\ exists
        noop   == \/ mode = "UPDATE_ONLY" /\ ~exists
                  \/ exists /\ ValueOf(tx, key) = val
        change == ~dup /\ ~noop
        seen   == Attempt(tx, key)
    IN  [tx      |-> IF change THEN Put(seen, key, Updated(val)) ELSE seen,
         err     |-> dup,
         updated |-> change,
         added   |-> change /\ ~exists,
         old     |-> IF change /\ exists THEN ValueOf(tx, key) ELSE <<>>]

kvDel(tx, key) ==
    LET exists == Exists(tx, key)
        seen   == Attempt(tx, key)
    IN  [tx      |-> IF exists THEN Put(seen, key, Deleted) ELSE seen,
         deleted |-> exists,
         old     |-> IF exists THEN ValueOf(tx, key) ELSE <<>>]

\* Mutants: an error leaves what the statement has done so far; it makes the
\* transaction forget what it depends on.
RevertNothing(tx, saved) == tx

RevertReads(tx, saved) == [tx EXCEPT !.pending = saved.pending, !.reads = {}]

\* Back to a point saved before: updates and dependencies are undone,
\* updateAttempted is not.
Revert(tx, saved) == [tx EXCEPT !.pending = saved.pending, !.reads = saved.reads]

\* The keys and values after the transaction: what Commit writes.
Result(tx) ==
    [k \in {j \in DOMAIN tx.snapshot \cup DOMAIN tx.pending : Exists(tx, j)} |-> ValueOf(tx, k)]

-----------------------------------------------------------------------------
(* Iterators over one tree.                                                *)

First == <<>>      \* the sentinel key
Past  == <<256>>   \* after every key

cmpOK(curr, cmp, key) ==
    Then(Compare(curr, key), LAMBDA r :
        CASE cmp = "GE" -> r >= 0
          [] cmp = "GT" -> r > 0
          [] cmp = "LT" -> r < 0
          [] cmp = "LE" -> r <= 0)

Forward(cmp) == cmp \in {"GE", "GT"}

\* The keys of S closest to the front, or to the end.
Least(S)    == IF S = {} THEN Past ELSE CHOOSE k \in S : \A j \in S : Compare(k, j) <= 0
Greatest(S) == IF S = {} THEN First ELSE CHOOSE k \in S : \A j \in S : Compare(k, j) >= 0

\* From the last key Next goes past it, if the tree has at most two levels.
Shallow(map) == map \notin DOMAIN BackTo

\* Forward to the first of the keys S, those that are left.
Onward(map, S) == IF S = {} /\ ~Shallow(map) THEN BackTo[map] ELSE Least(S)

\* Seek goes on by Next from the last key that is not greater.
biSeek(map, key, cmp) ==
    Then({k \in DOMAIN map : cmpOK(k, cmp, key)}, LAMBDA found :
        [map |-> map, at |-> IF Forward(cmp) THEN Onward(map, found) ELSE Greatest(found)])

biValid(it) == it.at \in DOMAIN it.map

\* The assert at the end of Seek: a key that it ends at is in the relation.
seekFails(it, key, cmp) == biValid(it) /\ ~cmpOK(it.at, cmp, key)

biNext(it) == [it EXCEPT !.at = Onward(it.map, {k \in DOMAIN it.map : Compare(k, @) > 0})]
biPrev(it) == [it EXCEPT !.at = Greatest({k \in DOMAIN it.map : Compare(k, @) < 0})]

-----------------------------------------------------------------------------
(* The merge of pending (top) and snapshot (bottom).                       *)

\* The iterators at the first key, the order of the scan and its end.
startAt(tx, key1, cmp1, key2, cmp2) ==
    [top       |-> biSeek(tx.pending, key1, cmp1),
     bottom    |-> biSeek(tx.snapshot, key1, cmp1),
     direction |-> IF Forward(cmp1) THEN 1 ELSE -1,
     endKey    |-> key2,
     endCmp    |-> cmp2]

\* Mutant: the ends of the range are not swapped for a descending scan.
kvSeekAscending(tx, key1, cmp1, key2, cmp2) ==
    Then(startAt(tx, key1, cmp1, key2, cmp2), LAMBDA it :
        [tx    |-> Depend(tx, key1, key2),
         iter  |-> it,
         panic |-> seekFails(it.top, key1, cmp1) \/ seekFails(it.bottom, key1, cmp1)])

\* The range read is a dependency whatever the comparisons are.
kvSeek(tx, key1, cmp1, key2, cmp2) ==
    Then(startAt(tx, key1, cmp1, key2, cmp2), LAMBDA it :
        [tx    |-> IF Forward(cmp1) THEN Depend(tx, key1, key2) ELSE Depend(tx, key2, key1),
         iter  |-> it,
         panic |-> seekFails(it.top, key1, cmp1) \/ seekFails(it.bottom, key1, cmp1)])

Neither(it) == ~biValid(it.top) /\ ~biValid(it.bottom)

\* Does the iterator stand at the entry of the snapshot?
AtBottom(it) ==
    /\ biValid(it.bottom)
    /\ biValid(it.top) => Compare(it.top.at, it.bottom.at) = it.direction

CurKey(it) == IF AtBottom(it) THEN it.bottom.at ELSE it.top.at

\* The flag of a pending entry is cut off, not looked at: a deleted one has
\* an empty value.
CurVal(it) == IF AtBottom(it) THEN it.bottom.map[it.bottom.at] ELSE it.top.map[it.top.at].val

ciValid(it) == ~Neither(it) /\ cmpOK(CurKey(it), it.endCmp, it.endKey)

\* The iterator at the current entry moves, both where their keys are equal.
ciNext(it) ==
    LET equal == biValid(it.top) /\ biValid(it.bottom) /\ it.top.at = it.bottom.at
        move(b, moves) == IF ~moves THEN b ELSE IF it.direction > 0 THEN biNext(b) ELSE biPrev(b)
    IN  [it EXCEPT !.top    = move(@, equal \/ ~AtBottom(it)),
                   !.bottom = move(@, equal \/ AtBottom(it))]
=============================================================================
