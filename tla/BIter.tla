------------------------------- MODULE BIter -------------------------------
(***************************************************************************)
(* Iterators over the B+tree (db/btree_iter.go).  An iterator keeps the    *)
(* nodes on the path from the root to a leaf and the position in each; a   *)
(* position one past the last entry of the leaf means past the last key,   *)
(* the first position everywhere means the sentinel.  Levels and positions *)
(* count from 1.  A tree that is iterated over does not change.            *)
(***************************************************************************)
EXTENDS BTree

Leaf(it) == Len(it.path)

\* Seek to the last position whose key is not greater.
RECURSIVE seekFrom(_, _, _)
seekFrom(it, ptr, key) ==
    LET idx == nodeLookupLE(pages[ptr], key)
    IN  IF ptr = 0 THEN it
        ELSE seekFrom([path |-> Append(it.path, pages[ptr]), pos |-> Append(it.pos, idx)],
                      pages[ptr].kvs[idx].ptr, key)

SeekLE(key) == seekFrom([path |-> <<>>, pos |-> <<>>], root, key)

iterIsFirst(it) == \A l \in DOMAIN it.pos : it.pos[l] = 1
iterIsEnd(it)   == Leaf(it) = 0 \/ it.pos[Leaf(it)] = nkeys(it.path[Leaf(it)]) + 1
Valid(it)       == ~(iterIsFirst(it) \/ iterIsEnd(it))

Deref(it) == it.path[Leaf(it)].kvs[it.pos[Leaf(it)]]

\* Mutants: the node below stays on the path; it is always entered at its
\* first entry.
intoKidStale(it, level, last) ==
    IF level = Leaf(it) THEN it
    ELSE [it EXCEPT !.pos[level + 1] = IF last THEN nkeys(it.path[level + 1]) ELSE 1]

intoKidFirst(it, level, last) ==
    LET kid == pages[it.path[level].kvs[it.pos[level]].ptr]
    IN  IF level = Leaf(it) THEN it
        ELSE [it EXCEPT !.path[level + 1] = kid, !.pos[level + 1] = 1]

\* The node below level is the kid at the position there; at it, the first or
\* the last entry.
intoKid(it, level, last) ==
    LET kid == pages[it.path[level].kvs[it.pos[level]].ptr]
    IN  IF level = Leaf(it) THEN it
        ELSE [it EXCEPT !.path[level + 1] = kid,
                        !.pos[level + 1] = IF last THEN nkeys(kid) ELSE 1]

RECURSIVE iterNext(_, _)
iterNext(it, level) ==
    IF it.pos[level] < nkeys(it.path[level])
    THEN intoKid([it EXCEPT !.pos[level] = @ + 1], level, FALSE)
    ELSE IF level > 1 THEN intoKid(iterNext(it, level - 1), level, FALSE)
    ELSE [it EXCEPT !.pos[Leaf(it)] = @ + 1]

RECURSIVE iterPrev(_, _)
iterPrev(it, level) ==
    IF it.pos[level] > 1
    THEN intoKid([it EXCEPT !.pos[level] = @ - 1], level, TRUE)
    ELSE intoKid(iterPrev(it, level - 1), level, TRUE)

MoveNext(it) == IF iterIsEnd(it) THEN it ELSE iterNext(it, Leaf(it))
MovePrev(it) == IF iterIsFirst(it) THEN it ELSE iterPrev(it, Leaf(it))

cmpOK(curr, cmp, key) ==
    CASE cmp = "GE" -> curr >= key
      [] cmp = "GT" -> curr > key
      [] cmp = "LT" -> curr < key
      [] cmp = "LE" -> curr <= key

\* Seek went to it by way of le; ok if no assert failed: SeekLE never ends past
\* the last key, and a key that Seek ends at is in the relation.
sought(le, it, key, cmp) ==
    [iter |-> it,
     ok   |-> /\ iterIsFirst(le) \/ ~iterIsEnd(le)
              /\ Valid(it) => cmpOK(Deref(it).key, cmp, key)]

\* Mutant: a key that satisfies the relation is passed over.
SeekEager(key, cmp) ==
    LET le == SeekLE(key)
    IN  sought(le, CASE cmp = "LE" -> le
                     [] cmp \in {"GE", "GT"} -> MoveNext(le)
                     [] cmp = "LT" -> MovePrev(le), key, cmp)

\* Seek to the closest position whose key is in the relation cmp to key.
Seek(key, cmp) ==
    LET le   == SeekLE(key)
        curr == IF iterIsFirst(le) THEN Sentinel ELSE Deref(le).key
        it   == IF cmp = "LE" \/ cmpOK(curr, cmp, key) THEN le
                ELSE IF cmp \in {"GE", "GT"} THEN MoveNext(le)
                ELSE MovePrev(le)
    IN  sought(le, it, key, cmp)

-----------------------------------------------------------------------------
(* Properties.                                                             *)

Present == {k \in Keys : Get(k) # NONE}

\* Key of the iterator, or NONE where it is not valid.
Current(it) == IF Valid(it) THEN Deref(it).key ELSE NONE

\* The best of a set of keys: the greatest, or the least.
Closest(S, cmp) ==
    IF S = {} THEN NONE
    ELSE CHOOSE k \in S : \A j \in S : IF cmp \in {"GE", "GT"} THEN k <= j ELSE j <= k

\* Seek asks for a position past the last key, where there is no key.
PastLast(key, cmp) == cmp \in {"GE", "GT"} /\ \A k \in Present : ~cmpOK(k, cmp, key)

\* Seek finds the closest key in the relation it was asked for, for keys that are
\* in the tree and keys that are not, and where there is none the iterator is not
\* valid; its asserts hold (btree_iter.go Seek).  One case is left out: past the
\* last key of a tree of three or more levels, where an assert of Seek fails.
SeekCorrect ==
    \A key \in Keys, cmp \in {"GE", "GT", "LT", "LE"} :
        LET seek == Seek(key, cmp)
        IN  ~(PastLast(key, cmp) /\ Leaf(seek.iter) > 2) =>
                /\ seek.ok
                /\ Current(seek.iter) = Closest({k \in Present : cmpOK(k, cmp, key)}, cmp)

\* From a key that is not the last, Next goes to the one after it, with the
\* path that a search for that key would find: over the ends of leaves and of
\* the nodes above them.
NextIsSuccessor ==
    \A key \in Present :
        LET after == {k \in Present : k > key}
        IN  after # {} => MoveNext(SeekLE(key)) = SeekLE(Closest(after, "GT"))

\* From any key, Prev goes to the one before it, or to the sentinel.
PrevIsPredecessor ==
    \A key \in Present :
        LET before == {k \in Present : k < key}
        IN  MovePrev(SeekLE(key)) = SeekLE(IF before = {} THEN Sentinel
                                           ELSE Closest(before, "LT"))

\* From the last key, Next goes past the last key: the iterator is no longer
\* valid, and a scan that goes forward comes to an end.  It does not hold in trees
\* of three levels, where Next goes back to the first key of the last leaf.
NextPastLast ==
    \A key \in Present :
        (\A k \in Present : k <= key) => ~Valid(MoveNext(SeekLE(key)))

\* Seek past the last key fails no assert and the iterator is not valid.  It does
\* not hold in trees of three levels: the key that Next goes back to is not in the
\* relation.
SeekPastLast ==
    \A key \in Keys, cmp \in {"GE", "GT"} :
        PastLast(key, cmp) => Seek(key, cmp).ok /\ ~Valid(Seek(key, cmp).iter)
=============================================================================
