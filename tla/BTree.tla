------------------------------- MODULE BTree -------------------------------
(***************************************************************************)
(* The B+tree (db/btree.go): copy-on-write updates and deletes over pages  *)
(* that are allocated, read and freed through callbacks.                   *)
(*                                                                         *)
(* A node is [leaf, kvs], kvs a sequence of [key, ptr, val]; entries count *)
(* from 1.  Keys are integers and the sentinel, the empty key, is 0.  Of   *)
(* the byte layout only sizes remain: a node takes Header bytes, each      *)
(* entry EntrySize bytes (pointer, offset, two lengths) and the bytes of   *)
(* its key and value.  A failed assert, or a write past the end of a       *)
(* node's buffer, ends the run with broken = TRUE.                         *)
(***************************************************************************)
EXTENDS Integers, SequencesExt

CONSTANTS
    Keys,          \* keys callers use, positive integers
    Vals,          \* values
    Modes,         \* modes that callers of Update use
    NONE,          \* no value
    KeyLen(_),     \* bytes of a key
    ValLen(_),     \* bytes of a value
    MaxPages       \* bound: pages in use, the copies of one operation included

Header    == 4      \* HEADER_SIZE
EntrySize == 14     \* 8 for the pointer, 2 for the offset, 2 + 2 for the lengths
PageSize  == 4096   \* BTREE_PAGE_SIZE
Sentinel  == 0

\* The limits of checkLimit.
ASSUME LimitsAssumption ==
    /\ Keys \subseteq Nat \ {0}
    /\ \A k \in Keys : KeyLen(k) \in 1 .. 1000
    /\ \A v \in Vals : ValLen(v) \in 0 .. 3000
    /\ Header + EntrySize + 1000 + 3000 <= PageSize

VARIABLES
    root,      \* page of the root, 0 in an empty tree
    pages,     \* pages in use, by number
    req,       \* the last UpdateReq or DeleteReq, with the answer
    broken     \* an assert failed or a buffer was overrun

vars == <<root, pages, req, broken>>

-----------------------------------------------------------------------------
(* Nodes.                                                                  *)

KV(key, ptr, val) == [key |-> key, ptr |-> ptr, val |-> val]
Node(leaf, kvs)   == [leaf |-> leaf, kvs |-> kvs]

Bytes(kv) == EntrySize + (IF kv.key = Sentinel THEN 0 ELSE KeyLen(kv.key))
                       + (IF kv.val = NONE THEN 0 ELSE ValLen(kv.val))

bytesOf(kvs) ==
    LET upTo[i \in 0 .. Len(kvs)] == IF i = 0 THEN Header ELSE upTo[i - 1] + Bytes(kvs[i])
    IN  upTo[Len(kvs)]

nbytes(node) == bytesOf(node.kvs)
nkeys(node)  == Len(node.kvs)

\* Binary search for the last entry whose key is not greater, 0 if none.
RECURSIVE search(_, _, _, _)
search(kvs, key, left, right) ==
    LET mid == (left + right) \div 2
    IN  IF left > right THEN right
        ELSE IF kvs[mid].key = key THEN mid
        ELSE IF kvs[mid].key > key THEN search(kvs, key, left, mid - 1)
        ELSE search(kvs, key, mid + 1, right)

nodeLookupLE(node, key) == search(node.kvs, key, 1, nkeys(node))

leafInsert(node, idx, key, val) == Node(TRUE, InsertAt(node.kvs, idx, KV(key, 0, val)))
leafUpdate(node, idx, key, val) == Node(TRUE, [node.kvs EXCEPT ![idx] = KV(key, 0, val)])
leafDelete(node, idx)           == Node(TRUE, RemoveAt(node.kvs, idx))

\* Mutant: the nodes are merged in the wrong order.
nodeMergeSwapped(left, right) == Node(left.leaf, right.kvs \o left.kvs)

nodeMerge(left, right) == Node(left.leaf, left.kvs \o right.kvs)

\* Mutant: the right half is not looked at.
nleftHalf(old) == nkeys(old) \div 2

\* Entries on the left: half of them, and more while the right half is too big.
nleft(old) ==
    LET n == nkeys(old)
    IN  CHOOSE i \in n \div 2 .. n :
            /\ bytesOf(SubSeq(old.kvs, i + 1, n)) <= PageSize
            /\ \A j \in n \div 2 .. i - 1 : bytesOf(SubSeq(old.kvs, j + 1, n)) > PageSize

nodeSplit2(old) ==
    LET n == nleft(old)
    IN  <<Node(old.leaf, SubSeq(old.kvs, 1, n)),
          Node(old.leaf, SubSeq(old.kvs, n + 1, nkeys(old)))>>

\* One to three nodes; only the first may be left too big.
nodeSplit3(old) ==
    LET two == nodeSplit2(old)
    IN  IF nbytes(old) <= PageSize THEN <<old>>
        ELSE IF nbytes(two[1]) <= PageSize THEN two
        ELSE nodeSplit2(two[1]) \o <<two[2]>>

\* The asserts of nodeSplit2 and nodeSplit3.
SplitOK(nodes) == \A i \in DOMAIN nodes : nbytes(nodes[i]) <= PageSize /\ nkeys(nodes[i]) > 0

-----------------------------------------------------------------------------
(* Pages.  An operation works on s = [pages, dels, ok, req]: pages it      *)
(* sees, the ones it has freed, whether no assert has failed, and the      *)
(* request.  Freed pages stay readable, and are not allocated again, until *)
(* the operation is over.                                                  *)

Start(op, key, val, mode) ==
    [pages |-> pages, dels |-> {}, ok |-> TRUE,
     req |-> [op |-> op, key |-> key, val |-> val, mode |-> mode,
              updated |-> FALSE, added |-> FALSE, old |-> NONE]]

treeNew(s, node) ==
    LET ptr == CHOOSE p \in 1 .. MaxPages :
                    p \notin DOMAIN s.pages /\ \A q \in 1 .. p - 1 : q \in DOMAIN s.pages
    IN  [s |-> [s EXCEPT !.pages = (ptr :> node) @@ @], ptr |-> ptr]

\* Mutant: replaced pages are not freed.
treeDelNothing(s, ptr) == s

\* A page that is freed is in use.
treeDel(s, ptr) == [s EXCEPT !.dels = @ \cup {ptr},
                             !.ok = @ /\ ptr \in DOMAIN s.pages \ s.dels]

Check(s, cond) == [s EXCEPT !.ok = @ /\ cond]

\* tree.new for each kid, and the entries that point to them.
newKids(s, kids) ==
    FoldLeft(LAMBDA acc, kid :
                LET new == treeNew(acc.s, kid)
                IN  [s |-> new.s, kvs |-> Append(acc.kvs, KV(kid.kvs[1].key, new.ptr, NONE))],
             [s |-> s, kvs |-> <<>>], kids)

\* The result of an operation on a node: no change (BNode{}), or a node.
Same(s)         == [s |-> s, node |-> NONE]
Result(s, node) == [s |-> s, node |-> node]

nodeReplaceKidN(s, node, idx, kids) ==
    LET new == newKids(s, kids)
    IN  Result(new.s, Node(FALSE, SubSeq(node.kvs, 1, idx - 1) \o new.kvs
                                  \o SubSeq(node.kvs, idx + 1, nkeys(node))))

nodeReplace2Kids(s, node, idx, merged) ==
    LET new == newKids(s, <<merged>>)
    IN  Result(new.s, Node(FALSE, SubSeq(node.kvs, 1, idx - 1) \o new.kvs
                                  \o SubSeq(node.kvs, idx + 2, nkeys(node))))

-----------------------------------------------------------------------------
(* Update.                                                                 *)

\* Mutant: a value is written although it is the one already there.
leafPutAlways(s, node, idx) ==
    LET r     == s.req
        found == node.kvs[idx].key = r.key
    IN  IF found
        THEN Result([s EXCEPT !.req.updated = TRUE, !.req.old = node.kvs[idx].val],
                    leafUpdate(node, idx, r.key, r.val))
        ELSE Result([s EXCEPT !.req.updated = TRUE, !.req.added = TRUE],
                    leafInsert(node, idx + 1, r.key, r.val))

\* A leaf with the request carried out, if its mode and the old value ask
\* for it.
leafPut(s, node, idx) ==
    LET r     == s.req
        found == node.kvs[idx].key = r.key
    IN  IF found /\ r.mode # "INSERT_ONLY" /\ node.kvs[idx].val # r.val
        THEN Result([s EXCEPT !.req.updated = TRUE, !.req.old = node.kvs[idx].val],
                    leafUpdate(node, idx, r.key, r.val))
        ELSE IF ~found /\ r.mode # "UPDATE_ONLY"
        THEN Result([s EXCEPT !.req.updated = TRUE, !.req.added = TRUE],
                    leafInsert(node, idx + 1, r.key, r.val))
        ELSE Same(s)

RECURSIVE treeUpdate(_, _)
treeUpdate(s, node) ==
    LET idx   == nodeLookupLE(node, s.req.key)
        kptr  == node.kvs[idx].ptr
        kid   == treeUpdate(s, s.pages[kptr])
        split == nodeSplit3(kid.node)
    IN  IF node.leaf THEN leafPut(s, node, idx)
        \* nodeUpdate
        ELSE IF kid.node = NONE THEN kid
        ELSE nodeReplaceKidN(Check(treeDel(kid.s, kptr), SplitOK(split)), node, idx, split)

\* The end of an operation: freed pages are gone.
Finish(s, newRoot) ==
    /\ broken' = ~s.ok
    /\ pages' = [p \in DOMAIN s.pages \ s.dels |-> s.pages[p]]
    /\ root' = newRoot
    /\ req' = s.req

\* The first key makes a root that holds the sentinel too.
UpdateEmpty(s) ==
    LET new == treeNew(s, Node(TRUE, <<KV(Sentinel, 0, NONE), KV(s.req.key, 0, s.req.val)>>))
    IN  Finish([new.s EXCEPT !.req.added = TRUE, !.req.updated = TRUE], new.ptr)

Update(key, val, mode) ==
    /\ ~broken
    /\ LET s     == Start("update", key, val, mode)
           upd   == treeUpdate(s, pages[root])
           split == nodeSplit3(upd.node)
           kids  == newKids(Check(treeDel(upd.s, root), SplitOK(split)), split)
           top   == treeNew(kids.s, Node(FALSE, kids.kvs))
       IN  IF root = 0 THEN UpdateEmpty(s)
           ELSE IF upd.node = NONE THEN Finish(s, root)
           ELSE IF Len(split) > 1 THEN Finish(top.s, top.ptr)
           ELSE Finish(kids.s, kids.kvs[1].ptr)

-----------------------------------------------------------------------------
(* Delete.                                                                 *)

\* -1, 1 or 0: merge the updated kid with its left or right sibling, or not.
shouldMerge(s, node, idx, updated) ==
    LET sibling(i) == s.pages[node.kvs[i].ptr]
        fits(i)    == nbytes(sibling(i)) + nbytes(updated) - Header <= PageSize
    IN  CASE nbytes(updated) > PageSize \div 4          -> 0
          [] nbytes(updated) <= PageSize \div 4 /\ idx > 1 /\ fits(idx - 1) -> -1
          [] OTHER -> IF idx < nkeys(node) /\ fits(idx + 1) THEN 1 ELSE 0

\* The copy of the node is made in a buffer of one page.
InOnePage(res) == Result(Check(res.s, nbytes(res.node) <= PageSize), res.node)

RECURSIVE treeDelete(_, _)
treeDelete(s, node) ==
    LET idx   == nodeLookupLE(node, s.req.key)
        found == node.kvs[idx].key = s.req.key
        kptr  == node.kvs[idx].ptr
        kid   == treeDelete(s, s.pages[kptr])
        freed == treeDel(kid.s, kptr)
        dir   == shouldMerge(freed, node, idx, kid.node)
        left  == node.kvs[idx - 1].ptr
        right == node.kvs[idx + 1].ptr
    IN  IF node.leaf /\ ~found THEN Same(s)
        ELSE IF node.leaf
        THEN Result([s EXCEPT !.req.updated = TRUE, !.req.old = node.kvs[idx].val],
                    leafDelete(node, idx))
        \* nodeDelete
        ELSE IF kid.node = NONE THEN kid
        ELSE InOnePage(
            CASE dir = -1 -> nodeReplace2Kids(treeDel(freed, left), node, idx - 1,
                                              nodeMerge(freed.pages[left], kid.node))
              [] dir = 1 -> nodeReplace2Kids(treeDel(freed, right), node, idx,
                                             nodeMerge(kid.node, freed.pages[right]))
              [] dir = 0 /\ nkeys(kid.node) = 0 ->
                    Result(Check(freed, nkeys(node) = 1), Node(FALSE, <<>>))
              [] dir = 0 /\ nkeys(kid.node) > 0 ->
                    nodeReplaceKidN(freed, node, idx, <<kid.node>>))

\* Mutant: the root stays where a level is removed.
DeleteKeepsRoot(key) ==
    /\ ~broken
    /\ LET s     == Start("delete", key, NONE, NONE)
           upd   == treeDelete(s, pages[root])
           freed == treeDel(upd.s, root)
           top   == treeNew(freed, upd.node)
       IN  IF root = 0 \/ upd.node = NONE THEN Finish(s, root)
           ELSE IF ~upd.node.leaf /\ nkeys(upd.node) = 1 THEN Finish(freed, root)
           ELSE Finish(top.s, top.ptr)

Delete(key) ==
    /\ ~broken
    /\ LET s     == Start("delete", key, NONE, NONE)
           upd   == treeDelete(s, pages[root])
           freed == treeDel(upd.s, root)
           top   == treeNew(freed, upd.node)
       IN  IF root = 0 \/ upd.node = NONE THEN Finish(s, root)
           ELSE IF ~upd.node.leaf /\ nkeys(upd.node) = 1
           THEN Finish(freed, upd.node.kvs[1].ptr)
           ELSE Finish(top.s, top.ptr)

Init ==
    /\ root = 0
    /\ pages = <<>>
    /\ req = NONE
    /\ broken = FALSE

Next ==
    \E k \in Keys :
        \/ Delete(k)
        \/ \E v \in Vals, mode \in Modes : Update(k, v, mode)

Spec == Init /\ [][Next]_vars

-----------------------------------------------------------------------------
(* Get.                                                                    *)

\* The value that nodeGetKey finds from each page down.
nodeGetKey(key) ==
    LET from[p \in DOMAIN pages] ==
            LET kv == pages[p].kvs[nodeLookupLE(pages[p], key)]
            IN  IF ~pages[p].leaf THEN from[kv.ptr]
                ELSE IF kv.key = key THEN kv.val ELSE NONE
    IN  from

Get(key) == IF root = 0 THEN NONE ELSE nodeGetKey(key)[root]

-----------------------------------------------------------------------------
(* Properties.                                                             *)

\* Every variable has its type; the bound MaxPages is never met.
TypeOK ==
    /\ root \in 0 .. MaxPages - 1
    /\ root # 0 => root \in DOMAIN pages
    /\ DOMAIN pages \subseteq 1 .. MaxPages - 1
    /\ req = NONE \/ req.key \in Keys
    /\ broken \in BOOLEAN

\* The tree is a map: after any sequence of updates and deletes, with the
\* splits and merges they cause, Get returns what was last written, and Update
\* and Delete honour the mode and report what they did.
Map == INSTANCE OrderedMap WITH map <- [k \in Keys |-> Get(k)]
ImplementsMap == Map!Spec

\* Pages from ptr down.
RECURSIVE Reach(_)
Reach(ptr) ==
    {ptr} \cup (IF pages[ptr].leaf THEN {}
               ELSE UNION {Reach(pages[ptr].kvs[i].ptr) : i \in DOMAIN pages[ptr].kvs})

\* Height of the tree below ptr, -1 where kids disagree.
RECURSIVE Height(_)
Height(ptr) ==
    LET kids == {Height(pages[ptr].kvs[i].ptr) : i \in DOMAIN pages[ptr].kvs}
    IN  IF pages[ptr].leaf THEN 1
        ELSE IF kids = {} \/ -1 \in kids \/ \E h, g \in kids : h # g THEN -1
        ELSE 1 + CHOOSE h \in kids : TRUE

\* Update and Delete free the pages they replace, each once, and no others:
\* the pages in use are those of the tree.
PagesAccounted == DOMAIN pages = IF root = 0 THEN {} ELSE Reach(root)

\* No assert of btree.go fails and no node outgrows its page.
NoPanic == ~broken /\ \A p \in DOMAIN pages : nbytes(pages[p]) <= PageSize

\* A delete never makes a node that does not fit into its page: the copies it
\* makes lose a key, or point to the same or fewer kids.
DeleteFits == broken => req.op # "delete"

\* The tree is height-balanced, keys of a node ascend, and the key of an
\* entry of an internal node is the first key of the kid it points to.
Balanced ==
    root # 0 =>
        /\ Height(root) # -1
        /\ pages[root].kvs[1].key = Sentinel
        /\ \A p \in DOMAIN pages :
            LET kvs == pages[p].kvs
            IN  /\ kvs # <<>>
                /\ \A i \in 1 .. Len(kvs) - 1 : kvs[i].key < kvs[i + 1].key
                /\ ~pages[p].leaf =>
                    \A i \in DOMAIN kvs : kvs[i].key = pages[kvs[i].ptr].kvs[1].key
=============================================================================
