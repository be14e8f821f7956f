------------------------------ MODULE FreeList ------------------------------
(***************************************************************************)
(* The free list of db/free_list.go and the page callbacks of db/kv.go it  *)
(* works through, as operators on the in-memory state s of the store: a    *)
(* record with the meta data (root, version, flushed, headPage, headSeq,   *)
(* tailPage, tailSeq), the fields maxSeq, maxVer and curVer of the list,   *)
(* and page.nappend and page.updates.  f is the file as the mmap shows it. *)
(*                                                                         *)
(* A page is a record [tag, next, items]: tag names the commit that wrote  *)
(* a B+tree node into it and is 0 in a list node, next and items are the   *)
(* fields of a list node.  Read as a list node a B+tree node is junk.      *)
(***************************************************************************)
EXTENDS Integers, TLC

CONSTANT Cap    \* FREE_LIST_CAP: items of a list node

ASSUME CapAssumption == Cap \in Nat /\ Cap > 1

Slots == 0 .. Cap - 1
Junk  == -1

Zero == [tag |-> 0, next |-> 0, items |-> [i \in Slots |-> [ptr |-> 0, version |-> 0]]]

\* A page the file does not reach, or that lies in a hole of it.
Absent == [Zero EXCEPT !.tag = -1]

TreePage(tag) ==
    [tag |-> tag, next |-> Junk, items |-> [i \in Slots |-> [ptr |-> Junk, version |-> 0]]]

setNext(node, next) == [node EXCEPT !.tag = 0, !.next = next]
setItem(node, i, ptr, version) ==
    [node EXCEPT !.tag = 0, !.items[i] = [ptr |-> ptr, version |-> version]]

seq2idx(seq) == seq % Cap

-----------------------------------------------------------------------------
(* Pages.                                                                  *)

mmapRead(f, ptr) == IF f[ptr] = Absent THEN Zero ELSE f[ptr]

pageRead(s, f, ptr) == IF ptr \in DOMAIN s.updates THEN s.updates[ptr] ELSE mmapRead(f, ptr)

\* What pageWrite returns to be changed: page 1 of a new file is not on file.
pageWrite(s, f, ptr) ==
    IF ptr \in DOMAIN s.updates THEN s.updates[ptr]
    ELSE IF s.flushed = 2 /\ ptr = 1 THEN Zero
    ELSE mmapRead(f, ptr)

\* The map f with key p set to x.
With(f, p, x) == [q \in DOMAIN f \cup {p} |-> IF q = p THEN x ELSE f[q]]

Put(s, ptr, node) == [s EXCEPT !.updates = With(@, ptr, node)]

pageAppend(s, node) ==
    [s |-> [Put(s, s.flushed + s.nappend, node) EXCEPT !.nappend = @ + 1],
     ptr |-> s.flushed + s.nappend]

-----------------------------------------------------------------------------
(* The list.                                                               *)

check(s) ==
    /\ s.headPage # 0 /\ s.tailPage # 0
    /\ s.headSeq # s.tailSeq \/ s.headPage = s.tailPage

\* Mutants: only the number of an item counts, or neither does.
flBlockedBySeq(s, f)  == s.headSeq = s.maxSeq
flBlockedByNone(s, f) == s.headSeq = s.tailSeq

\* flPop finds nothing to take: no item, or one a reader may still need.
flBlocked(s, f) ==
    \/ s.headSeq = s.maxSeq
    \/ s.maxVer < pageRead(s, f, s.headPage).items[seq2idx(s.headSeq)].version

\* An item, and the head node if that was its last item.
flPop(s, f) ==
    LET node == pageRead(s, f, s.headPage)
        wrap == seq2idx(s.headSeq + 1) = 0
    IN  IF flBlocked(s, f) THEN [s |-> s, ptr |-> 0, head |-> 0]
        ELSE [s    |-> [s EXCEPT !.headSeq = @ + 1,
                                 !.headPage = IF wrap THEN node.next ELSE @],
              ptr  |-> node.items[seq2idx(s.headSeq)].ptr,
              head |-> IF wrap THEN s.headPage ELSE 0]

\* Mutant: the emptied head node is forgotten when the tail is replaced.
NewTailLeak(s, f) ==
    LET pop  == flPop(s, f)
        page == IF pop.ptr # 0 THEN pop ELSE pageAppend(pop.s, Zero)
        link == Put(page.s, s.tailPage, setNext(pageWrite(page.s, f, s.tailPage), page.ptr))
    IN  [link EXCEPT !.tailPage = page.ptr]

\* The new tail node that replaces a full one, taken from the head or
\* appended; an emptied head node becomes its first item.
NewTail(s, f) ==
    LET pop  == flPop(s, f)
        page == IF pop.ptr # 0 THEN pop ELSE pageAppend(pop.s, Zero)
        link == Put(page.s, s.tailPage, setNext(pageWrite(page.s, f, s.tailPage), page.ptr))
        tail == [link EXCEPT !.tailPage = page.ptr]
    IN  IF pop.head = 0 THEN tail
        ELSE [Put(tail, page.ptr,
                  setItem(pageWrite(tail, f, page.ptr), 0, pop.head, s.curVer))
              EXCEPT !.tailSeq = @ + 1]

PushTail(s, f, ptr) ==
    LET node == setItem(pageWrite(s, f, s.tailPage), seq2idx(s.tailSeq), ptr, s.curVer)
        push == [Put(s, s.tailPage, node) EXCEPT !.tailSeq = @ + 1]
    IN  IF seq2idx(push.tailSeq) = 0 THEN NewTail(push, f) ELSE push

PopHead(s, f) ==
    LET pop == flPop(s, f)
    IN  [s   |-> IF pop.head # 0 THEN PushTail(pop.s, f, pop.head) ELSE pop.s,
         ptr |-> pop.ptr]

pageAlloc(s, f, node) ==
    LET pop == PopHead(s, f)
    IN  IF pop.ptr # 0 THEN [s |-> Put(pop.s, pop.ptr, node), ptr |-> pop.ptr]
        ELSE pageAppend(pop.s, node)

SetMaxVer(s, ver) == [s EXCEPT !.maxSeq = s.tailSeq, !.maxVer = ver]

-----------------------------------------------------------------------------
(* What the list holds.                                                    *)

\* The list node of each sequence number, from the head to the tail.
NodeAt(s, f) ==
    LET at[q \in s.headSeq .. s.tailSeq] ==
            IF q = s.headSeq THEN s.headPage
            ELSE IF seq2idx(q) # 0 THEN at[q - 1]
            ELSE LET next == pageRead(s, f, at[q - 1]).next
                 IN  IF next \in DOMAIN f THEN next ELSE 0
    IN  at

Nodes(s, f) == LET at == NodeAt(s, f) IN {at[q] : q \in s.headSeq .. s.tailSeq}

\* The items from head to tail, by sequence number.
Items(s, f) ==
    LET at == NodeAt(s, f)
    IN  [q \in s.headSeq .. s.tailSeq - 1 |-> pageRead(s, f, at[q]).items[seq2idx(q)]]

FreePtrs(s, f) == {Items(s, f)[q].ptr : q \in s.headSeq .. s.tailSeq - 1}
=============================================================================
