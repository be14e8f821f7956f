------------------------------ MODULE MCBTree ------------------------------
(* BTree for TLC: real sizes, few keys. *)
EXTENDS BIter

CONSTANTS small, big

\* Keys of the greatest length: a page holds four of them.
MCKeyLen(k) == 1000
\* A page holds four entries with the small value, or a single big one.
MCValLen(v) == IF v = big THEN 3000 ELSE 0

\* One long key among short ones.
OneLongKeyLen(k) == IF k = 2 THEN 1000 ELSE 80

\* Two short keys among long ones, and a small value that is not empty.
TwoShortKeyLen(k) == IF k \in {5, 7} THEN 10 ELSE 1000
SomeValLen(v) == IF v = big THEN 3000 ELSE 20

\* Page numbers and the last request do not matter to what happens next: a
\* state is known by the tree and the number of its pages.
RECURSIVE Tree(_)
Tree(ptr) ==
    LET kvs == pages[ptr].kvs
    IN  [i \in DOMAIN kvs |->
            <<kvs[i].key, IF pages[ptr].leaf THEN kvs[i].val ELSE Tree(kvs[i].ptr)>>]
Shape == <<IF root \in DOMAIN pages THEN Tree(root) ELSE <<>>, Cardinality(DOMAIN pages), broken>>

=============================================================================
