-------------------------- MODULE FreeList_proofs --------------------------
(***************************************************************************)
(* What the operators of the free list do to a store in the middle of a    *)
(* commit.  The list is described by two functions on sequence numbers:    *)
(* L[q] is the list node that holds slot q and I[q] the item in it.  They  *)
(* are defined from the head of the list as saved by Commit up to the tail *)
(* of the list in memory, so that one pair describes both lists.           *)
(***************************************************************************)
EXTENDS PageStore, NaturalsInduction, WellFoundedInduction, TLAPS

\* Every nonempty set of naturals has a least element.
LEMMA LeastNat ==
    ASSUME NEW S \in SUBSET Nat, S # {}
    PROVE  \E n \in S : \A m \in S : n <= m
<1>1. \E n \in S : \A m \in S : ~(<<m, n>> \in OpToRel(<, Nat))
  BY NatLessThanWellFounded, WFMin, Zenon
<1>2. PICK n \in S : \A m \in S : ~(<<m, n>> \in OpToRel(<, Nat))
  BY <1>1
<1>3. ASSUME NEW m \in S PROVE n <= m
  <2>1. ~(m < n)
    BY <1>2, Zenon DEF OpToRel
  <2> QED BY <2>1, SMT
<1> QED BY <1>3

-----------------------------------------------------------------------------
(* The slots of list nodes.                                                *)

\* A product grows by a whole factor at least.
LEMMA Multiples ==
    ASSUME NEW c \in Nat, NEW a \in Int, NEW b \in Int, a < b
    PROVE  c * a + c <= c * b
<1>1. PICK d \in Nat : b = a + 1 + d
  <2> WITNESS b - a - 1 \in Nat
  <2> QED OBVIOUS
<1>2. c * d \in Nat
  OBVIOUS
<1>3. c * b = c * a + c + c * d
  BY <1>1
<1> QED BY <1>2, <1>3

\* The remainder is the one below the divisor.
LEMMA Remainder ==
    ASSUME NEW c \in Nat, c > 0, NEW q \in Nat, NEW k \in Int, NEW r \in 0 .. c - 1,
           q = c * k + r
    PROVE  q % c = r
<1> DEFINE m == q % c  d == q \div c
<1>1. m \in 0 .. c - 1 /\ q = c * d + m /\ d \in Int
  OBVIOUS
<1> HIDE DEF m, d
<1>2. c * d \in Int /\ c * k \in Int
  BY <1>1
<1>3. ~(d < k)
  <2> SUFFICES ASSUME d < k PROVE FALSE
    OBVIOUS
  <2>1. c * d + c <= c * k
    BY <1>1, Multiples
  <2> QED BY <2>1, <1>1, <1>2
<1>4. ~(k < d)
  <2> SUFFICES ASSUME k < d PROVE FALSE
    OBVIOUS
  <2>1. c * k + c <= c * d
    BY <1>1, Multiples
  <2> QED BY <2>1, <1>1, <1>2
<1>5. d = k
  BY <1>1, <1>3, <1>4
<1> QED BY <1>1, <1>2, <1>5 DEF m

\* Sequence numbers walk through the slots of a node and then start again.
LEMMA NextSlot ==
    ASSUME NEW q \in Nat
    PROVE  /\ seq2idx(q) \in Slots
           /\ seq2idx(q + 1) = IF seq2idx(q) = Cap - 1 THEN 0 ELSE seq2idx(q) + 1
<1> DEFINE r == q % Cap  k == q \div Cap
<1>1. r \in 0 .. Cap - 1 /\ q = Cap * k + r /\ k \in Int
  BY CapAssumption
<1> HIDE DEF r, k
<1>2. CASE r = Cap - 1
  <2>1. q + 1 = Cap * (k + 1) + 0
    BY <1>1, <1>2, CapAssumption
  <2>2. (q + 1) % Cap = 0
    BY <1>1, <2>1, Remainder, CapAssumption
  <2> QED BY <2>2, <1>1, <1>2 DEF seq2idx, r, Slots
<1>3. CASE r # Cap - 1
  <2>1. q + 1 = Cap * k + (r + 1) /\ r + 1 \in 0 .. Cap - 1
    BY <1>1, <1>3, CapAssumption
  <2>2. (q + 1) % Cap = r + 1
    BY <1>1, <2>1, Remainder, CapAssumption
  <2> QED BY <2>2, <1>1, <1>3 DEF seq2idx, r, Slots
<1> QED BY <1>2, <1>3

\* What the other proofs use of the slots.
LEMMA SlotFacts ==
    /\ \A q \in Nat : seq2idx(q) \in 0 .. Cap - 1
    /\ \A q \in Nat : seq2idx(q + 1) = 0 => seq2idx(q) = Cap - 1
    /\ \A q \in Nat : seq2idx(q + 1) # 0 => seq2idx(q + 1) = seq2idx(q) + 1
    /\ \A q \in Nat : seq2idx(q) = 0 => seq2idx(q + 1) # 0
BY NextSlot, CapAssumption DEF Slots

-----------------------------------------------------------------------------
(* Types.                                                                  *)

Item == [ptr : {Junk} \cup Pages, version : 0 .. MaxAttempts]
Node == [tag : -1 .. MaxAttempts, next : {Junk} \cup Pages, items : [Slots -> Item]]

\* Maps from pages other than page 0.
PageMaps(S) == UNION {[D -> S] : D \in SUBSET (Pages \ {0})}

MetaRecord == [root : Pages, tree : PageMaps(1 .. MaxAttempts), flushed : 0 .. MaxPages,
               version : 0 .. MaxAttempts, headPage : Pages, headSeq : Nat,
               tailPage : Pages, tailSeq : Nat]

KVRecord == [root : Pages, tree : PageMaps(1 .. MaxAttempts), flushed : 0 .. MaxPages,
             version : 0 .. MaxAttempts, headPage : Pages, headSeq : Nat,
             tailPage : Pages, tailSeq : Nat, maxSeq : Nat, maxVer : Nat,
             curVer : 0 .. MaxAttempts, nappend : Nat, updates : PageMaps(Node),
             failed : BOOLEAN]

LEMMA PageMapFacts ==
    ASSUME NEW S, NEW f \in PageMaps(S)
    PROVE  /\ DOMAIN f \subseteq Pages \ {0}
           /\ \A p \in DOMAIN f : f[p] \in S
BY DEF PageMaps

LEMMA WithFacts ==
    ASSUME NEW S, NEW f \in PageMaps(S), NEW p \in Pages \ {0}, NEW x \in S
    PROVE  /\ With(f, p, x) \in PageMaps(S)
           /\ DOMAIN With(f, p, x) = DOMAIN f \cup {p}
           /\ With(f, p, x)[p] = x
           /\ \A q \in DOMAIN f : q # p => With(f, p, x)[q] = f[q]
<1>1. DOMAIN f \subseteq Pages \ {0} /\ \A q \in DOMAIN f : f[q] \in S
  BY PageMapFacts
<1>2. With(f, p, x) \in [DOMAIN f \cup {p} -> S]
  BY <1>1 DEF With
<1>3. With(f, p, x) \in PageMaps(S)
  BY <1>1, <1>2 DEF PageMaps
<1> QED BY <1>3 DEF With

\* The same for the two kinds of maps there are.
LEMMA UpdateFacts ==
    ASSUME NEW u \in PageMaps(Node), NEW p \in Pages \ {0}, NEW n \in Node
    PROVE  With(u, p, n) \in PageMaps(Node) /\ DOMAIN With(u, p, n) = DOMAIN u \cup {p}
<1> DEFINE S == Node
<1> HIDE DEF S
<1>1. u \in PageMaps(S) /\ n \in S
  BY DEF S
<1>2. With(u, p, n) \in PageMaps(S) /\ DOMAIN With(u, p, n) = DOMAIN u \cup {p}
  BY <1>1, WithFacts
<1> QED BY <1>2 DEF S

LEMMA WithoutFacts ==
    ASSUME NEW S, NEW f \in PageMaps(S), NEW p
    PROVE  /\ Without(f, p) \in PageMaps(S)
           /\ DOMAIN Without(f, p) = DOMAIN f \ {p}
           /\ \A q \in DOMAIN f : q # p => Without(f, p)[q] = f[q]
<1>1. DOMAIN f \subseteq Pages \ {0} /\ \A q \in DOMAIN f : f[q] \in S
  BY PageMapFacts
<1>2. Without(f, p) \in [DOMAIN f \ {p} -> S]
  BY <1>1 DEF Without
<1>3. Without(f, p) \in PageMaps(S)
  BY <1>1, <1>2 DEF PageMaps
<1> QED BY <1>3 DEF Without

LEMMA EmptyMap ==
    ASSUME NEW S
    PROVE  <<>> \in PageMaps(S) /\ DOMAIN <<>> = {}
<1>1. <<>> = [p \in {} |-> 0] /\ DOMAIN <<>> = {}
  OBVIOUS
<1>2. <<>> \in [{} -> S]
  BY <1>1
<1>3. {} \in SUBSET (Pages \ {0})
  OBVIOUS
<1> QED BY <1>1, <1>2, <1>3 DEF PageMaps

LEMMA NodeFacts ==
    /\ Zero \in Node /\ Absent \in Node
    /\ Zero.next = Absent.next /\ Zero.items = Absent.items
    /\ \A tag \in 1 .. MaxAttempts : TreePage(tag) \in Node /\ TreePage(tag).tag = tag
<1>1. 0 \in 0 .. MaxAttempts /\ 0 \in Pages /\ 0 \in -1 .. MaxAttempts /\ -1 \in -1 .. MaxAttempts
  BY BoundsAssumption DEF Pages
<1>2. Zero \in Node
  BY <1>1 DEF Zero, Node, Item
<1>3. Absent \in Node /\ Absent.next = Zero.next /\ Absent.items = Zero.items
  BY <1>1, <1>2 DEF Absent, Node
<1>4. ASSUME NEW tag \in 1 .. MaxAttempts
      PROVE  TreePage(tag) \in Node /\ TreePage(tag).tag = tag
  <2>1. tag \in -1 .. MaxAttempts
    BY BoundsAssumption
  <2> QED BY <1>1, <2>1 DEF TreePage, Node, Item
<1> QED BY <1>2, <1>3, <1>4

\* Writing a link into a node leaves its items alone.
LEMMA SetNextFacts ==
    ASSUME NEW n \in Node, NEW next \in Pages
    PROVE  /\ setNext(n, next) \in Node
           /\ setNext(n, next).next = next
           /\ setNext(n, next).items = n.items
<1>1. 0 \in -1 .. MaxAttempts
  BY BoundsAssumption
<1> QED BY <1>1 DEF setNext, Node

\* Writing an item leaves the other items and the link alone.
LEMMA SetItemFacts ==
    ASSUME NEW n \in Node, NEW i \in Slots, NEW ptr \in Pages, NEW version \in 0 .. MaxAttempts
    PROVE  /\ setItem(n, i, ptr, version) \in Node
           /\ setItem(n, i, ptr, version).next = n.next
           /\ setItem(n, i, ptr, version).items[i] = [ptr |-> ptr, version |-> version]
           /\ \A j \in Slots : j # i => setItem(n, i, ptr, version).items[j] = n.items[j]
<1>1. 0 \in -1 .. MaxAttempts
  BY BoundsAssumption
<1>2. n.items \in [Slots -> Item] /\ [ptr |-> ptr, version |-> version] \in Item
  BY DEF Node, Item
<1>3. [n.items EXCEPT ![i] = [ptr |-> ptr, version |-> version]] \in [Slots -> Item]
  BY <1>2
<1> QED BY <1>1, <1>2, <1>3 DEF setItem, Node

-----------------------------------------------------------------------------
(* A list and a tree in the pages 1 .. lim - 1.  C gives the contents each *)
(* page may have, h is the first sequence number, e the last that has a    *)
(* node, t the one after the last item, X the pages in neither: those a    *)
(* running operation has in its hands.                                     *)

\* L leads from node to node, and its slots ascend within one.
Chain(C, L, h, e) ==
    /\ \A q \in h .. e - 1 : seq2idx(q + 1) # 0 => L[q + 1] = L[q]
    /\ \A q \in h .. e - 1 : seq2idx(q + 1) = 0 => \A d \in C[L[q]] : d.next = L[q + 1]
    /\ \A p, q \in h .. e : p < q /\ L[p] = L[q] => seq2idx(p) < seq2idx(q)

Filled(C, L, I, h, t) == \A q \in h .. t - 1 : \A d \in C[L[q]] : d.items[seq2idx(q)] = I[q]

TreeOn(C, T) == \A p \in DOMAIN T : \A d \in C[p] : d.tag = T[p]

\* Each page is one of: a tree page, a list node, a free page, a page of X.
Parts(P, X, L, I, h, e, t, lim) ==
    /\ P \subseteq 1 .. lim - 1 /\ X \subseteq 1 .. lim - 1 /\ P \cap X = {}
    /\ \A q \in h .. e : L[q] \in 1 .. lim - 1 /\ L[q] \notin P /\ L[q] \notin X
    /\ \A q \in h .. t - 1 : I[q].ptr \in 1 .. lim - 1 /\ I[q].ptr \notin P /\ I[q].ptr \notin X
    /\ \A q \in h .. t - 1 : \A p \in h .. e : L[p] # I[q].ptr
    /\ \A q, p \in h .. t - 1 : p # q => I[p].ptr # I[q].ptr
    /\ \A x \in 1 .. lim - 1 : \/ x \in P \/ x \in X
                               \/ \E q \in h .. e : x = L[q]
                               \/ \E q \in h .. t - 1 : x = I[q].ptr

\* The meta data m describe a whole store, whatever of C the pages hold.
Stored(m, C, L, I) ==
    /\ m \in MetaRecord
    /\ m.headSeq <= m.tailSeq
    /\ m.root = 0 \/ m.root \in DOMAIN m.tree
    /\ L[m.headSeq] = m.headPage /\ L[m.tailSeq] = m.tailPage
    /\ Parts(DOMAIN m.tree, {}, L, I, m.headSeq, m.tailSeq, m.tailSeq, m.flushed)
    /\ Chain(C, L, m.headSeq, m.tailSeq)
    /\ Filled(C, L, I, m.headSeq, m.tailSeq)
    /\ TreeOn(C, m.tree)

-----------------------------------------------------------------------------
(* A commit in memory: s is the store, T its tree, M the saved meta data,  *)
(* D the contents the pages on file may have.                              *)

\* What the writer reads, and what a crash may leave once pages are written.
View(u, D) == [p \in Pages |-> IF p \in DOMAIN u THEN {u[p]} ELSE D[p]]
Mix(u, D)  == [p \in Pages |-> IF p \in DOMAIN u THEN D[p] \cup {u[p]} ELSE D[p]]

Reads(f, D) == \A p \in Pages \ {0} : f[p] \in D[p] /\ D[p] \subseteq Node

\* The list in memory goes on where the saved one stands: what has been taken
\* from it was free for all readers, what has been added is of this version,
\* and no page of the saved tree has been lost on the way.
Moved(s, T, X, L, I, M) ==
    /\ M.headSeq <= s.headSeq /\ s.headSeq <= M.tailSeq /\ M.tailSeq <= s.tailSeq
    /\ \A q \in M.headSeq .. s.headSeq - 1 : I[q].version <= s.maxVer
    /\ \A q \in M.tailSeq .. s.tailSeq - 1 : I[q].version = s.curVer
    /\ \A p \in DOMAIN M.tree : \/ p \in DOMAIN T /\ T[p] = M.tree[p]
                                \/ p \in X
                                \/ \E q \in M.tailSeq .. s.tailSeq - 1 : I[q].ptr = p

\* Pages the commit may overwrite: the tail node, pages taken from the list, and
\* pages appended.
Writable(p, s, L, I, M) ==
    \/ p = L[M.tailSeq]
    \/ \E q \in M.headSeq .. s.headSeq - 1 : I[q].ptr = p
    \/ p \in M.flushed .. s.flushed + s.nappend - 1

MemTypes(s, T, L, I, e, M) ==
    /\ s \in KVRecord /\ M \in MetaRecord /\ T \in PageMaps(1 .. MaxAttempts)
    /\ L \in [Nat -> Pages] /\ I \in [Nat -> Item]
    /\ e \in Nat
    /\ s.flushed + s.nappend <= MaxPages

\* e falls one short of the tail while a full node has no successor yet.
Ends(s, L, e, M) ==
    /\ s.maxSeq = M.tailSeq /\ s.flushed = M.flushed
    /\ M.tailSeq <= e
    /\ e = s.tailSeq \/ (e + 1 = s.tailSeq /\ seq2idx(s.tailSeq) = 0)
    /\ L[s.headSeq] = s.headPage /\ L[e] = s.tailPage

\* Y are pages of X taken from the list and not written yet.
Writes(s, X, Y, L, I, M) ==
    /\ \A q \in M.tailSeq .. s.tailSeq - 1 : L[q] \in DOMAIN s.updates
    /\ Writable(s.tailPage, s, L, I, M)
    /\ \A p \in DOMAIN s.updates : Writable(p, s, L, I, M)
    /\ Y \subseteq X /\ \A p \in Y : p \notin DOMAIN s.updates /\ Writable(p, s, L, I, M)

Mem(s, T, X, Y, L, I, e, M, D) ==
    /\ MemTypes(s, T, L, I, e, M)
    /\ Ends(s, L, e, M)
    /\ Moved(s, T, X, L, I, M)
    /\ Parts(DOMAIN T, X, L, I, s.headSeq, e, s.tailSeq, s.flushed + s.nappend)
    /\ Chain(View(s.updates, D), L, s.headSeq, e)
    /\ Filled(View(s.updates, D), L, I, s.headSeq, s.tailSeq)
    /\ TreeOn(View(s.updates, D), T)
    /\ Stored(M, Mix(s.updates, D), L, I)
    /\ Writes(s, X, Y, L, I, M)

\* Fields that no operator of the list touches.
Frame(s, z) ==
    /\ z.root = s.root /\ z.tree = s.tree /\ z.version = s.version /\ z.failed = s.failed
    /\ z.maxVer = s.maxVer /\ z.curVer = s.curVer /\ z.maxSeq = s.maxSeq

-----------------------------------------------------------------------------
(* Reading and writing pages.                                              *)

\* A page is read as one of its possible contents.
LEMMA ReadFacts ==
    ASSUME NEW s \in KVRecord, NEW f, NEW D, Reads(f, D), NEW p \in Pages \ {0}
    PROVE  /\ pageRead(s, f, p) \in Node
           /\ \E d \in View(s.updates, D)[p] :
                /\ pageRead(s, f, p).next = d.next /\ pageRead(s, f, p).items = d.items
                /\ d = Absent \/ d = pageRead(s, f, p)
<1>1. s.updates \in PageMaps(Node)
  BY DEF KVRecord
<1>2. CASE p \in DOMAIN s.updates
  BY <1>1, <1>2, PageMapFacts DEF pageRead, View
<1>3. CASE p \notin DOMAIN s.updates
  <2>1. f[p] \in D[p] /\ D[p] \subseteq Node /\ View(s.updates, D)[p] = D[p]
    BY <1>3 DEF Reads, View
  <2>2. pageRead(s, f, p) = IF f[p] = Absent THEN Zero ELSE f[p]
    BY <1>3 DEF pageRead, mmapRead
  <2> QED BY <2>1, <2>2, NodeFacts
<1> QED BY <1>2, <1>3

\* A page is changed as it would be read, but for the first page of a new file.
LEMMA WriteFacts ==
    ASSUME NEW s \in KVRecord, NEW f, NEW D, Reads(f, D), NEW p \in Pages \ {0}
    PROVE  /\ pageWrite(s, f, p) \in Node
           /\ \/ \E d \in View(s.updates, D)[p] :
                  pageWrite(s, f, p).next = d.next /\ pageWrite(s, f, p).items = d.items
              \/ s.flushed = 2 /\ p = 1 /\ p \notin DOMAIN s.updates
<1>1. CASE s.flushed = 2 /\ p = 1 /\ p \notin DOMAIN s.updates
  BY <1>1, NodeFacts DEF pageWrite
<1>2. CASE ~(s.flushed = 2 /\ p = 1 /\ p \notin DOMAIN s.updates)
  <2>1. pageWrite(s, f, p) = pageRead(s, f, p)
    BY <1>2 DEF pageWrite, pageRead
  <2> QED BY <2>1, ReadFacts
<1> QED BY <1>1, <1>2

\* The pages of the saved store apart from its tail node are not writable.
LEMMA NotWritable ==
    ASSUME NEW s \in KVRecord, NEW C, NEW L, NEW I, NEW M, Stored(M, C, L, I),
           M.headSeq <= s.headSeq, s.headSeq <= M.tailSeq,
           NEW p, Writable(p, s, L, I, M)
    PROVE  /\ p \notin DOMAIN M.tree
           /\ \A q \in M.headSeq .. M.tailSeq : L[q] = p => p = L[M.tailSeq]
           /\ \A q \in s.headSeq .. M.tailSeq - 1 : I[q].ptr # p
<1>1. M \in MetaRecord /\ M.headSeq \in Nat /\ M.tailSeq \in Nat /\ M.flushed \in Nat
      /\ M.headSeq <= M.tailSeq /\ s.headSeq \in Nat /\ s.flushed \in Nat /\ s.nappend \in Nat
  BY BoundsAssumption DEF Stored, MetaRecord, KVRecord
<1>2. Parts(DOMAIN M.tree, {}, L, I, M.headSeq, M.tailSeq, M.tailSeq, M.flushed)
  BY DEF Stored
<1>3. CASE p = L[M.tailSeq]
  BY <1>1, <1>2, <1>3 DEF Parts
<1>4. CASE \E q \in M.headSeq .. s.headSeq - 1 : I[q].ptr = p
  BY <1>1, <1>2, <1>4 DEF Parts
<1>5. CASE p \in M.flushed .. s.flushed + s.nappend - 1
  BY <1>1, <1>2, <1>5 DEF Parts
<1> QED BY <1>3, <1>4, <1>5 DEF Writable

-----------------------------------------------------------------------------
(* flPop.                                                                  *)

\* The numbers in a store in memory.
Numbers(s, L, I, e, M) ==
    /\ s \in KVRecord /\ M \in MetaRecord /\ e \in Nat
    /\ s.headSeq \in Nat /\ s.tailSeq \in Nat /\ s.maxSeq \in Nat /\ s.maxVer \in Nat
    /\ s.curVer \in 0 .. MaxAttempts
    /\ s.flushed \in Nat /\ s.nappend \in Nat
    /\ M.headSeq \in Nat /\ M.tailSeq \in Nat /\ M.flushed \in Nat
    /\ s.headPage \in Pages \ {0} /\ s.tailPage \in Pages \ {0}
    /\ s.updates \in PageMaps(Node) /\ DOMAIN s.updates \subseteq Pages \ {0}
    /\ M.headSeq <= s.headSeq /\ s.headSeq <= M.tailSeq /\ M.tailSeq <= e /\ e <= s.tailSeq
    /\ s.tailSeq <= e + 1
    /\ s.maxSeq = M.tailSeq /\ s.flushed = M.flushed /\ s.flushed + s.nappend <= MaxPages
    /\ s.headPage = L[s.headSeq] /\ s.tailPage = L[e]
    /\ \A q \in Nat : L[q] \in Pages /\ I[q] \in Item
    /\ \A q \in s.headSeq .. e : L[q] \in Pages \ {0}

LEMMA MemNumbers ==
    ASSUME NEW s, NEW T, NEW X, NEW Y, NEW L, NEW I, NEW e, NEW M, NEW D,
           Mem(s, T, X, Y, L, I, e, M, D)
    PROVE  Numbers(s, L, I, e, M)
<1>1. s \in KVRecord /\ M \in MetaRecord /\ e \in Nat /\ s.flushed + s.nappend <= MaxPages
      /\ L \in [Nat -> Pages] /\ I \in [Nat -> Item]
  BY DEF Mem, MemTypes
<1>2. /\ s.headSeq \in Nat /\ s.tailSeq \in Nat /\ s.maxSeq \in Nat /\ s.maxVer \in Nat
      /\ s.curVer \in 0 .. MaxAttempts
      /\ s.flushed \in Nat /\ s.nappend \in Nat
      /\ M.headSeq \in Nat /\ M.tailSeq \in Nat /\ M.flushed \in Nat
      /\ s.updates \in PageMaps(Node)
  BY <1>1, BoundsAssumption DEF KVRecord, MetaRecord
<1>3. DOMAIN s.updates \subseteq Pages \ {0}
  BY <1>2, PageMapFacts
<1>4. /\ M.headSeq <= s.headSeq /\ s.headSeq <= M.tailSeq
      /\ M.tailSeq <= e /\ e <= s.tailSeq /\ s.tailSeq <= e + 1
      /\ s.maxSeq = M.tailSeq /\ s.flushed = M.flushed
      /\ s.headPage = L[s.headSeq] /\ s.tailPage = L[e]
  BY <1>1, <1>2 DEF Mem, Moved, Ends
<1>5. \A q \in s.headSeq .. e : L[q] \in Pages \ {0}
  BY <1>1, <1>2, <1>4, BoundsAssumption DEF Mem, Parts, Pages
<1> QED BY <1>1, <1>2, <1>3, <1>4, <1>5 DEF Numbers

Popped(s, L) == [s EXCEPT !.headSeq = s.headSeq + 1, !.headPage = L[s.headSeq + 1]]

\* flPop returns the item at the head, and the node if it is the last in it.
LEMMA PopResult ==
    ASSUME NEW s, NEW T, NEW X, NEW Y, NEW L, NEW I, NEW e, NEW M, NEW D, NEW f,
           Mem(s, T, X, Y, L, I, e, M, D), Reads(f, D), ~flBlocked(s, f)
    PROVE  /\ s.headSeq < M.tailSeq
           /\ I[s.headSeq].version <= s.maxVer
           /\ flPop(s, f).ptr = I[s.headSeq].ptr
           /\ flPop(s, f).head = IF seq2idx(s.headSeq + 1) = 0 THEN s.headPage ELSE 0
           /\ flPop(s, f).s = Popped(s, L)
<1> DEFINE h == s.headSeq
           node == pageRead(s, f, s.headPage)
<1>0. Numbers(s, L, I, e, M)
  BY MemNumbers
<1>1. s.headSeq < M.tailSeq
  BY <1>0 DEF flBlocked, Numbers
<1>2. h \in h .. e /\ h \in h .. e - 1 /\ h \in h .. s.tailSeq - 1 /\ s.headPage = L[h]
  BY <1>0, <1>1 DEF Numbers
<1>3. PICK d \in View(s.updates, D)[s.headPage] : node.next = d.next /\ node.items = d.items
  BY <1>0, ReadFacts DEF Numbers
<1>4. node.items[seq2idx(h)] = I[h]
  BY <1>2, <1>3 DEF Mem, Filled
<1>5. IF seq2idx(h + 1) = 0 THEN node.next = L[h + 1] ELSE s.headPage = L[h + 1]
  BY <1>2, <1>3 DEF Mem, Chain
<1>6. ~(s.maxVer < I[h].version)
  BY <1>4 DEF flBlocked
<1>7. I[h].version \in Int
  BY <1>0 DEF Numbers, Item
<1>8. I[h].version <= s.maxVer
  BY <1>0, <1>6, <1>7 DEF Numbers
<1>9. flPop(s, f).s = Popped(s, L)
  BY <1>5, Zenon DEF flPop, Popped
<1> QED BY <1>1, <1>4, <1>8, <1>9, Zenon DEF flPop

\* What flPop takes from the list it has in its hands: the page is one that this
\* commit has not written and that it may write.
LEMMA PopMem ==
    ASSUME NEW s, NEW T, NEW X, NEW Y, NEW L, NEW I, NEW e, NEW M, NEW D, NEW f,
           Mem(s, T, X, Y, L, I, e, M, D), Reads(f, D), ~flBlocked(s, f)
    PROVE  LET pop == flPop(s, f)
           IN  /\ pop.ptr \in Pages \ {0} /\ pop.ptr \notin X /\ pop.ptr \notin DOMAIN T
               /\ Writable(pop.ptr, pop.s, L, I, M)
               /\ pop.head # 0 => pop.head \in Pages \ {0} /\ pop.head \notin X /\ pop.head # pop.ptr
               /\ Mem(pop.s, T, X \cup {pop.ptr} \cup ({pop.head} \ {0}), Y \cup {pop.ptr},
                      L, I, e, M, D)
<1> DEFINE h == s.headSeq
           lim == s.flushed + s.nappend
           z == Popped(s, L)
           ptr == I[h].ptr
           wrap == seq2idx(h + 1) = 0
           head == IF wrap THEN s.headPage ELSE 0
           X2 == X \cup {ptr} \cup ({head} \ {0})
           Y2 == Y \cup {ptr}
<1>1. Numbers(s, L, I, e, M)
  BY MemNumbers
<1>2. /\ h < M.tailSeq /\ I[h].version <= s.maxVer
      /\ flPop(s, f).ptr = ptr /\ flPop(s, f).head = head /\ flPop(s, f).s = z
  BY PopResult
<1>3. /\ h \in Nat /\ h + 1 \in Nat /\ h \in h .. e /\ h \in h .. s.tailSeq - 1
      /\ h + 1 \in h .. e
      /\ h \in M.headSeq .. M.tailSeq - 1
      /\ s.headPage = L[h] /\ s.headPage # 0
      /\ lim \in Nat
  BY <1>1, <1>2 DEF Numbers
<1>4. /\ z \in KVRecord
      /\ z.headSeq = h + 1 /\ z.headPage = L[h + 1]
      /\ z.tailSeq = s.tailSeq /\ z.tailPage = s.tailPage /\ z.maxSeq = s.maxSeq
      /\ z.maxVer = s.maxVer /\ z.curVer = s.curVer /\ z.flushed = s.flushed
      /\ z.nappend = s.nappend /\ z.flushed + z.nappend = lim /\ z.updates = s.updates
  BY <1>1, <1>3 DEF Numbers, KVRecord, Popped
<1> HIDE DEF z
<1>5. Parts(DOMAIN T, X, L, I, h, e, s.tailSeq, lim)
  BY DEF Mem
<1> HIDE DEF lim
<1>6. /\ ptr \in 1 .. lim - 1 /\ ptr \notin DOMAIN T /\ ptr \notin X
      /\ \A q \in h .. e : L[q] # ptr
  BY <1>3, <1>5 DEF Parts
<1>7. L[h] \in 1 .. lim - 1 /\ L[h] \notin DOMAIN T /\ L[h] \notin X
      /\ L[h] # ptr
  BY <1>3, <1>5 DEF Parts
<1>8. wrap => \A q \in h + 1 .. e : L[q] # L[h]
  <2>1. seq2idx(h + 1) = 0 => seq2idx(h) = Cap - 1
    BY <1>3, SlotFacts
  <2>2. \A q \in h + 1 .. e : L[h] = L[q] => seq2idx(h) < seq2idx(q)
    BY <1>1, <1>3 DEF Mem, Chain, Numbers
  <2>3. \A q \in h + 1 .. e : seq2idx(q) \in 0 .. Cap - 1
    BY <1>1, <1>3, SlotFacts DEF Numbers
  <2> QED BY <2>1, <2>2, <2>3, CapAssumption
<1>9. ~wrap => L[h + 1] = L[h]
  BY <1>1, <1>3 DEF Mem, Chain, Numbers
<1>10. Parts(DOMAIN T, X2, L, I, z.headSeq, e, z.tailSeq, z.flushed + z.nappend)
  <2>1. \A q \in h + 1 .. e : q \in h .. e
    BY <1>1, <1>3 DEF Numbers
  <2>2. \A q \in h + 1 .. s.tailSeq - 1 : q \in h .. s.tailSeq - 1 /\ q # h
    BY <1>1, <1>3 DEF Numbers
  <2>3. X2 \subseteq 1 .. lim - 1 /\ DOMAIN T \cap X2 = {} /\ DOMAIN T \subseteq 1 .. lim - 1
    <3>1. X \subseteq 1 .. lim - 1 /\ DOMAIN T \cap X = {} /\ DOMAIN T \subseteq 1 .. lim - 1
      BY <1>5 DEF Parts
    <3>2. \A x \in X2 : x \in X \/ x = ptr \/ x = L[h]
      BY <1>3
    <3> QED BY <3>1, <3>2, <1>6, <1>7
  <2>4. \A q \in h + 1 .. e : L[q] \in 1 .. lim - 1 /\ L[q] \notin DOMAIN T /\ L[q] \notin X2
    BY <1>3, <1>5, <1>6, <1>8, <2>1 DEF Parts
  <2>5. \A q \in h + 1 .. s.tailSeq - 1 : I[q].ptr \in 1 .. lim - 1 /\ I[q].ptr \notin DOMAIN T /\ I[q].ptr \notin X2
    BY <1>3, <1>5, <2>2 DEF Parts
  <2>6. \A x \in 1 .. lim - 1 :
           \/ x \in DOMAIN T \/ x \in X2
           \/ \E q \in h + 1 .. e : x = L[q]
           \/ \E q \in h + 1 .. s.tailSeq - 1 : x = I[q].ptr
    <3> SUFFICES ASSUME NEW x \in 1 .. lim - 1
                 PROVE  \/ x \in DOMAIN T \/ x \in X2
                        \/ \E q \in h + 1 .. e : x = L[q]
                        \/ \E q \in h + 1 .. s.tailSeq - 1 : x = I[q].ptr
      OBVIOUS
    <3>1. \/ x \in DOMAIN T \/ x \in X
          \/ \E q \in h .. e : x = L[q]
          \/ \E q \in h .. s.tailSeq - 1 : x = I[q].ptr
      BY <1>5 DEF Parts
    <3>2. ASSUME NEW q \in h .. e, x = L[q]
          PROVE  x \in X2 \/ \E k \in h + 1 .. e : x = L[k]
      <4>1. CASE q = h /\ wrap
        BY <3>2, <4>1, <1>3
      <4>2. CASE q = h /\ ~wrap
        BY <3>2, <4>2, <1>1, <1>3, <1>9 DEF Numbers
      <4>3. CASE q # h
        BY <3>2, <4>3, <1>1, <1>3 DEF Numbers
      <4> QED BY <4>1, <4>2, <4>3
    <3>3. ASSUME NEW q \in h .. s.tailSeq - 1, x = I[q].ptr
          PROVE  x \in X2 \/ \E k \in h + 1 .. s.tailSeq - 1 : x = I[k].ptr
      <4>1. CASE q = h
        BY <3>3, <4>1
      <4>2. CASE q # h
        BY <3>3, <4>2, <1>1, <1>3 DEF Numbers
      <4> QED BY <4>1, <4>2
    <3> QED BY <3>1, <3>2, <3>3
  <2> QED BY <1>4, <1>5, <2>1, <2>2, <2>3, <2>4, <2>5, <2>6 DEF Parts
<1>11. Moved(z, T, X2, L, I, M)
  BY <1>1, <1>2, <1>3, <1>4 DEF Mem, Moved, Numbers
<1>12. Ends(z, L, e, M) /\ MemTypes(z, T, L, I, e, M)
  BY <1>4 DEF Mem, Ends, MemTypes
<1>13. Chain(View(z.updates, D), L, z.headSeq, e)
  BY <1>1, <1>3, <1>4 DEF Mem, Chain, Numbers
<1>14. Filled(View(z.updates, D), L, I, z.headSeq, z.tailSeq)
  BY <1>1, <1>3, <1>4 DEF Mem, Filled, Numbers
<1>15. TreeOn(View(z.updates, D), T) /\ Stored(M, Mix(z.updates, D), L, I)
  BY <1>4 DEF Mem
<1>16. Writable(ptr, z, L, I, M)
  BY <1>1, <1>3, <1>4 DEF Writable, Numbers
<1>17. \A p : Writable(p, s, L, I, M) => Writable(p, z, L, I, M)
  BY <1>1, <1>3, <1>4 DEF Writable, Numbers
<1>18. ptr \notin DOMAIN s.updates
  <2>1. \A p \in DOMAIN s.updates : Writable(p, s, L, I, M)
    BY DEF Mem, Writes
  <2>2. h \in h .. M.tailSeq - 1 /\ M.headSeq <= h /\ h <= M.tailSeq
    BY <1>1, <1>2, <1>3 DEF Numbers
  <2>3. Stored(M, Mix(s.updates, D), L, I)
    BY DEF Mem
  <2> QED BY <1>1, <2>1, <2>2, <2>3, NotWritable DEF Numbers
<1>19. Writes(z, X2, Y2, L, I, M)
  BY <1>4, <1>16, <1>17, <1>18 DEF Mem, Writes
<1>20. Mem(z, T, X2, Y2, L, I, e, M, D)
  BY <1>10, <1>11, <1>12, <1>13, <1>14, <1>15, <1>19 DEF Mem
<1>21. ptr \in Pages \ {0} /\ (head # 0 => head \in Pages \ {0} /\ head \notin X /\ head # ptr)
  BY <1>1, <1>3, <1>6, <1>7, BoundsAssumption DEF Numbers, Pages, lim
<1> QED BY <1>2, <1>6, <1>16, <1>20, <1>21

-----------------------------------------------------------------------------
(* Writing pages of the list.                                              *)

\* What a write into page p changes of the contents the writer sees, and of those
\* that a crash may leave.
LEMMA PutView ==
    ASSUME NEW u \in PageMaps(Node), NEW p \in Pages \ {0}, NEW n \in Node, NEW D
    PROVE  /\ View(With(u, p, n), D)[p] = {n}
           /\ \A x \in Pages : x # p => View(With(u, p, n), D)[x] = View(u, D)[x]
           /\ \A d \in Mix(With(u, p, n), D)[p] : d = n \/ d \in Mix(u, D)[p]
           /\ \A x \in Pages : x # p => Mix(With(u, p, n), D)[x] = Mix(u, D)[x]
           /\ \A x \in Pages : View(u, D)[x] \subseteq Mix(u, D)[x]
<1>1. /\ DOMAIN With(u, p, n) = DOMAIN u \cup {p}
      /\ With(u, p, n)[p] = n
      /\ \A q \in DOMAIN u : q # p => With(u, p, n)[q] = u[q]
  BY DEF With
<1>2. p \in Pages
  OBVIOUS
<1> QED BY <1>1, <1>2 DEF View, Mix

\* p is no tree page of the saved store, and no list node of it but the tail.
Harmless(p, L, M) ==
    /\ p \notin DOMAIN M.tree
    /\ \A q \in M.headSeq .. M.tailSeq : L[q] = p => p = L[M.tailSeq]

KeepsTail(n, p, L, I, M) ==
    p = L[M.tailSeq] =>
        \A q \in M.headSeq .. M.tailSeq - 1 : L[q] = p => n.items[seq2idx(q)] = I[q]

Agree(L, I, L2, I2, M) ==
    /\ \A q \in M.headSeq .. M.tailSeq : L2[q] = L[q]
    /\ \A q \in M.headSeq .. M.tailSeq - 1 : I2[q] = I[q]

\* Pages the commit may write are harmless.
LEMMA WritableHarmless ==
    ASSUME NEW s, NEW T, NEW X, NEW Y, NEW L, NEW I, NEW e, NEW M, NEW D,
           Mem(s, T, X, Y, L, I, e, M, D), NEW p, Writable(p, s, L, I, M)
    PROVE  Harmless(p, L, M)
<1>1. Numbers(s, L, I, e, M)
  BY MemNumbers
<1>2. Stored(M, Mix(s.updates, D), L, I)
  BY DEF Mem
<1> QED BY <1>1, <1>2, NotWritable DEF Numbers, Harmless

\* A saved store does not notice a write into a harmless page, as long as the items
\* of its tail node are kept; nor new numbers beyond its tail.
LEMMA StoredPut ==
    ASSUME NEW s, NEW T, NEW X, NEW Y, NEW L, NEW I, NEW e, NEW M, NEW D,
           Mem(s, T, X, Y, L, I, e, M, D),
           NEW p \in Pages \ {0}, NEW n \in Node, Harmless(p, L, M),
           KeepsTail(n, p, L, I, M),
           NEW L2, NEW I2, Agree(L, I, L2, I2, M)
    PROVE  Stored(M, Mix(With(s.updates, p, n), D), L2, I2)
<1> DEFINE C == Mix(s.updates, D)
           C2 == Mix(With(s.updates, p, n), D)
           h == M.headSeq
           t == M.tailSeq
<1>0. /\ p = L[t] => \A q \in h .. t - 1 : L[q] = p => n.items[seq2idx(q)] = I[q]
      /\ \A q \in h .. t : L2[q] = L[q]
      /\ \A q \in h .. t - 1 : I2[q] = I[q]
  BY DEF KeepsTail, Agree
<1>1. Numbers(s, L, I, e, M)
  BY MemNumbers
<1>2. Stored(M, C, L, I)
  BY DEF Mem
<1>3. /\ p \notin DOMAIN M.tree
      /\ \A q \in h .. t : L[q] = p => p = L[t]
  BY DEF Harmless
<1>4. /\ \A d \in C2[p] : d = n \/ d \in C[p]
      /\ \A x \in Pages : x # p => C2[x] = C[x]
  BY <1>1, PutView DEF Numbers
<1>5. h \in Nat /\ t \in Nat /\ h <= t /\ \A q \in h .. t : L[q] \in Pages
  BY <1>1 DEF Numbers
<1> HIDE DEF C, C2
<1>6. Chain(C, L, h, t) /\ Filled(C, L, I, h, t) /\ TreeOn(C, M.tree)
      /\ Parts(DOMAIN M.tree, {}, L, I, h, t, t, M.flushed)
  BY <1>2 DEF Stored
<1>7. Chain(C2, L2, h, t)
  <2>1. \A q \in h .. t - 1 : q \in h .. t /\ q + 1 \in h .. t /\ q \in Nat
    BY <1>5
  <2>2. \A a, b \in h .. t : a < b /\ L[a] = L[b] => seq2idx(a) < seq2idx(b)
    BY <1>6 DEF Chain
  <2>3. ASSUME NEW q \in h .. t - 1, seq2idx(q + 1) = 0 PROVE L[q] # p
    <3>1. seq2idx(q) = Cap - 1
      BY <2>1, <2>3, SlotFacts
    <3>2. L[q] = L[t] => seq2idx(q) < seq2idx(t)
      BY <2>2, <1>5
    <3>3. seq2idx(t) \in 0 .. Cap - 1
      BY <1>5, SlotFacts
    <3> QED BY <2>1, <3>1, <3>2, <3>3, <1>3, CapAssumption
  <2>4. \A q \in h .. t - 1 : seq2idx(q + 1) # 0 => L2[q + 1] = L2[q]
    BY <1>0, <2>1, <1>6 DEF Chain
  <2>5. \A q \in h .. t - 1 : seq2idx(q + 1) = 0 => \A d \in C2[L2[q]] : d.next = L2[q + 1]
    BY <1>0, <2>1, <2>3, <1>4, <1>5, <1>6 DEF Chain
  <2>6. \A a, b \in h .. t : a < b /\ L2[a] = L2[b] => seq2idx(a) < seq2idx(b)
    BY <1>0, <2>2
  <2> QED BY <2>4, <2>5, <2>6 DEF Chain
<1>8. Filled(C2, L2, I2, h, t)
  <2> SUFFICES ASSUME NEW q \in h .. t - 1, NEW d \in C2[L2[q]]
               PROVE  d.items[seq2idx(q)] = I2[q]
    BY DEF Filled
  <2>1. L2[q] = L[q] /\ I2[q] = I[q] /\ L[q] \in Pages /\ q \in h .. t
    BY <1>0, <1>5
  <2>2. \A c \in C[L[q]] : c.items[seq2idx(q)] = I[q]
    BY <1>6 DEF Filled
  <2>3. CASE L[q] = p
    BY <1>0, <2>1, <2>2, <2>3, <1>3, <1>4
  <2>4. CASE L[q] # p
    BY <2>1, <2>2, <2>4, <1>4
  <2> QED BY <2>3, <2>4
<1>9. TreeOn(C2, M.tree)
  <2>1. DOMAIN M.tree \subseteq Pages \ {0}
    BY <1>1, PageMapFacts DEF Numbers, MetaRecord
  <2> QED BY <2>1, <1>3, <1>4, <1>6 DEF TreeOn
<1>10. Parts(DOMAIN M.tree, {}, L2, I2, h, t, t, M.flushed)
  BY <1>0, <1>6 DEF Parts
<1>11. L2[h] = L[h] /\ L2[t] = L[t]
  BY <1>0, <1>5
<1> QED BY <1>2, <1>7, <1>8, <1>9, <1>10, <1>11 DEF Stored, C2

\* The tail node, as pageWrite returns it, has the items of the list in memory and
\* those of the saved one.
LEMMA TailNode ==
    ASSUME NEW s, NEW T, NEW X, NEW Y, NEW L, NEW I, NEW e, NEW M, NEW D, NEW f,
           Mem(s, T, X, Y, L, I, e, M, D), Reads(f, D)
    PROVE  LET n == pageWrite(s, f, s.tailPage)
           IN  /\ n \in Node
               /\ \A q \in s.headSeq .. s.tailSeq - 1 : L[q] = s.tailPage => n.items[seq2idx(q)] = I[q]
               /\ \A q \in M.headSeq .. M.tailSeq - 1 : L[q] = s.tailPage => n.items[seq2idx(q)] = I[q]
<1> DEFINE n == pageWrite(s, f, s.tailPage)
<1>1. Numbers(s, L, I, e, M)
  BY MemNumbers
<1>2. /\ n \in Node
      /\ \/ \E d \in View(s.updates, D)[s.tailPage] : n.next = d.next /\ n.items = d.items
         \/ s.flushed = 2 /\ s.tailPage = 1 /\ s.tailPage \notin DOMAIN s.updates
  BY <1>1, WriteFacts DEF Numbers
<1> HIDE DEF n
<1>3. Stored(M, Mix(s.updates, D), L, I) /\ Filled(View(s.updates, D), L, I, s.headSeq, s.tailSeq)
      /\ \A q \in M.tailSeq .. s.tailSeq - 1 : L[q] \in DOMAIN s.updates
  BY DEF Mem, Writes
<1>4. Filled(Mix(s.updates, D), L, I, M.headSeq, M.tailSeq)
      /\ Parts(DOMAIN M.tree, {}, L, I, M.headSeq, M.tailSeq, M.tailSeq, M.flushed)
  BY <1>3 DEF Stored
<1>5. CASE \E d \in View(s.updates, D)[s.tailPage] : n.next = d.next /\ n.items = d.items
  <2>1. PICK d \in View(s.updates, D)[s.tailPage] : n.items = d.items
    BY <1>5
  <2>2. d \in Mix(s.updates, D)[s.tailPage]
    BY <1>1, <2>1 DEF View, Mix, Numbers
  <2>3. \A q \in s.headSeq .. s.tailSeq - 1 : L[q] = s.tailPage => n.items[seq2idx(q)] = I[q]
    BY <1>3, <2>1 DEF Filled
  <2>4. \A q \in M.headSeq .. M.tailSeq - 1 : L[q] = s.tailPage => n.items[seq2idx(q)] = I[q]
    BY <1>4, <2>1, <2>2 DEF Filled
  <2> QED BY <1>2, <2>3, <2>4 DEF n
<1>6. CASE s.flushed = 2 /\ s.tailPage = 1 /\ s.tailPage \notin DOMAIN s.updates
  <2>1. \A q \in M.headSeq .. M.tailSeq - 1 : FALSE
    <3> SUFFICES ASSUME NEW q \in M.headSeq .. M.tailSeq - 1 PROVE FALSE
      OBVIOUS
    <3>1. I[q].ptr \in 1 .. M.flushed - 1 /\ L[q] \in 1 .. M.flushed - 1 /\ L[q] # I[q].ptr
      BY <1>1, <1>4 DEF Parts, Numbers
    <3> QED BY <3>1, <1>1, <1>6 DEF Numbers
  <2>2. \A q \in s.headSeq .. s.tailSeq - 1 : q \in M.headSeq .. M.tailSeq - 1 \/ q \in M.tailSeq .. s.tailSeq - 1
    BY <1>1 DEF Numbers
  <2> QED BY <1>2, <1>3, <1>6, <2>1, <2>2 DEF n
<1> QED BY <1>2, <1>5, <1>6

-----------------------------------------------------------------------------
(* An item is pushed.                                                      *)

Push(s, f, ptr) ==
    [Put(s, s.tailPage, setItem(pageWrite(s, f, s.tailPage), seq2idx(s.tailSeq), ptr, s.curVer))
        EXCEPT !.tailSeq = @ + 1]

\* The page is in the list, of the version of this commit, and nothing else has
\* changed.
PushDone(z, s, p, T, X, Y, M, D) ==
    /\ Frame(s, z) /\ z.nappend = s.nappend /\ z.tailSeq = s.tailSeq + 1
    /\ \E L2 \in [Nat -> Pages], I2 \in [Nat -> Item] :
         Mem(z, T, X \ {p}, Y, L2, I2, IF seq2idx(s.tailSeq + 1) = 0 THEN s.tailSeq ELSE s.tailSeq + 1, M, D)

LEMMA PushMem ==
    ASSUME NEW s, NEW T, NEW X, NEW Y, NEW L, NEW I, NEW M, NEW D, NEW f,
           Mem(s, T, X, Y, L, I, s.tailSeq, M, D), Reads(f, D), NEW p \in X, p \notin Y
    PROVE  PushDone(Push(s, f, p), s, p, T, X, Y, M, D)
<1> DEFINE h == s.headSeq
           t == s.tailSeq
           tp == s.tailPage
           lim == s.flushed + s.nappend
           n == setItem(pageWrite(s, f, tp), seq2idx(t), p, s.curVer)
           u == With(s.updates, tp, n)
           z == Push(s, f, p)
           L2 == [L EXCEPT ![t + 1] = L[t]]
           I2 == [I EXCEPT ![t] = [ptr |-> p, version |-> s.curVer]]
           e2 == IF seq2idx(t + 1) = 0 THEN t ELSE t + 1
           C == View(s.updates, D)
           C2 == View(u, D)
<1>1. Numbers(s, L, I, t, M)
  BY MemNumbers
<1>2. /\ h \in Nat /\ t \in Nat /\ t + 1 \in Nat /\ h <= t /\ M.tailSeq <= t /\ M.headSeq <= h
      /\ h <= M.tailSeq /\ lim \in Nat /\ tp \in Pages \ {0} /\ tp = L[t] /\ tp \in Pages
      /\ L \in [Nat -> Pages] /\ I \in [Nat -> Item] /\ e2 \in {t, t + 1} /\ e2 \in Nat
      /\ M.tailSeq \in Nat /\ M.headSeq \in Nat
  <2>1. /\ h \in Nat /\ t \in Nat /\ h <= t /\ M.tailSeq <= t /\ M.headSeq <= h
        /\ h <= M.tailSeq /\ lim \in Nat /\ tp \in Pages \ {0} /\ tp = L[t]
        /\ M.tailSeq \in Nat /\ M.headSeq \in Nat
    BY <1>1 DEF Numbers
  <2>2. t + 1 \in Nat /\ e2 \in {t, t + 1}
    BY <2>1
  <2>3. L \in [Nat -> Pages] /\ I \in [Nat -> Item]
    BY DEF Mem, MemTypes
  <2> QED BY <2>1, <2>2, <2>3
<1>3. Parts(DOMAIN T, X, L, I, h, t, t, lim) /\ Chain(C, L, h, t) /\ Filled(C, L, I, h, t)
      /\ TreeOn(C, T)
  BY DEF Mem
<1>4. p \in 1 .. lim - 1 /\ p \notin DOMAIN T /\ p \in Pages /\ (\A q \in h .. t : L[q] # p)
      /\ (\A q \in h .. t - 1 : I[q].ptr # p)
  BY <1>1, <1>2, <1>3, BoundsAssumption DEF Parts, Pages, Numbers
<1>5. /\ pageWrite(s, f, tp) \in Node
      /\ \A q \in h .. t - 1 : L[q] = tp => pageWrite(s, f, tp).items[seq2idx(q)] = I[q]
      /\ \A q \in M.headSeq .. M.tailSeq - 1 : L[q] = tp => pageWrite(s, f, tp).items[seq2idx(q)] = I[q]
  BY TailNode
<1>6. seq2idx(t) \in Slots /\ \A q \in Nat : seq2idx(q) \in Slots
  BY <1>2, NextSlot
<1>7. /\ n \in Node
      /\ n.items[seq2idx(t)] = [ptr |-> p, version |-> s.curVer]
      /\ \A i \in Slots : i # seq2idx(t) => n.items[i] = pageWrite(s, f, tp).items[i]
  <2> DEFINE w == pageWrite(s, f, tp)
             i == seq2idx(t)
             v == s.curVer
  <2>1. w \in Node /\ i \in Slots /\ p \in Pages
    BY <1>4, <1>5, <1>6
  <2>2. v \in 0 .. MaxAttempts
    BY <1>1 DEF Numbers
  <2> HIDE DEF w, i, v
  <2>3. /\ setItem(w, i, p, v) \in Node
        /\ setItem(w, i, p, v).items[i] = [ptr |-> p, version |-> v]
        /\ \A j \in Slots : j # i => setItem(w, i, p, v).items[j] = w.items[j]
    BY <2>1, <2>2, SetItemFacts
  <2> QED BY <2>3 DEF w, i, v
<1> HIDE DEF n
<1>8. u \in PageMaps(Node) /\ DOMAIN u = DOMAIN s.updates \cup {tp}
  <2>1. s.updates \in PageMaps(Node) /\ tp \in Pages \ {0} /\ n \in Node
    BY <1>1, <1>2, <1>7 DEF Numbers
  <2> HIDE DEF tp
  <2> QED BY <2>1, UpdateFacts
<1>9. /\ z \in KVRecord
      /\ z.headSeq = h /\ z.headPage = s.headPage /\ z.tailSeq = t + 1 /\ z.tailPage = tp
      /\ z.flushed = s.flushed /\ z.nappend = s.nappend /\ z.flushed + z.nappend = lim
      /\ z.updates = u /\ Frame(s, z)
  BY <1>1, <1>2, <1>8 DEF Push, Put, KVRecord, Numbers, n, Frame
<1> HIDE DEF z
<1>10. /\ L2 \in [Nat -> Pages] /\ \A q \in Nat : L2[q] = IF q = t + 1 THEN L[t] ELSE L[q]
  BY <1>2
<1>11. /\ I2 \in [Nat -> Item] /\ I2[t] = [ptr |-> p, version |-> s.curVer]
       /\ \A q \in Nat : q # t => I2[q] = I[q]
  <2>1. [ptr |-> p, version |-> s.curVer] \in Item
    BY <1>1, <1>4 DEF Item, Numbers
  <2> QED BY <1>2, <2>1
<1>12. C2[tp] = {n} /\ \A x \in Pages : x # tp => C2[x] = C[x]
  BY <1>1, <1>2, <1>7, PutView DEF Numbers
<1> HIDE DEF L2, I2, u, C, C2, lim
<1>13. MemTypes(z, T, L2, I2, e2, M)
  BY <1>2, <1>9, <1>10, <1>11 DEF Mem, MemTypes, lim
<1>14. Ends(z, L2, e2, M)
  BY <1>1, <1>2, <1>9, <1>10 DEF Ends, Numbers, Frame
<1>15. Moved(z, T, X \ {p}, L2, I2, M)
  <2>1. Moved(s, T, X, L, I, M) /\ z.maxVer = s.maxVer /\ z.curVer = s.curVer
    BY <1>9 DEF Mem, Frame
  <2>2. \A q \in M.headSeq .. h - 1 : I2[q].version <= z.maxVer
    BY <1>2, <1>11, <2>1 DEF Moved
  <2>3. \A q \in M.tailSeq .. t : I2[q].version = z.curVer
    BY <1>2, <1>11, <2>1 DEF Moved
  <2>4. \E q \in M.tailSeq .. t : I2[q].ptr = p
    BY <1>2, <1>11
  <2>5. ASSUME NEW x \in DOMAIN M.tree
        PROVE  \/ x \in DOMAIN T /\ T[x] = M.tree[x]
               \/ x \in X \ {p}
               \/ \E q \in M.tailSeq .. t : I2[q].ptr = x
    BY <1>2, <1>11, <2>1, <2>4 DEF Moved
  <2> QED BY <1>2, <1>9, <2>1, <2>2, <2>3, <2>5 DEF Moved
<1>16. \A q \in h .. e2 : \E k \in h .. t : L2[q] = L[k]
  BY <1>2, <1>10
<1>17. Parts(DOMAIN T, X \ {p}, L2, I2, h, e2, t + 1, lim)
  <2>1. /\ DOMAIN T \subseteq 1 .. lim - 1 /\ X \subseteq 1 .. lim - 1 /\ DOMAIN T \cap X = {}
        /\ \A q \in h .. t : L[q] \in 1 .. lim - 1 /\ L[q] \notin DOMAIN T /\ L[q] \notin X
        /\ \A q \in h .. t - 1 : I[q].ptr \in 1 .. lim - 1 /\ I[q].ptr \notin DOMAIN T /\ I[q].ptr \notin X
        /\ \A q \in h .. t - 1 : \A k \in h .. t : L[k] # I[q].ptr
        /\ \A q, k \in h .. t - 1 : k # q => I[k].ptr # I[q].ptr
        /\ \A x \in 1 .. lim - 1 : \/ x \in DOMAIN T \/ x \in X
                                   \/ \E q \in h .. t : x = L[q]
                                   \/ \E q \in h .. t - 1 : x = I[q].ptr
    BY <1>3 DEF Parts
  <2>2. \A q \in h .. t : q = t \/ q \in h .. t - 1
    BY <1>2
  <2>3. \A q \in h .. t : I2[q].ptr = IF q = t THEN p ELSE I[q].ptr
    BY <1>2, <1>11
  <2>4. \A q \in h .. e2 : L2[q] \in 1 .. lim - 1 /\ L2[q] \notin DOMAIN T /\ L2[q] \notin X \ {p}
    BY <1>16, <2>1
  <2>5. \A q \in h .. t : I2[q].ptr \in 1 .. lim - 1 /\ I2[q].ptr \notin DOMAIN T /\ I2[q].ptr \notin X \ {p}
    BY <1>4, <2>1, <2>2, <2>3
  <2>6. \A q \in h .. t : \A k \in h .. e2 : L2[k] # I2[q].ptr
    BY <1>4, <1>16, <2>1, <2>2, <2>3
  <2>7. \A q, k \in h .. t : k # q => I2[k].ptr # I2[q].ptr
    BY <1>4, <2>1, <2>2, <2>3
  <2>8. ASSUME NEW x \in 1 .. lim - 1
        PROVE  \/ x \in DOMAIN T \/ x \in X \ {p}
               \/ \E q \in h .. e2 : x = L2[q]
               \/ \E q \in h .. t : x = I2[q].ptr
    <3>1. \A q \in h .. t : q \in h .. e2 /\ L2[q] = L[q]
      BY <1>2, <1>10
    <3>2. \E q \in h .. t : p = I2[q].ptr
      BY <1>2, <2>3
    <3>3. \A q \in h .. t - 1 : q \in h .. t /\ I2[q].ptr = I[q].ptr
      BY <1>2, <2>3
    <3> QED BY <2>1, <3>1, <3>2, <3>3
  <2>9. (t + 1) - 1 = t
    BY <1>2
  <2> QED BY <2>1, <2>4, <2>5, <2>6, <2>7, <2>8, <2>9 DEF Parts
<1>18. Chain(C2, L2, h, e2)
  <2>1. \A a, b \in h .. t : a < b /\ L[a] = L[b] => seq2idx(a) < seq2idx(b)
    BY <1>3 DEF Chain
  <2>2. ASSUME NEW q \in h .. e2 - 1, seq2idx(q + 1) # 0 PROVE L2[q + 1] = L2[q]
    <3>1. CASE q = t
      BY <3>1, <1>2, <1>10
    <3>2. CASE q # t
      <4>1. q \in h .. t - 1 /\ q + 1 # t + 1 /\ q # t + 1 /\ q \in Nat /\ q + 1 \in Nat
        BY <1>2, <3>2
      <4>2. L[q + 1] = L[q]
        BY <1>3, <2>2, <4>1 DEF Chain
      <4> QED BY <1>10, <4>1, <4>2
    <3> QED BY <3>1, <3>2
  <2>3. ASSUME NEW q \in h .. e2 - 1, seq2idx(q + 1) = 0, NEW d \in C2[L2[q]]
        PROVE  d.next = L2[q + 1]
    <3>1. q # t
      BY <1>2, <2>3
    <3>2. q \in h .. t - 1 /\ q + 1 # t + 1 /\ q # t + 1 /\ q \in Nat /\ q + 1 \in Nat /\ q < t /\ q \in h .. t
      BY <1>2, <3>1
    <3>3. L[q] # tp
      <4>1. seq2idx(q) = Cap - 1 /\ seq2idx(t) \in 0 .. Cap - 1
        BY <1>2, <2>3, <3>2, SlotFacts
      <4>2. L[q] = L[t] => seq2idx(q) < seq2idx(t)
        BY <1>2, <2>1, <3>2
      <4> QED BY <1>2, <4>1, <4>2, CapAssumption
    <3>4. C2[L2[q]] = C[L[q]] /\ L2[q + 1] = L[q + 1]
      BY <1>2, <1>10, <1>12, <3>2, <3>3
    <3> QED BY <1>3, <2>3, <3>2, <3>4 DEF Chain
  <2>4. ASSUME NEW a \in h .. e2, NEW b \in h .. e2, a < b, L2[a] = L2[b]
        PROVE  seq2idx(a) < seq2idx(b)
    <3>1. CASE b = t + 1
      <4>1. seq2idx(t + 1) = seq2idx(t) + 1
        BY <1>2, <3>1, SlotFacts
      <4>2. a \in h .. t /\ L[a] = L[t]
        BY <1>2, <1>10, <2>4, <3>1
      <4>3. a = t \/ seq2idx(a) < seq2idx(t)
        BY <1>2, <2>1, <4>2
      <4>4. seq2idx(a) \in Int /\ seq2idx(t) \in Int
        BY <1>2, <4>2, SlotFacts
      <4> QED BY <3>1, <4>1, <4>3, <4>4
    <3>2. CASE b # t + 1
      BY <1>2, <1>10, <2>1, <2>4, <3>2
    <3> QED BY <3>1, <3>2
  <2> QED BY <2>2, <2>3, <2>4 DEF Chain
<1>19. Filled(C2, L2, I2, h, t + 1)
  <2> SUFFICES ASSUME NEW q \in h .. t, NEW d \in C2[L2[q]]
               PROVE  d.items[seq2idx(q)] = I2[q]
    BY <1>2 DEF Filled
  <2>1. q \in Nat /\ L2[q] = L[q] /\ L[q] \in Pages
    BY <1>2, <1>10
  <2>2. CASE q = t
    BY <1>2, <1>7, <1>11, <1>12, <2>1, <2>2
  <2>3. CASE q # t /\ L[q] = tp
    <3>1. q \in h .. t - 1 /\ t \in h .. t /\ q < t
      BY <1>2, <2>3
    <3>2. seq2idx(q) < seq2idx(t)
      BY <1>2, <1>3, <2>3, <3>1 DEF Chain
    <3>3. seq2idx(q) # seq2idx(t) /\ seq2idx(q) \in Slots
      BY <1>2, <1>6, <2>1, <3>2 DEF Slots
    <3> QED BY <1>5, <1>7, <1>11, <1>12, <2>1, <2>3, <3>1, <3>3
  <2>4. CASE q # t /\ L[q] # tp
    <3>1. q \in h .. t - 1
      BY <1>2, <2>4
    <3> QED BY <1>3, <1>11, <1>12, <2>1, <2>4, <3>1 DEF Filled
  <2> QED BY <2>2, <2>3, <2>4
<1>20. TreeOn(C2, T)
  <2>1. \A x \in DOMAIN T : x \in Pages /\ x # tp
    <3>1. DOMAIN T \subseteq Pages \ {0}
      BY PageMapFacts DEF Mem, MemTypes
    <3> QED BY <1>2, <1>3, <3>1 DEF Parts
  <2> QED BY <1>3, <1>12, <2>1 DEF TreeOn
<1>21. Writable(tp, s, L, I, M) /\ \A x \in DOMAIN s.updates : Writable(x, s, L, I, M)
  BY DEF Mem, Writes
<1>22. Stored(M, Mix(u, D), L2, I2)
  <2>1. KeepsTail(n, tp, L, I, M)
    <3> SUFFICES ASSUME tp = L[M.tailSeq], NEW q \in M.headSeq .. M.tailSeq - 1, L[q] = tp
                 PROVE  n.items[seq2idx(q)] = I[q]
      BY DEF KeepsTail
    <3>1. Chain(Mix(s.updates, D), L, M.headSeq, M.tailSeq)
      BY DEF Mem, Stored
    <3>2. seq2idx(q) < seq2idx(M.tailSeq)
      <4>1. q \in M.headSeq .. M.tailSeq /\ M.tailSeq \in M.headSeq .. M.tailSeq /\ q < M.tailSeq
        BY <1>2
      <4> QED BY <3>1, <4>1 DEF Chain
    <3>3. M.tailSeq = t \/ seq2idx(M.tailSeq) < seq2idx(t)
      <4>1. M.tailSeq \in h .. t /\ t \in h .. t /\ (M.tailSeq = t \/ M.tailSeq < t)
        BY <1>2
      <4> QED BY <1>2, <1>3, <4>1 DEF Chain
    <3>4. q \in Nat
      BY <1>2
    <3>5. seq2idx(q) \in Slots /\ seq2idx(q) # seq2idx(t)
      BY <1>2, <1>6, <3>2, <3>3, <3>4 DEF Slots
    <3> QED BY <1>5, <1>7, <3>5
  <2>2. Agree(L, I, L2, I2, M)
    BY <1>2, <1>10, <1>11 DEF Agree
  <2>3. Harmless(tp, L, M)
    BY <1>21, WritableHarmless
  <2> QED BY <1>2, <1>7, <2>1, <2>2, <2>3, StoredPut DEF u
<1>23. Writes(z, X \ {p}, Y, L2, I2, M)
  <2>1. \A x : Writable(x, s, L, I, M) => Writable(x, z, L2, I2, M)
    BY <1>2, <1>9, <1>10, <1>11 DEF Writable, lim
  <2>2. \A q \in M.tailSeq .. t : L2[q] \in DOMAIN u
    <3>1. \A q \in M.tailSeq .. t - 1 : L[q] \in DOMAIN s.updates
      BY DEF Mem, Writes
    <3> QED BY <1>2, <1>8, <1>10, <3>1
  <2>3. /\ Y \subseteq X /\ (\A x \in Y : x \notin DOMAIN s.updates /\ Writable(x, s, L, I, M))
        /\ tp \notin X
    BY <1>2, <1>3 DEF Mem, Writes, Parts
  <2> QED BY <1>2, <1>8, <1>9, <1>21, <2>1, <2>2, <2>3 DEF Writes
<1>24. Mem(z, T, X \ {p}, Y, L2, I2, e2, M, D)
  BY <1>9, <1>13, <1>14, <1>15, <1>17, <1>18, <1>19, <1>20, <1>22, <1>23 DEF Mem, C2
<1> QED BY <1>9, <1>10, <1>11, <1>24 DEF z, PushDone

-----------------------------------------------------------------------------
(* Other single steps.                                                     *)

\* A page in hand that the commit may write gets contents.
PutDone(z, s, p, n, T, X, Y, L, I, e, M, D) ==
    /\ Mem(z, T, X, Y \ {p}, L, I, e, M, D)
    /\ Frame(s, z) /\ z.tailPage = s.tailPage
    /\ z.nappend = s.nappend /\ z.flushed = s.flushed
    /\ z.headSeq = s.headSeq /\ z.tailSeq = s.tailSeq
    /\ View(z.updates, D)[p] = {n}

LEMMA PutMem ==
    ASSUME NEW s, NEW T, NEW X, NEW Y, NEW L, NEW I, NEW e, NEW M, NEW D,
           Mem(s, T, X, Y, L, I, e, M, D),
           NEW p \in X, NEW n \in Node, Writable(p, s, L, I, M)
    PROVE  PutDone(Put(s, p, n), s, p, n, T, X, Y, L, I, e, M, D)
<1> DEFINE z == Put(s, p, n)
           C == View(s.updates, D)
           C2 == View(z.updates, D)
<1>1. Numbers(s, L, I, e, M)
  BY MemNumbers
<1>2. Parts(DOMAIN T, X, L, I, s.headSeq, e, s.tailSeq, s.flushed + s.nappend)
  BY DEF Mem
<1>3. p \in Pages \ {0} /\ p \notin DOMAIN T /\ \A q \in s.headSeq .. e : L[q] # p
  BY <1>1, <1>2, BoundsAssumption DEF Parts, Pages, Numbers
<1>4. With(s.updates, p, n) \in PageMaps(Node) /\ DOMAIN With(s.updates, p, n) = DOMAIN s.updates \cup {p}
  BY <1>1, <1>3, UpdateFacts DEF Numbers
<1>5. /\ z \in KVRecord /\ z.updates = With(s.updates, p, n)
      /\ z.headSeq = s.headSeq /\ z.headPage = s.headPage /\ z.tailSeq = s.tailSeq
      /\ z.tailPage = s.tailPage /\ z.flushed = s.flushed /\ z.nappend = s.nappend /\ Frame(s, z)
  BY <1>1, <1>4 DEF Put, KVRecord, Numbers, Frame
<1> HIDE DEF z
<1>6. C2[p] = {n} /\ \A x \in Pages : x # p => C2[x] = C[x]
  BY <1>1, <1>3, <1>5, PutView DEF Numbers
<1> HIDE DEF C, C2
<1>7. MemTypes(z, T, L, I, e, M) /\ Ends(z, L, e, M) /\ Moved(z, T, X, L, I, M)
  BY <1>5 DEF Mem, MemTypes, Ends, Moved, Frame
<1>8. Parts(DOMAIN T, X, L, I, z.headSeq, e, z.tailSeq, z.flushed + z.nappend)
  BY <1>2, <1>5
<1>9. \A q \in s.headSeq .. e : L[q] \in Pages /\ C2[L[q]] = C[L[q]]
  BY <1>1, <1>3, <1>6 DEF Numbers
<1>10. Chain(C2, L, z.headSeq, e)
  <2>1. Chain(C, L, s.headSeq, e)
    BY DEF Mem, C
  <2>2. \A q \in s.headSeq .. e - 1 : q \in s.headSeq .. e
    BY <1>1 DEF Numbers
  <2> QED BY <1>5, <1>9, <2>1, <2>2 DEF Chain
<1>11. Filled(C2, L, I, z.headSeq, z.tailSeq)
  <2>1. Filled(C, L, I, s.headSeq, s.tailSeq)
    BY DEF Mem, C
  <2>2. \A q \in s.headSeq .. s.tailSeq - 1 : q \in s.headSeq .. e
    BY <1>1 DEF Numbers
  <2> QED BY <1>5, <1>9, <2>1, <2>2 DEF Filled
<1>12. TreeOn(C2, T)
  <2>1. TreeOn(C, T) /\ DOMAIN T \subseteq Pages \ {0}
    BY PageMapFacts DEF Mem, C, MemTypes
  <2> QED BY <1>3, <1>6, <2>1 DEF TreeOn
<1>13. Stored(M, Mix(z.updates, D), L, I)
  <2>1. M.tailSeq \in s.headSeq .. e
    BY <1>1 DEF Numbers
  <2>2. KeepsTail(n, p, L, I, M) /\ Agree(L, I, L, I, M)
    BY <1>3, <2>1 DEF KeepsTail, Agree
  <2>3. Harmless(p, L, M)
    BY WritableHarmless
  <2> QED BY <1>3, <1>5, <2>2, <2>3, StoredPut
<1>14. Writes(z, X, Y \ {p}, L, I, M)
  BY <1>4, <1>5 DEF Mem, Writes, Writable
<1>15. Mem(z, T, X, Y \ {p}, L, I, e, M, D)
  BY <1>7, <1>8, <1>10, <1>11, <1>12, <1>13, <1>14 DEF Mem, C2
<1> QED BY <1>5, <1>6, <1>15 DEF z, C2, PutDone

\* A page that pageAppend takes is not one that this commit has written.
LEMMA AppendFresh ==
    ASSUME NEW s, NEW T, NEW X, NEW Y, NEW L, NEW I, NEW e, NEW M, NEW D,
           Mem(s, T, X, Y, L, I, e, M, D)
    PROVE  s.flushed + s.nappend \notin DOMAIN s.updates
<1> DEFINE p == s.flushed + s.nappend
<1> SUFFICES ASSUME p \in DOMAIN s.updates PROVE FALSE
  OBVIOUS
<1>1. Numbers(s, L, I, e, M)
  BY MemNumbers
<1>2. Writable(p, s, L, I, M)
  BY DEF Mem, Writes
<1>3. L[M.tailSeq] \in 1 .. p - 1
  <2>1. M.tailSeq \in s.headSeq .. e
    BY <1>1 DEF Numbers
  <2> QED BY <2>1 DEF Mem, Parts
<1>4. \A q \in M.headSeq .. s.headSeq - 1 : I[q].ptr \in 1 .. M.flushed - 1
  <2>1. Parts(DOMAIN M.tree, {}, L, I, M.headSeq, M.tailSeq, M.tailSeq, M.flushed)
    BY DEF Mem, Stored
  <2> QED BY <1>1, <2>1 DEF Parts, Numbers
<1>5. p \in Nat /\ p >= M.flushed /\ M.flushed \in Nat /\ p \notin M.flushed .. s.flushed + s.nappend - 1
  BY <1>1 DEF Numbers
<1>6. p # L[M.tailSeq]
  BY <1>3, <1>5
<1> QED BY <1>2, <1>4, <1>5, <1>6 DEF Writable

\* The file grows by a page.
Grow(s) == [s EXCEPT !.nappend = @ + 1]

LEMMA GrowMem ==
    ASSUME NEW s, NEW T, NEW X, NEW Y, NEW L, NEW I, NEW e, NEW M, NEW D,
           Mem(s, T, X, Y, L, I, e, M, D), s.flushed + s.nappend < MaxPages
    PROVE  LET p == s.flushed + s.nappend
           IN  /\ Mem(Grow(s), T, X \cup {p}, Y, L, I, e, M, D)
               /\ Writable(p, Grow(s), L, I, M)
               /\ p \in Pages \ {0} /\ p \notin X /\ p \notin DOMAIN T /\ p \notin DOMAIN s.updates
               /\ Frame(s, Grow(s)) /\ Grow(s).tailPage = s.tailPage
               /\ Grow(s).nappend = s.nappend + 1 /\ Grow(s).flushed = s.flushed
               /\ Grow(s).headSeq = s.headSeq /\ Grow(s).tailSeq = s.tailSeq
<1> DEFINE p == s.flushed + s.nappend
           z == Grow(s)
<1>1. Numbers(s, L, I, e, M)
  BY MemNumbers
<1>2. Parts(DOMAIN T, X, L, I, s.headSeq, e, s.tailSeq, p)
  BY DEF Mem
<1>3. L[e] \in 1 .. p - 1
  BY <1>1, <1>2 DEF Parts, Numbers
<1>4. p \in Nat /\ p > 0 /\ p \in Pages \ {0}
  BY <1>1, <1>3, BoundsAssumption DEF Numbers, Pages
<1>5. /\ z \in KVRecord /\ z.updates = s.updates
      /\ z.headSeq = s.headSeq /\ z.headPage = s.headPage /\ z.tailSeq = s.tailSeq
      /\ z.tailPage = s.tailPage /\ z.flushed = s.flushed /\ z.nappend = s.nappend + 1
      /\ Frame(s, z)
  <2>1. s \in KVRecord /\ s.nappend + 1 \in Nat
    BY <1>1 DEF Numbers
  <2> QED BY <2>1 DEF Grow, KVRecord, Frame
<1> HIDE DEF z
<1>6. z.flushed + z.nappend = p + 1
  BY <1>1, <1>5 DEF Numbers
<1>7. /\ p \notin X /\ p \notin DOMAIN T /\ (\A q \in s.headSeq .. e : L[q] # p)
      /\ (\A q \in s.headSeq .. s.tailSeq - 1 : I[q].ptr # p)
      /\ \A x \in 1 .. p : x = p \/ x \in 1 .. p - 1
      /\ 1 .. p - 1 \subseteq 1 .. p /\ p \in 1 .. p /\ (p + 1) - 1 = p
  <2>1. p \in Nat /\ p > 0
    BY <1>4
  <2> HIDE DEF p
  <2>2. p \notin 1 .. p - 1 /\ (\A x \in 1 .. p : x = p \/ x \in 1 .. p - 1)
        /\ (\A x \in 1 .. p - 1 : x \in 1 .. p) /\ p \in 1 .. p /\ (p + 1) - 1 = p
    BY <2>1
  <2>3. /\ X \subseteq 1 .. p - 1 /\ DOMAIN T \subseteq 1 .. p - 1
        /\ \A q \in s.headSeq .. e : L[q] \in 1 .. p - 1
        /\ \A q \in s.headSeq .. s.tailSeq - 1 : I[q].ptr \in 1 .. p - 1
    BY <1>2 DEF Parts
  <2> QED BY <2>2, <2>3, Zenon
<1>8. Parts(DOMAIN T, X \cup {p}, L, I, z.headSeq, e, z.tailSeq, p + 1)
  <2> DEFINE X2 == X \cup {p}
             h == s.headSeq
             t == s.tailSeq
             P == DOMAIN T
  <2>0. Parts(P, X, L, I, h, e, t, p)
    BY <1>2
  <2> HIDE DEF h, t, P, p
  <2>1. P \subseteq 1 .. p /\ X2 \subseteq 1 .. p /\ P \cap X2 = {}
    BY <1>7, <2>0 DEF Parts, P
  <2>2. \A q \in h .. e : L[q] \in 1 .. p /\ L[q] \notin P /\ L[q] \notin X2
    BY <1>7, <2>0 DEF Parts, h
  <2>3. \A q \in h .. t - 1 : I[q].ptr \in 1 .. p /\ I[q].ptr \notin P /\ I[q].ptr \notin X2
    BY <1>7, <2>0 DEF Parts, h, t
  <2>4. \A x \in 1 .. p : \/ x \in P \/ x \in X2
                          \/ \E q \in h .. e : x = L[q]
                          \/ \E q \in h .. t - 1 : x = I[q].ptr
    BY <1>7, <2>0 DEF Parts
  <2>5. /\ \A q \in h .. t - 1 : \A x \in h .. e : L[x] # I[q].ptr
        /\ \A q, x \in h .. t - 1 : x # q => I[x].ptr # I[q].ptr
    BY <2>0 DEF Parts
  <2> HIDE DEF X2
  <2>6. Parts(P, X2, L, I, h, e, t, p + 1)
    BY <1>7, <2>1, <2>2, <2>3, <2>4, <2>5, Zenon DEF Parts
  <2> QED BY <1>5, <2>6 DEF h, t, P, X2
<1>9. MemTypes(z, T, L, I, e, M) /\ Ends(z, L, e, M) /\ Moved(z, T, X \cup {p}, L, I, M)
  <2>1. p + 1 <= MaxPages
    BY <1>4, BoundsAssumption
  <2> QED BY <1>5, <1>6, <2>1 DEF Mem, MemTypes, Ends, Moved, Frame
<1>10. Writable(p, z, L, I, M)
  <2>1. p \in M.flushed .. z.flushed + z.nappend - 1
    BY <1>1, <1>4, <1>5, <1>6 DEF Numbers
  <2> QED BY <2>1 DEF Writable
<1>11. \A x : Writable(x, s, L, I, M) => Writable(x, z, L, I, M)
  BY <1>1, <1>4, <1>5, <1>6 DEF Writable, Numbers
<1>12. p \notin DOMAIN s.updates
  BY AppendFresh
<1>13. Writes(z, X \cup {p}, Y, L, I, M)
  BY <1>5, <1>11 DEF Mem, Writes
<1>14. Mem(z, T, X \cup {p}, Y, L, I, e, M, D)
  BY <1>5, <1>6, <1>8, <1>9, <1>13 DEF Mem
<1> QED BY <1>4, <1>5, <1>7, <1>10, <1>12, <1>14 DEF z

\* A full tail node gets a successor.
Link(s, f, ptr) ==
    [Put(s, s.tailPage, setNext(pageWrite(s, f, s.tailPage), ptr)) EXCEPT !.tailPage = ptr]

LinkDone(z, s, p, T, X, Y, I, M, D) ==
    /\ Frame(s, z) /\ z.nappend = s.nappend /\ z.tailSeq = s.tailSeq
    /\ z.flushed = s.flushed /\ z.tailPage = p
    /\ \E L2 \in [Nat -> Pages] : Mem(z, T, X \ {p}, Y \ {p}, L2, I, s.tailSeq, M, D)

LEMMA LinkMem ==
    ASSUME NEW s, NEW T, NEW X, NEW Y, NEW L, NEW I, NEW e, NEW M, NEW D, NEW f,
           Mem(s, T, X, Y, L, I, e, M, D), Reads(f, D), e # s.tailSeq,
           NEW p \in X, Writable(p, s, L, I, M)
    PROVE  LinkDone(Link(s, f, p), s, p, T, X, Y, I, M, D)
<1> DEFINE h == s.headSeq
           t == s.tailSeq
           tp == s.tailPage
           lim == s.flushed + s.nappend
           n == setNext(pageWrite(s, f, tp), p)
           u == With(s.updates, tp, n)
           z == Link(s, f, p)
           L2 == [L EXCEPT ![t] = p]
           C == View(s.updates, D)
           C2 == View(u, D)
<1>1. Numbers(s, L, I, e, M)
  BY MemNumbers
<1>2. /\ h \in Nat /\ t \in Nat /\ e \in Nat /\ e + 1 = t /\ h <= e /\ M.tailSeq <= e
      /\ M.headSeq <= h /\ h <= M.tailSeq /\ lim \in Nat
      /\ tp \in Pages \ {0} /\ tp = L[e] /\ tp \in Pages
      /\ L \in [Nat -> Pages] /\ seq2idx(t) = 0
      /\ M.tailSeq \in Nat /\ M.headSeq \in Nat
  <2>1. L \in [Nat -> Pages] /\ (e = t \/ (e + 1 = t /\ seq2idx(t) = 0))
    BY DEF Mem, MemTypes, Ends
  <2> QED BY <1>1, <2>1 DEF Numbers
<1>3. Parts(DOMAIN T, X, L, I, h, e, t, lim) /\ Chain(C, L, h, e) /\ Filled(C, L, I, h, t)
      /\ TreeOn(C, T)
  BY DEF Mem
<1>4. p \in 1 .. lim - 1 /\ p \notin DOMAIN T /\ p \in Pages \ {0} /\ (\A q \in h .. e : L[q] # p)
      /\ (\A q \in h .. t - 1 : I[q].ptr # p) /\ tp \notin X /\ tp # p
  <2>1. e \in h .. e
    BY <1>2
  <2>2. p \in 1 .. lim - 1 /\ p \notin DOMAIN T /\ (\A q \in h .. e : L[q] # p)
        /\ (\A q \in h .. t - 1 : I[q].ptr # p) /\ tp \notin X /\ tp # p
    BY <1>2, <1>3, <2>1 DEF Parts
  <2>3. p \in Pages \ {0}
    BY <1>1, <1>2, <2>2, BoundsAssumption DEF Pages, Numbers
  <2> QED BY <2>2, <2>3
<1>5. /\ pageWrite(s, f, tp) \in Node
      /\ \A q \in h .. t - 1 : L[q] = tp => pageWrite(s, f, tp).items[seq2idx(q)] = I[q]
      /\ \A q \in M.headSeq .. M.tailSeq - 1 : L[q] = tp => pageWrite(s, f, tp).items[seq2idx(q)] = I[q]
  BY TailNode
<1>6. n \in Node /\ n.next = p /\ n.items = pageWrite(s, f, tp).items
  BY <1>4, <1>5, SetNextFacts
<1> HIDE DEF n
<1>7. u \in PageMaps(Node) /\ DOMAIN u = DOMAIN s.updates \cup {tp}
  BY <1>1, <1>2, <1>6, UpdateFacts DEF Numbers
<1>8. /\ z \in KVRecord
      /\ z.headSeq = h /\ z.headPage = s.headPage /\ z.tailSeq = t /\ z.tailPage = p
      /\ z.flushed = s.flushed /\ z.nappend = s.nappend /\ z.flushed + z.nappend = lim
      /\ z.updates = u /\ Frame(s, z)
  <2>1. s \in KVRecord /\ p \in Pages
    BY <1>1, <1>4 DEF Numbers
  <2> QED BY <1>7, <2>1 DEF Link, Put, KVRecord, n, Frame
<1> HIDE DEF z
<1>9. L2 \in [Nat -> Pages] /\ \A q \in Nat : L2[q] = IF q = t THEN p ELSE L[q]
  BY <1>2, <1>4
<1>10. C2[tp] = {n} /\ \A x \in Pages : x # tp => C2[x] = C[x]
  BY <1>1, <1>2, <1>6, PutView DEF Numbers
<1> HIDE DEF L2, u, C, C2, lim
<1>11. /\ \A q \in h .. e : q \in Nat /\ q # t /\ L2[q] = L[q] /\ L[q] \in Pages
       /\ \A q \in h .. t : q \in Nat /\ (q = t \/ q \in h .. e)
       /\ \A q \in h .. t - 1 : q \in h .. e
       /\ L2[t] = p /\ t \in h .. t /\ \A q \in h .. e : q \in h .. t
  BY <1>2, <1>9
<1>12. MemTypes(z, T, L2, I, t, M)
  BY <1>2, <1>8, <1>9 DEF Mem, MemTypes, lim
<1>13. Ends(z, L2, t, M)
  BY <1>1, <1>2, <1>8, <1>9 DEF Ends, Numbers, Frame
<1>14. Moved(z, T, X \ {p}, L2, I, M)
  <2>1. Moved(s, T, X, L, I, M) /\ z.maxVer = s.maxVer /\ z.curVer = s.curVer
    BY <1>8 DEF Mem, Frame
  <2>2. p \notin DOMAIN M.tree
    BY WritableHarmless DEF Harmless
  <2> QED BY <1>8, <2>1, <2>2 DEF Moved
<1>15. Parts(DOMAIN T, X \ {p}, L2, I, h, t, t, lim)
  BY <1>3, <1>4, <1>11 DEF Parts
<1>16. Chain(C2, L2, h, t)
  <2>1. \A a, b \in h .. e : a < b /\ L[a] = L[b] => seq2idx(a) < seq2idx(b)
    BY <1>3 DEF Chain
  <2>2. ASSUME NEW q \in h .. t - 1, seq2idx(q + 1) # 0 PROVE L2[q + 1] = L2[q]
    <3>1. q \in h .. e - 1 /\ q \in h .. e /\ q + 1 \in h .. e
      BY <1>2, <2>2
    <3>2. L[q + 1] = L[q]
      BY <1>3, <2>2, <3>1 DEF Chain
    <3> QED BY <1>11, <3>1, <3>2
  <2>3. ASSUME NEW q \in h .. t - 1, seq2idx(q + 1) = 0, NEW d \in C2[L2[q]]
        PROVE  d.next = L2[q + 1]
    <3>1. CASE q = e
      BY <1>2, <1>6, <1>10, <1>11, <2>3, <3>1
    <3>2. CASE q # e
      <4>1. q \in h .. e - 1 /\ q \in h .. e /\ q + 1 \in h .. e /\ q < e /\ e \in h .. e /\ q \in Nat
        BY <1>2, <3>2
      <4>2. L[q] # tp
        <5>1. seq2idx(q) = Cap - 1 /\ seq2idx(e) \in 0 .. Cap - 1
          BY <1>2, <2>3, <4>1, SlotFacts
        <5>2. L[q] = L[e] => seq2idx(q) < seq2idx(e)
          BY <2>1, <4>1
        <5> QED BY <1>2, <5>1, <5>2, CapAssumption
      <4>3. C2[L2[q]] = C[L[q]] /\ L2[q + 1] = L[q + 1]
        BY <1>10, <1>11, <4>1, <4>2
      <4> QED BY <1>3, <2>3, <4>1, <4>3 DEF Chain
    <3> QED BY <3>1, <3>2
  <2>4. ASSUME NEW a \in h .. t, NEW b \in h .. t, a < b, L2[a] = L2[b]
        PROVE  seq2idx(a) < seq2idx(b)
    <3>1. a \in h .. e
      BY <1>2, <2>4
    <3>2. CASE b = t
      BY <1>4, <1>11, <2>4, <3>1, <3>2
    <3>3. CASE b # t
      BY <1>11, <2>1, <2>4, <3>1, <3>3
    <3> QED BY <3>2, <3>3
  <2> QED BY <2>2, <2>3, <2>4 DEF Chain
<1>17. Filled(C2, L2, I, h, t)
  <2> SUFFICES ASSUME NEW q \in h .. t - 1, NEW d \in C2[L2[q]]
               PROVE  d.items[seq2idx(q)] = I[q]
    BY DEF Filled
  <2>1. CASE L[q] = tp
    BY <1>5, <1>6, <1>10, <1>11, <2>1
  <2>2. CASE L[q] # tp
    BY <1>3, <1>10, <1>11, <2>2 DEF Filled
  <2> QED BY <2>1, <2>2
<1>18. TreeOn(C2, T)
  <2>1. \A x \in DOMAIN T : x \in Pages /\ x # tp
    <3>1. DOMAIN T \subseteq Pages \ {0}
      BY PageMapFacts DEF Mem, MemTypes
    <3> QED BY <1>2, <1>3, <3>1 DEF Parts
  <2> QED BY <1>3, <1>10, <2>1 DEF TreeOn
<1>19. Writable(tp, s, L, I, M) /\ \A x \in DOMAIN s.updates : Writable(x, s, L, I, M)
  BY DEF Mem, Writes
<1>20. Stored(M, Mix(u, D), L2, I)
  <2>1. KeepsTail(n, tp, L, I, M)
    BY <1>5, <1>6 DEF KeepsTail
  <2>2. Agree(L, I, L2, I, M)
    BY <1>2, <1>9 DEF Agree
  <2>3. Harmless(tp, L, M)
    BY <1>19, WritableHarmless
  <2> QED BY <1>2, <1>6, <2>1, <2>2, <2>3, StoredPut DEF u
<1>21. Writes(z, X \ {p}, Y \ {p}, L2, I, M)
  <2>1. \A x : Writable(x, s, L, I, M) => Writable(x, z, L2, I, M)
    BY <1>2, <1>8, <1>9 DEF Writable, lim
  <2>2. \A q \in M.tailSeq .. t - 1 : L2[q] \in DOMAIN u
    <3>1. \A q \in M.tailSeq .. t - 1 : L[q] \in DOMAIN s.updates
      BY DEF Mem, Writes
    <3> QED BY <1>2, <1>7, <1>9, <3>1
  <2>3. Y \subseteq X /\ (\A x \in Y : x \notin DOMAIN s.updates /\ Writable(x, s, L, I, M))
    BY DEF Mem, Writes
  <2> QED BY <1>4, <1>7, <1>8, <1>19, <2>1, <2>2, <2>3 DEF Writes
<1>22. Mem(z, T, X \ {p}, Y \ {p}, L2, I, t, M, D)
  BY <1>8, <1>12, <1>13, <1>14, <1>15, <1>16, <1>17, <1>18, <1>20, <1>21 DEF Mem, C2
<1> QED BY <1>8, <1>9, <1>22 DEF z, LinkDone

\* A page of the tree is given up.
LEMMA DropMem ==
    ASSUME NEW s, NEW T, NEW X, NEW Y, NEW L, NEW I, NEW e, NEW M, NEW D,
           Mem(s, T, X, Y, L, I, e, M, D), NEW p \in DOMAIN T
    PROVE  /\ Mem(s, Without(T, p), X \cup {p}, Y, L, I, e, M, D)
           /\ p \notin X
<1> DEFINE T2 == Without(T, p)
           S == 1 .. MaxAttempts
<1> HIDE DEF S
<1>1. T \in PageMaps(S)
  BY DEF Mem, MemTypes, S
<1>2. /\ T2 \in PageMaps(S) /\ DOMAIN T2 = DOMAIN T \ {p}
      /\ \A q \in DOMAIN T : q # p => T2[q] = T[q]
  BY <1>1, WithoutFacts
<1> HIDE DEF T2
<1>3. MemTypes(s, T2, L, I, e, M) /\ Moved(s, T2, X \cup {p}, L, I, M)
  <2>1. MemTypes(s, T2, L, I, e, M)
    BY <1>2 DEF Mem, MemTypes, S
  <2>2. Moved(s, T, X, L, I, M)
    BY DEF Mem
  <2>3. Moved(s, T2, X \cup {p}, L, I, M)
    BY <1>2, <2>2 DEF Moved
  <2> QED BY <2>1, <2>3
<1>4. Parts(DOMAIN T2, X \cup {p}, L, I, s.headSeq, e, s.tailSeq, s.flushed + s.nappend) /\ p \notin X
  BY <1>2 DEF Mem, Parts
<1>5. TreeOn(View(s.updates, D), T2)
  BY <1>2 DEF Mem, TreeOn
<1>6. Writes(s, X \cup {p}, Y, L, I, M)
  BY DEF Mem, Writes
<1> QED BY <1>3, <1>4, <1>5, <1>6 DEF Mem, T2

\* A page that has been written becomes one of the tree.
LEMMA AdoptMem ==
    ASSUME NEW s, NEW T, NEW X, NEW Y, NEW L, NEW I, NEW e, NEW M, NEW D,
           Mem(s, T, X, Y, L, I, e, M, D), NEW p \in X, p \notin Y, Writable(p, s, L, I, M),
           NEW tag \in 1 .. MaxAttempts, \A d \in View(s.updates, D)[p] : d.tag = tag
    PROVE  Mem(s, With(T, p, tag), X \ {p}, Y, L, I, e, M, D)
<1> DEFINE T2 == With(T, p, tag)
           S == 1 .. MaxAttempts
<1>1. T \in PageMaps(S) /\ Numbers(s, L, I, e, M)
  BY MemNumbers DEF Mem, MemTypes
<1>2. Parts(DOMAIN T, X, L, I, s.headSeq, e, s.tailSeq, s.flushed + s.nappend)
  BY DEF Mem
<1>3. p \in Pages \ {0} /\ p \notin DOMAIN T /\ p \notin DOMAIN M.tree
  <2>1. Harmless(p, L, M)
    BY WritableHarmless
  <2>2. p \in 1 .. (s.flushed + s.nappend) - 1 /\ p \notin DOMAIN T
    BY <1>2 DEF Parts
  <2>3. p \in Pages \ {0}
    <3> DEFINE lim == s.flushed + s.nappend
    <3>1. lim \in Nat /\ lim <= MaxPages
      <4>1. s.flushed \in Nat /\ s.nappend \in Nat /\ s.flushed + s.nappend <= MaxPages
        BY <1>1 DEF Numbers
      <4> QED BY <4>1
    <3>2. p \in 1 .. lim - 1
      BY <2>2
    <3> HIDE DEF lim
    <3>3. p \in 0 .. MaxPages - 1 /\ p # 0
      BY <3>1, <3>2, BoundsAssumption
    <3> QED BY <3>3 DEF Pages
  <2> QED BY <2>1, <2>2, <2>3 DEF Harmless
<1>4. tag \in S
  OBVIOUS
<1> HIDE DEF S
<1>5. /\ T2 \in PageMaps(S) /\ DOMAIN T2 = DOMAIN T \cup {p} /\ T2[p] = tag
      /\ \A q \in DOMAIN T : q # p => T2[q] = T[q]
  <2>1. T2 \in PageMaps(S)
    BY <1>1, <1>3, <1>4, WithFacts
  <2> QED BY <2>1 DEF With
<1> HIDE DEF T2
<1>6. MemTypes(s, T2, L, I, e, M)
  BY <1>5 DEF Mem, MemTypes, S
<1>7. Moved(s, T2, X \ {p}, L, I, M)
  BY <1>3, <1>5 DEF Mem, Moved
<1>8. Parts(DOMAIN T2, X \ {p}, L, I, s.headSeq, e, s.tailSeq, s.flushed + s.nappend)
  BY <1>2, <1>3, <1>5 DEF Parts
<1>9. TreeOn(View(s.updates, D), T2)
  BY <1>3, <1>5 DEF Mem, TreeOn
<1>10. Writes(s, X \ {p}, Y, L, I, M)
  BY DEF Mem, Writes
<1> QED BY <1>6, <1>7, <1>8, <1>9, <1>10 DEF Mem, T2

-----------------------------------------------------------------------------
(* The operations, put together from the steps.                            *)

\* pageAppend is a page more, with contents.
AppendDone(z, p, s, n, T, X, Y, L, I, e, M, D) ==
    /\ Mem(z, T, X \cup {p}, Y, L, I, e, M, D)
    /\ Writable(p, z, L, I, M) /\ View(z.updates, D)[p] = {n}
    /\ p \in Pages \ {0} /\ p \notin X /\ p \notin DOMAIN T
    /\ Frame(s, z) /\ z.tailPage = s.tailPage /\ z.tailSeq = s.tailSeq
    /\ z.flushed = s.flushed /\ z.nappend = s.nappend + 1

LEMMA AppendMem ==
    ASSUME NEW s, NEW T, NEW X, NEW Y, NEW L, NEW I, NEW e, NEW M, NEW D,
           Mem(s, T, X, Y, L, I, e, M, D), s.flushed + s.nappend < MaxPages, NEW n \in Node
    PROVE  AppendDone(pageAppend(s, n).s, pageAppend(s, n).ptr, s, n, T, X, Y, L, I, e, M, D)
<1> DEFINE p == s.flushed + s.nappend
           g == Grow(s)
           z == Put(g, p, n)
           X1 == X \cup {p}
<1>1. Numbers(s, L, I, e, M)
  BY MemNumbers
<1>2. /\ Mem(g, T, X1, Y, L, I, e, M, D)
      /\ Writable(p, g, L, I, M)
      /\ p \in Pages \ {0} /\ p \notin X /\ p \notin DOMAIN T
      /\ Frame(s, g) /\ g.tailPage = s.tailPage
      /\ g.nappend = s.nappend + 1 /\ g.flushed = s.flushed
      /\ g.headSeq = s.headSeq /\ g.tailSeq = s.tailSeq
  BY GrowMem
<1>3. pageAppend(s, n).ptr = p /\ pageAppend(s, n).s = z
  <2>1. s \in KVRecord
    BY <1>1 DEF Numbers
  <2>2. [Put(s, p, n) EXCEPT !.nappend = @ + 1] = Put(g, p, n)
    BY <2>1 DEF Put, Grow, KVRecord
  <2> QED BY <2>2 DEF pageAppend
<1>4. p \in X1
  OBVIOUS
<1> HIDE DEF p, g, z, X1
<1>5. /\ Mem(z, T, X1, Y \ {p}, L, I, e, M, D)
      /\ Frame(g, z) /\ z.tailPage = g.tailPage
      /\ z.nappend = g.nappend /\ z.flushed = g.flushed
      /\ z.headSeq = g.headSeq /\ z.tailSeq = g.tailSeq
      /\ View(z.updates, D)[p] = {n}
  <2>1. PutDone(z, g, p, n, T, X1, Y, L, I, e, M, D)
    BY <1>2, <1>4, PutMem DEF z
  <2> QED BY <2>1 DEF PutDone
<1>6. Y \ {p} = Y
  <2>1. Y \subseteq X
    BY DEF Mem, Writes
  <2> QED BY <1>2, <2>1
<1>7. Writable(p, z, L, I, M) /\ Frame(s, z)
  BY <1>2, <1>5 DEF Writable, Frame
<1>8. AppendDone(z, p, s, n, T, X, Y, L, I, e, M, D)
  BY <1>2, <1>5, <1>6, <1>7 DEF X1, AppendDone
<1> QED BY <1>3, <1>8

\* A blocked flPop does nothing.
LEMMA BlockedPop ==
    ASSUME NEW s, NEW f, flBlocked(s, f)
    PROVE  flPop(s, f).s = s /\ flPop(s, f).ptr = 0 /\ flPop(s, f).head = 0
BY DEF flPop

\* NewTail, where the full node has no successor, gives it one.
LEMMA NewTailMem ==
    ASSUME NEW s, NEW T, NEW X, NEW Y, NEW L, NEW I, NEW e, NEW M, NEW D, NEW f,
           Mem(s, T, X, Y, L, I, e, M, D), Reads(f, D), e # s.tailSeq,
           flBlocked(s, f) => s.flushed + s.nappend < MaxPages
    PROVE  LET z == NewTail(s, f)
           IN  /\ \E L2 \in [Nat -> Pages], I2 \in [Nat -> Item] :
                    Mem(z, T, X, Y, L2, I2, z.tailSeq, M, D)
               /\ Frame(s, z) /\ z.nappend \in {s.nappend, s.nappend + 1}
<1> DEFINE pop == flPop(s, f)
           page == IF pop.ptr # 0 THEN pop ELSE pageAppend(pop.s, Zero)
           tail == Link(page.s, f, page.ptr)
           z == NewTail(s, f)
<1>1. Numbers(s, L, I, e, M) /\ seq2idx(s.tailSeq) = 0 /\ I \in [Nat -> Item]
  BY MemNumbers DEF Mem, Ends, MemTypes
<1>2. page.s.tailPage = s.tailPage =>
          z = IF pop.head = 0 THEN tail
              ELSE [Put(tail, page.ptr, setItem(pageWrite(tail, f, page.ptr), 0, pop.head, s.curVer))
                        EXCEPT !.tailSeq = @ + 1]
  BY ZenonT(30) DEF NewTail, Link
<1> HIDE DEF z
<1>3. CASE flBlocked(s, f)
  <2>1. pop.s = s /\ pop.ptr = 0 /\ pop.head = 0 /\ page = pageAppend(s, Zero)
    BY <1>3, BlockedPop
  <2> DEFINE a == pageAppend(s, Zero)
             X1 == X \cup {a.ptr}
  <2>2. /\ Mem(a.s, T, X1, Y, L, I, e, M, D)
        /\ Writable(a.ptr, a.s, L, I, M)
        /\ a.ptr \in Pages \ {0} /\ a.ptr \notin X /\ a.ptr \notin DOMAIN T
        /\ Frame(s, a.s) /\ a.s.tailPage = s.tailPage /\ a.s.tailSeq = s.tailSeq
        /\ a.s.nappend = s.nappend + 1
    <3>1. Zero \in Node
      BY NodeFacts
    <3>2. AppendDone(a.s, a.ptr, s, Zero, T, X, Y, L, I, e, M, D)
      BY <1>3, <3>1, AppendMem
    <3> QED BY <3>2 DEF AppendDone
  <2>3. a.ptr \in X1 /\ e # a.s.tailSeq
    BY <2>2
  <2> HIDE DEF a, X1
  <2>4. /\ Frame(a.s, Link(a.s, f, a.ptr))
        /\ Link(a.s, f, a.ptr).nappend = a.s.nappend
        /\ Link(a.s, f, a.ptr).tailSeq = a.s.tailSeq
        /\ \E L2 \in [Nat -> Pages] :
             Mem(Link(a.s, f, a.ptr), T, X1 \ {a.ptr}, Y \ {a.ptr}, L2, I, a.s.tailSeq, M, D)
    <3>1. LinkDone(Link(a.s, f, a.ptr), a.s, a.ptr, T, X1, Y, I, M, D)
      BY <2>2, <2>3, LinkMem
    <3> QED BY <3>1 DEF LinkDone
  <2>5. X1 \ {a.ptr} = X /\ Y \ {a.ptr} = Y
    <3>1. Y \subseteq X
      BY DEF Mem, Writes
    <3> QED BY <2>2, <3>1 DEF X1
  <2>6. z = Link(a.s, f, a.ptr)
    BY <1>2, <2>1, <2>2 DEF a
  <2>7. Frame(s, z) /\ z.tailSeq = a.s.tailSeq /\ z.nappend = s.nappend + 1
    BY <2>2, <2>4, <2>6 DEF Frame
  <2> QED BY <1>1, <2>4, <2>5, <2>6, <2>7 DEF z
<1>4. CASE ~flBlocked(s, f)
  <2> DEFINE ptr == pop.ptr
             head == pop.head
             X1 == X \cup {ptr} \cup ({head} \ {0})
             X2 == X1 \ {ptr}
             Y1 == Y \cup {ptr}
  <2>1. /\ ptr \in Pages \ {0} /\ ptr \notin X /\ ptr \notin DOMAIN T
        /\ Writable(ptr, pop.s, L, I, M)
        /\ head # 0 => head \in Pages \ {0} /\ head \notin X /\ head # ptr
        /\ Mem(pop.s, T, X1, Y1, L, I, e, M, D)
    BY <1>4, PopMem
  <2>2. pop.s = Popped(s, L) /\ page = pop
    BY <1>4, <2>1, PopResult
  <2>3. /\ pop.s.tailPage = s.tailPage /\ pop.s.tailSeq = s.tailSeq /\ pop.s.nappend = s.nappend
        /\ Frame(s, pop.s)
    BY <1>1, <2>2 DEF Popped, KVRecord, Frame, Numbers
  <2>4. ptr \in X1 /\ e # pop.s.tailSeq
    BY <2>3
  <2>5. z = IF head = 0 THEN tail
            ELSE [Put(tail, ptr, setItem(pageWrite(tail, f, ptr), 0, head, s.curVer)) EXCEPT !.tailSeq = @ + 1]
    BY <1>2, <2>2, <2>3
  <2>6. tail = Link(pop.s, f, ptr)
    BY <2>2
  <2> HIDE DEF pop, ptr, head, tail, page, X1, X2, Y1
  <2>7. /\ Frame(pop.s, tail) /\ tail.nappend = pop.s.nappend
        /\ tail.tailSeq = pop.s.tailSeq /\ tail.tailPage = ptr
        /\ \E L2 \in [Nat -> Pages] :
             Mem(tail, T, X1 \ {ptr}, Y1 \ {ptr}, L2, I, pop.s.tailSeq, M, D)
    <3>1. LinkDone(tail, pop.s, ptr, T, X1, Y1, I, M, D)
      BY <2>1, <2>4, <2>6, LinkMem
    <3> QED BY <3>1 DEF LinkDone
  <2>8. Y1 \ {ptr} = Y /\ Y \subseteq X
    <3>1. Y \subseteq X
      BY DEF Mem, Writes
    <3> QED BY <2>1, <3>1 DEF Y1
  <2>9. PICK L2 \in [Nat -> Pages] : Mem(tail, T, X2, Y, L2, I, tail.tailSeq, M, D)
    BY <2>7, <2>8 DEF X2
  <2>10. Frame(s, tail) /\ tail.tailSeq = s.tailSeq /\ tail.nappend = s.nappend
    BY <2>3, <2>7 DEF Frame
  <2>11. CASE head = 0
    <3>1. X2 = X
      BY <2>1, <2>11 DEF X1, X2
    <3> QED BY <1>1, <2>5, <2>9, <2>10, <2>11, <3>1 DEF z
  <2>12. CASE head # 0
    <3>1. X2 \ {head} = X /\ head \in X2 /\ head \notin Y
      BY <2>1, <2>8, <2>12 DEF X1, X2
    <3>2. z = Push(tail, f, head)
      <4>1. tail.curVer = s.curVer /\ seq2idx(tail.tailSeq) = 0 /\ tail.tailPage = ptr
        BY <1>1, <2>7, <2>10 DEF Frame
      <4> QED BY <2>5, <2>12, <4>1 DEF Push
    <3>3. seq2idx(tail.tailSeq + 1) # 0
      BY <1>1, <2>10, SlotFacts DEF Numbers
    <3>4. /\ Frame(tail, z) /\ z.nappend = tail.nappend /\ z.tailSeq = tail.tailSeq + 1
          /\ \E L3 \in [Nat -> Pages], I3 \in [Nat -> Item] :
               Mem(z, T, X2 \ {head}, Y, L3, I3,
                   IF seq2idx(tail.tailSeq + 1) = 0 THEN tail.tailSeq ELSE tail.tailSeq + 1, M, D)
      <4>1. PushDone(z, tail, head, T, X2, Y, M, D)
        BY <2>9, <3>1, <3>2, PushMem
      <4> QED BY <4>1 DEF PushDone
    <3>5. \E L3 \in [Nat -> Pages], I3 \in [Nat -> Item] : Mem(z, T, X, Y, L3, I3, z.tailSeq, M, D)
      BY <3>1, <3>3, <3>4
    <3>6. Frame(s, z) /\ z.nappend = s.nappend
      BY <2>10, <3>4 DEF Frame
    <3> QED BY <3>5, <3>6 DEF z
  <2> QED BY <2>11, <2>12
<1> QED BY <1>3, <1>4

\* What an operation leaves: a store in memory that may have grown by a page.
Done(z, s, T, X, Y, M, D) ==
    /\ \E L2 \in [Nat -> Pages], I2 \in [Nat -> Item] : Mem(z, T, X, Y, L2, I2, z.tailSeq, M, D)
    /\ Frame(s, z) /\ z.nappend \in {s.nappend, s.nappend + 1}

\* PushTail takes a page in hand into the list.
LEMMA PushTailMem ==
    ASSUME NEW s, NEW T, NEW X, NEW Y, NEW L, NEW I, NEW M, NEW D, NEW f,
           Mem(s, T, X, Y, L, I, s.tailSeq, M, D), Reads(f, D), NEW p \in X, p \notin Y,
           s.flushed + s.nappend < MaxPages
    PROVE  Done(PushTail(s, f, p), s, T, X \ {p}, Y, M, D)
<1> DEFINE u == Push(s, f, p)
           X1 == X \ {p}
           e == IF seq2idx(s.tailSeq + 1) = 0 THEN s.tailSeq ELSE s.tailSeq + 1
<1>1. Numbers(s, L, I, s.tailSeq, M)
  BY MemNumbers
<1>2. PushDone(u, s, p, T, X, Y, M, D)
  BY PushMem
<1>3. PushTail(s, f, p) = IF seq2idx(u.tailSeq) = 0 THEN NewTail(u, f) ELSE u
  BY DEF PushTail, Push
<1> HIDE DEF u
<1>4. Frame(s, u) /\ u.nappend = s.nappend /\ u.tailSeq = s.tailSeq + 1
  BY <1>2 DEF PushDone
<1>5. PICK L2 \in [Nat -> Pages], I2 \in [Nat -> Item] : Mem(u, T, X1, Y, L2, I2, e, M, D)
  BY <1>2 DEF PushDone
<1> HIDE DEF X1
<1>6. CASE seq2idx(u.tailSeq) = 0
  <2> DEFINE z == NewTail(u, f)
  <2>1. e = s.tailSeq /\ e # u.tailSeq
    BY <1>1, <1>4, <1>6 DEF Numbers
  <2>2. u.flushed + u.nappend < MaxPages
    <3>1. u.flushed = M.flushed /\ s.flushed = M.flushed
      BY <1>5 DEF Mem, Ends
    <3> QED BY <1>4, <3>1
  <2> HIDE DEF e
  <2>3. /\ \E L3 \in [Nat -> Pages], I3 \in [Nat -> Item] : Mem(z, T, X1, Y, L3, I3, z.tailSeq, M, D)
        /\ Frame(u, z) /\ z.nappend \in {u.nappend, u.nappend + 1}
    BY <1>5, <2>1, <2>2, NewTailMem
  <2>4. Frame(s, z)
    BY <1>4, <2>3 DEF Frame
  <2> QED BY <1>3, <1>4, <1>6, <2>3, <2>4 DEF Done, X1
<1>7. CASE seq2idx(u.tailSeq) # 0
  <2>1. e = u.tailSeq
    BY <1>4, <1>7
  <2> QED BY <1>3, <1>4, <1>5, <1>7, <2>1 DEF Done, X1
<1> QED BY <1>6, <1>7

\* PopHead takes a page from the list into the hands of the caller, or none.
LEMMA PopHeadMem ==
    ASSUME NEW s, NEW T, NEW L, NEW I, NEW M, NEW D, NEW f,
           Mem(s, T, {}, {}, L, I, s.tailSeq, M, D), Reads(f, D),
           s.flushed + s.nappend < MaxPages
    PROVE  LET pop == PopHead(s, f)
           IN  /\ pop.ptr = 0 => pop.s = s
               /\ pop.ptr # 0 => /\ Done(pop.s, s, T, {pop.ptr}, {pop.ptr}, M, D)
                                 /\ pop.ptr \in Pages \ {0} /\ pop.ptr \notin DOMAIN T
<1> DEFINE pop == flPop(s, f)
           ptr == pop.ptr
           head == pop.head
           X1 == {ptr} \cup ({head} \ {0})
<1>1. Numbers(s, L, I, s.tailSeq, M) /\ L \in [Nat -> Pages] /\ I \in [Nat -> Item]
  BY MemNumbers DEF Mem, MemTypes
<1>2. PopHead(s, f).ptr = ptr
      /\ PopHead(s, f).s = IF head # 0 THEN PushTail(pop.s, f, head) ELSE pop.s
  BY DEF PopHead
<1>3. CASE flBlocked(s, f)
  BY <1>2, <1>3, BlockedPop
<1>4. CASE ~flBlocked(s, f)
  <2>1. /\ ptr \in Pages \ {0} /\ ptr \notin DOMAIN T
        /\ head # 0 => head # ptr
        /\ Mem(pop.s, T, {} \cup {ptr} \cup ({head} \ {0}), {} \cup {ptr}, L, I, s.tailSeq, M, D)
    BY <1>4, PopMem
  <2>2. Mem(pop.s, T, X1, {ptr}, L, I, s.tailSeq, M, D)
    <3>1. {} \cup {ptr} \cup ({head} \ {0}) = X1 /\ {} \cup {ptr} = {ptr}
      OBVIOUS
    <3> HIDE DEF pop, X1, ptr, head
    <3> QED BY <2>1, <3>1
  <2>3. pop.s = Popped(s, L)
    BY <1>4, PopResult
  <2>4. /\ pop.s.tailSeq = s.tailSeq /\ pop.s.nappend = s.nappend /\ pop.s.flushed = s.flushed
        /\ Frame(s, pop.s)
    BY <1>1, <2>3 DEF Popped, KVRecord, Frame, Numbers
  <2>5. head # 0 => head \in X1 /\ head \notin {ptr} /\ X1 \ {head} = {ptr}
    BY <2>1
  <2>6. head = 0 => X1 = {ptr}
    OBVIOUS
  <2> HIDE DEF pop, X1, ptr, head
  <2>7. CASE head = 0
    BY <1>1, <1>2, <2>1, <2>2, <2>4, <2>6, <2>7 DEF Done
  <2>8. CASE head # 0
    <3> DEFINE z == PushTail(pop.s, f, head)
    <3>1. Mem(pop.s, T, X1, {ptr}, L, I, pop.s.tailSeq, M, D) /\ pop.s.flushed + pop.s.nappend < MaxPages
      BY <2>2, <2>4
    <3>2. Done(z, pop.s, T, X1 \ {head}, {ptr}, M, D)
      BY <2>5, <2>8, <3>1, PushTailMem
    <3> HIDE DEF z
    <3>3. Done(z, s, T, {ptr}, {ptr}, M, D)
      BY <2>4, <2>5, <2>8, <3>2 DEF Done, Frame
    <3> QED BY <1>2, <2>1, <2>8, <3>3 DEF z
  <2> QED BY <2>7, <2>8
<1> QED BY <1>3, <1>4

\* pageAlloc makes a page of the tree out of a free or a new page.
AllocDone(z, p, s, tag, T, M, D) ==
    /\ Done(z, s, With(T, p, tag), {}, {}, M, D)
    /\ p \in Pages \ {0} /\ p \notin DOMAIN T

LEMMA AllocMem ==
    ASSUME NEW s, NEW T, NEW L, NEW I, NEW M, NEW D, NEW f,
           Mem(s, T, {}, {}, L, I, s.tailSeq, M, D), Reads(f, D),
           s.flushed + s.nappend < MaxPages, NEW tag \in 1 .. MaxAttempts
    PROVE  LET a == pageAlloc(s, f, TreePage(tag))
           IN  AllocDone(a.s, a.ptr, s, tag, T, M, D)
<1> DEFINE n == TreePage(tag)
           pop == PopHead(s, f)
           ptr == pop.ptr
           a == pageAlloc(s, f, n)
<1>1. Numbers(s, L, I, s.tailSeq, M) /\ L \in [Nat -> Pages] /\ I \in [Nat -> Item]
  BY MemNumbers DEF Mem, MemTypes
<1>2. n \in Node /\ n.tag = tag
  BY NodeFacts
<1>3. /\ ptr = 0 => pop.s = s
      /\ ptr # 0 => /\ Done(pop.s, s, T, {ptr}, {ptr}, M, D)
                    /\ ptr \in Pages \ {0} /\ ptr \notin DOMAIN T
  BY PopHeadMem
<1>4. /\ ptr # 0 => a.s = Put(pop.s, ptr, n) /\ a.ptr = ptr
      /\ ptr = 0 => a = pageAppend(pop.s, n)
  BY DEF pageAlloc
<1> HIDE DEF n, pop, ptr, a
<1>5. CASE ptr # 0
  <2> DEFINE z == Put(pop.s, ptr, n)
  <2>1. PICK L2 \in [Nat -> Pages], I2 \in [Nat -> Item] :
           Mem(pop.s, T, {ptr}, {ptr}, L2, I2, pop.s.tailSeq, M, D)
    BY <1>3, <1>5 DEF Done
  <2>2. Writable(ptr, pop.s, L2, I2, M)
    BY <2>1 DEF Mem, Writes
  <2>3. PutDone(z, pop.s, ptr, n, T, {ptr}, {ptr}, L2, I2, pop.s.tailSeq, M, D)
    <3>1. ptr \in {ptr}
      OBVIOUS
    <3> QED BY <1>2, <2>1, <2>2, <3>1, PutMem
  <2> HIDE DEF z
  <2>4. /\ Mem(z, T, {ptr}, {ptr} \ {ptr}, L2, I2, z.tailSeq, M, D)
        /\ Frame(pop.s, z) /\ z.nappend = pop.s.nappend /\ z.flushed = pop.s.flushed
        /\ z.headSeq = pop.s.headSeq /\ View(z.updates, D)[ptr] = {n}
    BY <2>3 DEF PutDone
  <2>5. Mem(z, T, {ptr}, {}, L2, I2, z.tailSeq, M, D)
    <3>1. {ptr} \ {ptr} = {}
      OBVIOUS
    <3> QED BY <2>4, <3>1
  <2>6. Writable(ptr, z, L2, I2, M)
    BY <2>2, <2>4 DEF Writable
  <2>7. Mem(z, With(T, ptr, tag), {ptr} \ {ptr}, {}, L2, I2, z.tailSeq, M, D)
    <3>1. \A d \in View(z.updates, D)[ptr] : d.tag = tag
      BY <1>2, <2>4
    <3>2. ptr \in {ptr} /\ ptr \notin {}
      OBVIOUS
    <3> QED BY <2>5, <2>6, <3>1, <3>2, AdoptMem
  <2>8. Mem(z, With(T, ptr, tag), {}, {}, L2, I2, z.tailSeq, M, D)
    <3>1. {ptr} \ {ptr} = {}
      OBVIOUS
    <3> QED BY <2>7, <3>1
  <2>9. Frame(s, z) /\ z.nappend \in {s.nappend, s.nappend + 1}
    BY <1>3, <1>5, <2>4 DEF Done, Frame
  <2> QED BY <1>3, <1>4, <1>5, <2>8, <2>9 DEF AllocDone, Done, z, a, n
<1>6. CASE ptr = 0
  <2>1. AppendDone(a.s, a.ptr, s, n, T, {}, {}, L, I, s.tailSeq, M, D)
    BY <1>2, <1>3, <1>4, <1>6, AppendMem
  <2> DEFINE z == a.s
             p == a.ptr
  <2> HIDE DEF z, p
  <2>2. /\ Mem(z, T, {} \cup {p}, {}, L, I, s.tailSeq, M, D)
        /\ Writable(p, z, L, I, M) /\ View(z.updates, D)[p] = {n}
        /\ p \in Pages \ {0} /\ p \notin DOMAIN T
        /\ Frame(s, z) /\ z.tailSeq = s.tailSeq /\ z.nappend = s.nappend + 1
    BY <2>1 DEF AppendDone, z, p
  <2>3. {} \cup {p} = {p} /\ {p} \ {p} = {} /\ p \in {p} /\ p \notin {}
    OBVIOUS
  <2>4. Mem(z, T, {p}, {}, L, I, z.tailSeq, M, D)
    BY <2>2, <2>3
  <2>5. Mem(z, With(T, p, tag), {p} \ {p}, {}, L, I, z.tailSeq, M, D)
    <3>1. \A d \in View(z.updates, D)[p] : d.tag = tag
      BY <1>2, <2>2
    <3> QED BY <2>2, <2>3, <2>4, <3>1, AdoptMem
  <2>6. Mem(z, With(T, p, tag), {}, {}, L, I, z.tailSeq, M, D)
    BY <2>3, <2>5
  <2> QED BY <1>1, <2>2, <2>6 DEF AllocDone, Done, z, p, a, n
<1> QED BY <1>5, <1>6

-----------------------------------------------------------------------------
(* The operations of the tree.                                             *)

\* A store is no less whole when fields that are not of the list change.
SameList(s, z) ==
    /\ z.flushed = s.flushed /\ z.nappend = s.nappend /\ z.updates = s.updates
    /\ z.headPage = s.headPage /\ z.headSeq = s.headSeq
    /\ z.tailPage = s.tailPage /\ z.tailSeq = s.tailSeq
    /\ z.maxSeq = s.maxSeq /\ z.maxVer = s.maxVer /\ z.curVer = s.curVer

LEMMA SameListMem ==
    ASSUME NEW s, NEW T, NEW L, NEW I, NEW e, NEW M, NEW D,
           Mem(s, T, {}, {}, L, I, e, M, D), NEW z \in KVRecord, SameList(s, z)
    PROVE  Mem(z, T, {}, {}, L, I, e, M, D)
BY DEF SameList, Mem, MemTypes, Ends, Moved, Writes, Writable

\* The store in memory is whole.
Whole(s, M, D) ==
    \E L \in [Nat -> Pages], I \in [Nat -> Item] : Mem(s, s.tree, {}, {}, L, I, s.tailSeq, M, D)

\* Fields that the operations of the tree do not touch.
TreeFrame(s, z) ==
    /\ z.root = s.root /\ z.version = s.version /\ z.failed = s.failed
    /\ z.maxVer = s.maxVer /\ z.curVer = s.curVer /\ z.maxSeq = s.maxSeq
    /\ z.flushed = s.flushed /\ z.nappend \in {s.nappend, s.nappend + 1}

\* The result of an operation on the list, with the tree that goes with it.
LEMMA DoneWhole ==
    ASSUME NEW s, NEW z, NEW T, NEW M, NEW D, Done(z, s, T, {}, {}, M, D), s.flushed = M.flushed
    PROVE  LET k == [z EXCEPT !.tree = T]
           IN  Whole(k, M, D) /\ TreeFrame(s, k) /\ k.tree = T
<1> DEFINE k == [z EXCEPT !.tree = T]
<1>1. PICK L \in [Nat -> Pages], I \in [Nat -> Item] : Mem(z, T, {}, {}, L, I, z.tailSeq, M, D)
  BY DEF Done
<1>2. z \in KVRecord /\ T \in PageMaps(1 .. MaxAttempts) /\ z.flushed = M.flushed
  BY <1>1 DEF Mem, MemTypes, Ends
<1>3. k \in KVRecord /\ SameList(z, k) /\ k.tree = T /\ TreeFrame(s, k)
  <2>1. /\ z.nappend \in {s.nappend, s.nappend + 1} /\ z.root = s.root /\ z.version = s.version
        /\ z.failed = s.failed /\ z.maxVer = s.maxVer /\ z.curVer = s.curVer /\ z.maxSeq = s.maxSeq
    BY DEF Done, Frame
  <2> QED BY <1>2, <2>1 DEF KVRecord, SameList, TreeFrame
<1> HIDE DEF k
<1>4. Mem(k, k.tree, {}, {}, L, I, k.tailSeq, M, D)
  <2>1. Mem(k, T, {}, {}, L, I, z.tailSeq, M, D)
    BY <1>1, <1>3, SameListMem
  <2> QED BY <1>3, <2>1 DEF SameList
<1> QED BY <1>3, <1>4 DEF Whole, k

\* tree.del
LEMMA DelWhole ==
    ASSUME NEW s, NEW M, NEW D, Whole(s, M, D), Reads(file, D), NEW p \in DOMAIN s.tree,
           s.flushed + s.nappend < MaxPages
    PROVE  /\ Whole(Del(s, p), M, D) /\ TreeFrame(s, Del(s, p))
           /\ DOMAIN Del(s, p).tree = DOMAIN s.tree \ {p}
<1>1. PICK L \in [Nat -> Pages], I \in [Nat -> Item] : Mem(s, s.tree, {}, {}, L, I, s.tailSeq, M, D)
  BY DEF Whole
<1> DEFINE T == Without(s.tree, p)
           z == PushTail(s, file, p)
<1>2. Mem(s, T, {} \cup {p}, {}, L, I, s.tailSeq, M, D)
  BY <1>1, DropMem
<1>3. DOMAIN T = DOMAIN s.tree \ {p} /\ s.flushed = M.flushed
  BY <1>1 DEF Mem, Ends, Without
<1> HIDE DEF T, z
<1>4. Done(z, s, T, {}, {}, M, D)
  <2>1. {} \cup {p} = {p} /\ {p} \ {p} = {} /\ p \in {p} /\ p \notin {}
    OBVIOUS
  <2>2. Mem(s, T, {p}, {}, L, I, s.tailSeq, M, D)
    BY <1>2, <2>1
  <2>3. Done(z, s, T, {p} \ {p}, {}, M, D)
    BY <2>1, <2>2, PushTailMem DEF z
  <2> QED BY <2>1, <2>3
<1>5. Whole([z EXCEPT !.tree = T], M, D) /\ TreeFrame(s, [z EXCEPT !.tree = T]) /\ [z EXCEPT !.tree = T].tree = T
  BY <1>3, <1>4, DoneWhole
<1>6. Del(s, p) = [z EXCEPT !.tree = T]
  <2>1. z.tree = s.tree
    BY <1>4 DEF Done, Frame
  <2>2. Del(s, p) = [z EXCEPT !.tree = Without(z.tree, p)]
    BY DEF Del, z
  <2> QED BY <2>1, <2>2 DEF T
<1> QED BY <1>3, <1>5, <1>6

\* tree.new
LEMMA NewWhole ==
    ASSUME NEW s, NEW M, NEW D, Whole(s, M, D), Reads(file, D), attempt \in 1 .. MaxAttempts,
           s.flushed + s.nappend < MaxPages
    PROVE  /\ Whole(New(s).s, M, D) /\ TreeFrame(s, New(s).s)
           /\ New(s).ptr \in Pages \ {0}
           /\ DOMAIN New(s).s.tree = DOMAIN s.tree \cup {New(s).ptr}
<1>1. PICK L \in [Nat -> Pages], I \in [Nat -> Item] : Mem(s, s.tree, {}, {}, L, I, s.tailSeq, M, D)
  BY DEF Whole
<1> DEFINE a == pageAlloc(s, file, TreePage(attempt))
           p == a.ptr
           z == a.s
           T == With(s.tree, p, attempt)
<1>2. AllocDone(z, p, s, attempt, s.tree, M, D)
  BY <1>1, AllocMem
<1> HIDE DEF p, z
<1>3. DOMAIN T = DOMAIN s.tree \cup {p}
  BY DEF With
<1> HIDE DEF T
<1>4. Done(z, s, T, {}, {}, M, D) /\ p \in Pages \ {0} /\ s.flushed = M.flushed
  BY <1>1, <1>2 DEF AllocDone, T, Mem, Ends
<1>5. Whole([z EXCEPT !.tree = T], M, D) /\ TreeFrame(s, [z EXCEPT !.tree = T]) /\ [z EXCEPT !.tree = T].tree = T
  BY <1>4, DoneWhole
<1>6. New(s).s = [z EXCEPT !.tree = T] /\ New(s).ptr = p
  <2>1. z.tree = s.tree
    BY <1>4 DEF Done, Frame
  <2>2. New(s).s = [z EXCEPT !.tree = With(z.tree, p, attempt)] /\ New(s).ptr = p
    BY DEF New, z, p
  <2> QED BY <2>1, <2>2 DEF T
<1> QED BY <1>3, <1>4, <1>5, <1>6

-----------------------------------------------------------------------------
(* The assertions of the list.                                             *)

\* The list z passes its check, and the page p is not one that has been written.
Fresh(z, p) == check(z) /\ p \notin DOMAIN z.updates

LEMMA MemFresh ==
    ASSUME NEW z, NEW T, NEW X, NEW Y, NEW L, NEW I, NEW e, NEW M, NEW D,
           Mem(z, T, X, Y, L, I, e, M, D)
    PROVE  check(z) /\ \A p \in Y : Fresh(z, p)
<1>1. Numbers(z, L, I, e, M)
  BY MemNumbers
<1>2. z.headSeq = z.tailSeq => z.headSeq = e
  BY <1>1 DEF Numbers
<1>3. check(z)
  BY <1>1, <1>2 DEF Numbers, check
<1> QED BY <1>3 DEF Fresh, Mem, Writes

\* A new tail node is not the page in hand, not even one beyond the bound.
LEMMA TailFresh ==
    ASSUME NEW s, NEW T, NEW X, NEW Y, NEW L, NEW I, NEW e, NEW M, NEW D, NEW f,
           Mem(s, T, X, Y, L, I, e, M, D), Reads(f, D), e # s.tailSeq, NEW p \in Y
    PROVE  Fresh(NewTail(s, f), p)
<1>1. Numbers(s, L, I, e, M)
  BY MemNumbers
<1>2. CASE ~flBlocked(s, f)
  <2> DEFINE z == NewTail(s, f)
  <2>1. \E L2 \in [Nat -> Pages], I2 \in [Nat -> Item] : Mem(z, T, X, Y, L2, I2, z.tailSeq, M, D)
    BY <1>2, NewTailMem
  <2> HIDE DEF z
  <2>2. Fresh(z, p)
    BY <2>1, MemFresh
  <2> QED BY <2>2 DEF z
<1>3. CASE flBlocked(s, f)
  <2> DEFINE lim == s.flushed + s.nappend
             a == pageAppend(s, Zero).s
             n == setNext(pageWrite(a, f, s.tailPage), lim)
             z == [Put(a, s.tailPage, n) EXCEPT !.tailPage = lim]
  <2>1. NewTail(s, f) = z
    <3> DEFINE pop == flPop(s, f)
               page == IF pop.ptr # 0 THEN pop ELSE pageAppend(pop.s, Zero)
               link == Put(page.s, s.tailPage, setNext(pageWrite(page.s, f, s.tailPage), page.ptr))
               tail == [link EXCEPT !.tailPage = page.ptr]
    <3>1. pop.s = s /\ pop.ptr = 0 /\ pop.head = 0
      BY <1>3, BlockedPop
    <3>2. NewTail(s, f) = IF pop.head = 0 THEN tail
                          ELSE [Put(tail, page.ptr,
                                    setItem(pageWrite(tail, f, page.ptr), 0, pop.head, s.curVer))
                                EXCEPT !.tailSeq = @ + 1]
      BY DEF NewTail
    <3> HIDE DEF pop
    <3>3. page = pageAppend(s, Zero)
      BY <3>1
    <3>4. page.s = a /\ page.ptr = lim
      BY <3>3 DEF pageAppend
    <3> HIDE DEF page, a, lim
    <3>5. tail = z
      BY <3>4
    <3> QED BY <3>1, <3>2, <3>5, Zenon
  <2>2. s \in KVRecord
    BY <1>1 DEF Numbers
  <2> HIDE DEF n
  <2>3. /\ z.headPage = s.headPage /\ z.headSeq = s.headSeq /\ z.tailSeq = s.tailSeq
        /\ z.tailPage = lim
        /\ DOMAIN z.updates = DOMAIN s.updates \cup {lim} \cup {s.tailPage}
    BY <2>2 DEF pageAppend, Put, With, KVRecord
  <2>4. p \in 1 .. lim - 1 /\ p \notin DOMAIN s.updates /\ p # L[e]
    <3>1. p \in X /\ p \notin DOMAIN s.updates
      BY DEF Mem, Writes
    <3>2. e \in s.headSeq .. e
      BY <1>1 DEF Numbers
    <3> QED BY <3>1, <3>2 DEF Mem, Parts
  <2>5. lim \in Nat /\ lim # 0 /\ p # lim /\ s.tailPage = L[e] /\ s.headSeq # s.tailSeq /\ s.headPage # 0
    BY <1>1, <2>4 DEF Numbers
  <2> HIDE DEF z, lim, a
  <2>6. Fresh(z, p)
    BY <2>3, <2>4, <2>5 DEF Fresh, check
  <2> QED BY <2>1, <2>6
<1> QED BY <1>2, <1>3

\* PopHead returns a page that this commit has not written, or none.
LEMMA PopHeadFresh ==
    ASSUME NEW s, NEW T, NEW L, NEW I, NEW M, NEW D, NEW f,
           Mem(s, T, {}, {}, L, I, s.tailSeq, M, D), Reads(f, D)
    PROVE  Fresh(PopHead(s, f).s, PopHead(s, f).ptr) /\ PopHead(s, f).ptr \notin DOMAIN T
<1> DEFINE pop == flPop(s, f)
           ptr == pop.ptr
           head == pop.head
           X1 == {ptr} \cup ({head} \ {0})
<1>1. Numbers(s, L, I, s.tailSeq, M)
  BY MemNumbers
<1>2. PopHead(s, f).ptr = ptr
      /\ PopHead(s, f).s = IF head # 0 THEN PushTail(pop.s, f, head) ELSE pop.s
  BY DEF PopHead
<1>3. CASE flBlocked(s, f)
  <2>1. check(s)
    BY MemFresh
  <2>2. 0 \notin DOMAIN s.updates /\ 0 \notin DOMAIN T
    BY <1>1 DEF Numbers, Mem, Parts
  <2> QED BY <1>2, <1>3, <2>1, <2>2, BlockedPop DEF Fresh
<1>4. CASE ~flBlocked(s, f)
  <2>1. /\ ptr \in Pages \ {0} /\ ptr \notin DOMAIN T
        /\ head # 0 => head # ptr
        /\ Mem(pop.s, T, {} \cup {ptr} \cup ({head} \ {0}), {} \cup {ptr}, L, I, s.tailSeq, M, D)
    BY <1>4, PopMem
  <2>2. Mem(pop.s, T, X1, {ptr}, L, I, s.tailSeq, M, D)
    <3>1. {} \cup {ptr} \cup ({head} \ {0}) = X1 /\ {} \cup {ptr} = {ptr}
      OBVIOUS
    <3> HIDE DEF pop, X1, ptr, head
    <3> QED BY <2>1, <3>1
  <2>3. pop.s = Popped(s, L)
    BY <1>4, PopResult
  <2>4. pop.s.tailSeq = s.tailSeq
    BY <1>1, <2>3 DEF Popped, KVRecord, Numbers
  <2>5. head # 0 => head \in X1 /\ head \notin {ptr}
    BY <2>1
  <2>6. ptr \in {ptr}
    OBVIOUS
  <2> HIDE DEF pop, X1, ptr, head
  <2>7. CASE head = 0
    BY <1>2, <2>1, <2>2, <2>6, <2>7, MemFresh
  <2>8. CASE head # 0
    <3> DEFINE u == Push(pop.s, f, head)
               e == IF seq2idx(s.tailSeq + 1) = 0 THEN s.tailSeq ELSE s.tailSeq + 1
               X2 == X1 \ {head}
               Y == {ptr}
    <3> HIDE DEF Y
    <3>1. PushDone(u, pop.s, head, T, X1, Y, M, D)
      BY <2>2, <2>4, <2>5, <2>8, PushMem DEF Y
    <3>2. PushTail(pop.s, f, head) = IF seq2idx(u.tailSeq) = 0 THEN NewTail(u, f) ELSE u
      BY DEF PushTail, Push
    <3> HIDE DEF u
    <3>3. /\ u.tailSeq = s.tailSeq + 1
          /\ \E L2 \in [Nat -> Pages], I2 \in [Nat -> Item] : Mem(u, T, X2, Y, L2, I2, e, M, D)
      BY <2>4, <3>1 DEF PushDone
    <3>4. PICK L2 \in [Nat -> Pages], I2 \in [Nat -> Item] : Mem(u, T, X2, Y, L2, I2, e, M, D)
      BY <3>3
    <3>5. ptr \in Y
      BY DEF Y
    <3>6. CASE seq2idx(u.tailSeq) = 0
      <4>1. e # u.tailSeq
        BY <1>1, <3>3, <3>6 DEF Numbers
      <4> HIDE DEF e, X2
      <4>2. Fresh(NewTail(u, f), ptr)
        BY <3>4, <3>5, <4>1, TailFresh
      <4> QED BY <1>2, <2>1, <2>8, <3>2, <3>6, <4>2
    <3>7. CASE seq2idx(u.tailSeq) # 0
      <4> HIDE DEF e, X2
      <4>1. Fresh(u, ptr)
        BY <3>4, <3>5, MemFresh
      <4> QED BY <1>2, <2>1, <2>8, <3>2, <3>7, <4>1
    <3> QED BY <3>6, <3>7
  <2> QED BY <2>7, <2>8
<1> QED BY <1>3, <1>4
=============================================================================
