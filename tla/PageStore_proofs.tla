-------------------------- MODULE PageStore_proofs --------------------------
(***************************************************************************)
(* The file is safe: what the runs check of PageStore, for any number of   *)
(* pages, readers, commits, faults and crashes, as long as the rewrite of  *)
(* the meta page does not fail.                                            *)
(*                                                                         *)
(* The lemmas speak of values, not of the variables: D gives the contents  *)
(* each page may have on disk, f the file as it is read, sn the snapshots, *)
(* k the KV struct, m and M meta data.                                     *)
(***************************************************************************)
EXTENDS FreeList_proofs

\* The pages of the file: nodes, and meta pages.
FilePages == Node \cup {MetaPage(m) : m \in MetaRecord}

\* The disk after a sync of the pages of d.
Synced(f, D, d) == [p \in Pages |-> IF p \in d THEN {f[p]} ELSE D[p]]

-----------------------------------------------------------------------------
(* Fewer contents.                                                         *)

\* Every page of D2, apart from page 0, has contents it may have in D.
Fewer(D2, D) == \A p \in Pages \ {0} : D2[p] \subseteq D[p]

LEMMA StoredFewer ==
    ASSUME NEW m, NEW D, NEW D2, NEW L, NEW I, Stored(m, D, L, I), Fewer(D2, D)
    PROVE  Stored(m, D2, L, I)
<1> DEFINE h == m.headSeq
           t == m.tailSeq
<1>1. /\ m \in MetaRecord /\ h \in Nat /\ t \in Nat /\ m.flushed \in 0 .. MaxPages
      /\ m.tree \in PageMaps(1 .. MaxAttempts)
  BY DEF Stored, MetaRecord
<1>2. /\ Parts(DOMAIN m.tree, {}, L, I, h, t, t, m.flushed)
      /\ Chain(D, L, h, t) /\ Filled(D, L, I, h, t) /\ TreeOn(D, m.tree)
  BY DEF Stored
<1>3. \A q \in h .. t : L[q] \in Pages \ {0}
  BY <1>1, <1>2, BoundsAssumption DEF Parts, Pages
<1>4. \A q \in h .. t - 1 : q \in h .. t
  BY <1>1
<1>5. Chain(D2, L, h, t)
  BY <1>2, <1>3, <1>4 DEF Chain, Fewer
<1>6. Filled(D2, L, I, h, t)
  BY <1>2, <1>3, <1>4 DEF Filled, Fewer
<1>7. TreeOn(D2, m.tree)
  BY <1>1, <1>2, PageMapFacts DEF TreeOn, Fewer
<1> QED BY <1>5, <1>6, <1>7 DEF Stored

LEMMA MemFewer ==
    ASSUME NEW s, NEW T, NEW L, NEW I, NEW e, NEW M, NEW D, NEW D2,
           Mem(s, T, {}, {}, L, I, e, M, D),
           Fewer(View(s.updates, D2), View(s.updates, D)),
           Fewer(Mix(s.updates, D2), Mix(s.updates, D))
    PROVE  Mem(s, T, {}, {}, L, I, e, M, D2)
<1> DEFINE C == View(s.updates, D)
           C2 == View(s.updates, D2)
<1>1. Numbers(s, L, I, e, M) /\ T \in PageMaps(1 .. MaxAttempts)
  BY MemNumbers DEF Mem, MemTypes
<1>2. Chain(C, L, s.headSeq, e) /\ Filled(C, L, I, s.headSeq, s.tailSeq) /\ TreeOn(C, T)
  BY DEF Mem
<1>3. Fewer(C2, C)
  OBVIOUS
<1> HIDE DEF C, C2
<1>4. \A q \in s.headSeq .. e : L[q] \in Pages \ {0}
  BY <1>1 DEF Numbers
<1>5. /\ \A q \in s.headSeq .. e - 1 : q \in s.headSeq .. e
      /\ \A q \in s.headSeq .. s.tailSeq - 1 : q \in s.headSeq .. e
  <2>1. s.headSeq \in Nat /\ e \in Nat /\ s.tailSeq \in Nat /\ s.tailSeq <= e + 1
    BY <1>1 DEF Numbers
  <2> QED BY <2>1
<1>6. Chain(C2, L, s.headSeq, e)
  BY <1>2, <1>3, <1>4, <1>5 DEF Chain, Fewer
<1>7. Filled(C2, L, I, s.headSeq, s.tailSeq)
  BY <1>2, <1>3, <1>4, <1>5 DEF Filled, Fewer
<1>8. TreeOn(C2, T)
  BY <1>1, <1>2, <1>3, PageMapFacts DEF TreeOn, Fewer
<1>9. Stored(M, Mix(s.updates, D2), L, I)
  <2>1. Stored(M, Mix(s.updates, D), L, I)
    BY DEF Mem
  <2> QED BY <2>1, StoredFewer
<1> QED BY <1>6, <1>7, <1>8, <1>9 DEF Mem, C2

LEMMA WholeFewer ==
    ASSUME NEW s, NEW M, NEW D, NEW D2, Whole(s, M, D),
           Fewer(View(s.updates, D2), View(s.updates, D)),
           Fewer(Mix(s.updates, D2), Mix(s.updates, D))
    PROVE  Whole(s, M, D2)
BY MemFewer DEF Whole

\* What writes and syncs do to the pages they do not concern.
LEMMA FewerViews ==
    ASSUME NEW u, NEW D, NEW D2, Fewer(D2, D)
    PROVE  Fewer(View(u, D2), View(u, D)) /\ Fewer(Mix(u, D2), Mix(u, D))
BY DEF Fewer, View, Mix

\* The pages on disk are among those of the mix.
LEMMA FewerMix ==
    ASSUME NEW u, NEW D
    PROVE  Fewer(D, Mix(u, D))
BY DEF Fewer, Mix

-----------------------------------------------------------------------------
(* The list of a store is the one its pages spell.                         *)

LEMMA StoredUnique ==
    ASSUME NEW m, NEW C, NEW C2, NEW L, NEW I, NEW L2, NEW I2, NEW f,
           Stored(m, C, L, I), Stored(m, C2, L2, I2),
           \A p \in Pages \ {0} : f[p] \in C[p] /\ f[p] \in C2[p]
    PROVE  Agree(L, I, L2, I2, m)
<1> DEFINE h == m.headSeq
           t == m.tailSeq
           bad == {q \in h .. t : L2[q] # L[q]}
<1>1. h \in Nat /\ t \in Nat /\ m.flushed \in 0 .. MaxPages
  BY DEF Stored, MetaRecord
<1>2. /\ Parts(DOMAIN m.tree, {}, L, I, h, t, t, m.flushed)
      /\ Chain(C, L, h, t) /\ Filled(C, L, I, h, t) /\ Chain(C2, L2, h, t) /\ Filled(C2, L2, I2, h, t)
      /\ L[h] = m.headPage /\ L2[h] = m.headPage
  BY DEF Stored
<1>3. \A q \in h .. t : L[q] \in Pages \ {0}
  BY <1>1, <1>2, BoundsAssumption DEF Parts, Pages
<1>4. bad = {}
  <2> SUFFICES ASSUME bad # {} PROVE FALSE
    OBVIOUS
  <2>1. bad \in SUBSET Nat
    BY <1>1
  <2>2. PICK q \in bad : \A n \in bad : q <= n
    BY <2>1, LeastNat
  <2>3. q # h /\ q \in h .. t /\ q - 1 \in h .. t - 1 /\ q - 1 \in h .. t /\ (q - 1) + 1 = q
    BY <1>1, <1>2, <2>2
  <2>4. q - 1 \notin bad
    BY <1>1, <2>2, <2>3
  <2>5. L2[q - 1] = L[q - 1] /\ L[q - 1] \in Pages \ {0} /\ L2[q] # L[q]
    BY <1>3, <2>2, <2>3, <2>4
  <2> DEFINE a == q - 1
  <2>6. a \in h .. t - 1 /\ a + 1 = q /\ L2[a] = L[a] /\ L[a] \in Pages \ {0}
    BY <2>3, <2>5
  <2> HIDE DEF a
  <2>7. CASE seq2idx(q) # 0
    BY <1>2, <2>5, <2>6, <2>7 DEF Chain
  <2>8. CASE seq2idx(q) = 0
    <3>1. \A d \in C[L[a]] : d.next = L[q]
      BY <1>2, <2>6, <2>8 DEF Chain
    <3>2. \A d \in C2[L2[a]] : d.next = L2[q]
      BY <1>2, <2>6, <2>8 DEF Chain
    <3> QED BY <2>5, <2>6, <3>1, <3>2
  <2> QED BY <2>7, <2>8
<1>5. \A q \in h .. t : L2[q] = L[q]
  BY <1>4
<1>6. ASSUME NEW q \in h .. t - 1 PROVE I2[q] = I[q]
  <2>1. L2[q] = L[q] /\ L[q] \in Pages \ {0}
    BY <1>1, <1>3, <1>5
  <2>2. \A d \in C[L[q]] : d.items[seq2idx(q)] = I[q]
    BY <1>2 DEF Filled
  <2>3. \A d \in C2[L2[q]] : d.items[seq2idx(q)] = I2[q]
    BY <1>2 DEF Filled
  <2> QED BY <2>1, <2>2, <2>3
<1> QED BY <1>5, <1>6 DEF Agree

-----------------------------------------------------------------------------
(* Snapshots.                                                              *)

\* v is the version up to which flPop takes pages.  A page of a snapshot is one of
\* the tree of m, or on the free list with a version that keeps it there.
ServesAt(m, I, f, sn, v) ==
    \A r \in Readers : sn[r].open =>
        /\ v <= sn[r].version /\ sn[r].version <= m.version
        /\ \A p \in DOMAIN sn[r].tree :
             /\ f[p].tag = sn[r].tree[p]
             /\ \/ p \in DOMAIN m.tree /\ m.tree[p] = sn[r].tree[p]
                \/ \E q \in m.headSeq .. m.tailSeq - 1 : I[q].ptr = p /\ I[q].version > sn[r].version

\* The store of m is whole and serves the open transactions.
Serves(m, D, f, sn, v) ==
    \E L \in [Nat -> Pages], I \in [Nat -> Item] : Stored(m, D, L, I) /\ ServesAt(m, I, f, sn, v)

Kept(m, D) == \E L \in [Nat -> Pages], I \in [Nat -> Item] : Stored(m, D, L, I)

Snaps == [Readers -> [open : BOOLEAN, version : 0 .. MaxAttempts, tree : PageMaps(1 .. MaxAttempts)]]

\* On the same file, with fewer contents on disk, and a lower or fitting version.
LEMMA ServesFewer ==
    ASSUME NEW m, NEW D, NEW D2, NEW f, NEW f2, NEW sn \in Snaps, NEW v, NEW v2,
           Serves(m, D, f, sn, v), Fewer(D2, D), \A p \in Pages \ {0} : f2[p] = f[p],
           \A r \in Readers : sn[r].open => v2 <= sn[r].version
    PROVE  Serves(m, D2, f2, sn, v2)
<1>1. PICK L \in [Nat -> Pages], I \in [Nat -> Item] : Stored(m, D, L, I) /\ ServesAt(m, I, f, sn, v)
  BY DEF Serves
<1>2. Stored(m, D2, L, I)
  BY <1>1, StoredFewer
<1>3. \A r \in Readers : DOMAIN sn[r].tree \subseteq Pages \ {0}
  <2> TAKE r \in Readers
  <2>1. sn[r].tree \in PageMaps(1 .. MaxAttempts)
    BY DEF Snaps
  <2> QED BY <2>1, PageMapFacts
<1>4. ServesAt(m, I, f2, sn, v2)
  BY <1>1, <1>3 DEF ServesAt
<1> QED BY <1>2, <1>4 DEF Serves

LEMMA KeptFewer ==
    ASSUME NEW m, NEW D, NEW D2, Kept(m, D), Fewer(D2, D)
    PROVE  Kept(m, D2)
BY StoredFewer DEF Kept

LEMMA ServesKept ==
    ASSUME NEW m, NEW D, NEW f, NEW sn, NEW v, Serves(m, D, f, sn, v)
    PROVE  Kept(m, D) /\ m \in MetaRecord
BY DEF Kept, Serves, Stored

LEMMA WholeKept ==
    ASSUME NEW s, NEW M, NEW D, Whole(s, M, D)
    PROVE  Kept(M, Mix(s.updates, D)) /\ Kept(M, D)
<1>1. Kept(M, Mix(s.updates, D))
  BY DEF Whole, Mem, Kept
<1> QED BY <1>1, KeptFewer, FewerMix

\* A page of updates reaches the file.
PutDisk(D, p, n) == [D EXCEPT ![p] = @ \cup {n}]

LEMMA WholeWrite ==
    ASSUME NEW s, NEW M, NEW D \in [Pages -> SUBSET FilePages], Whole(s, M, D), NEW p \in DOMAIN s.updates
    PROVE  /\ Whole(s, M, PutDisk(D, p, s.updates[p]))
           /\ Fewer(PutDisk(D, p, s.updates[p]), Mix(s.updates, D))
           /\ p \in Pages \ {0} /\ s.updates[p] \in Node
<1> DEFINE D2 == PutDisk(D, p, s.updates[p])
<1>1. s.updates \in PageMaps(Node)
  BY DEF Whole, Mem, MemTypes, KVRecord
<1>2. p \in Pages \ {0} /\ s.updates[p] \in Node
  <2> DEFINE S == Node
  <2> HIDE DEF S
  <2>1. s.updates \in PageMaps(S)
    BY <1>1 DEF S
  <2>2. p \in Pages \ {0} /\ s.updates[p] \in S
    BY <2>1, PageMapFacts
  <2> QED BY <2>2 DEF S
<1>3. /\ Fewer(View(s.updates, D2), View(s.updates, D))
      /\ Fewer(Mix(s.updates, D2), Mix(s.updates, D))
      /\ Fewer(D2, Mix(s.updates, D))
  BY <1>2 DEF PutDisk, Fewer, View, Mix
<1> QED BY <1>2, <1>3, WholeFewer

\* It is no page that a snapshot needs.
LEMMA ServesWrite ==
    ASSUME NEW s, NEW M, NEW D \in [Pages -> SUBSET FilePages], NEW f \in [Pages -> FilePages],
           NEW sn \in Snaps, Whole(s, M, D), Reads(f, D), Serves(M, D, f, sn, s.maxVer),
           NEW p \in DOMAIN s.updates
    PROVE  Serves(M, PutDisk(D, p, s.updates[p]), [f EXCEPT ![p] = s.updates[p]], sn, s.maxVer)
<1> DEFINE n == s.updates[p]
           D2 == PutDisk(D, p, n)
           f2 == [f EXCEPT ![p] = n]
<1>1. PICK L \in [Nat -> Pages], I \in [Nat -> Item] : Mem(s, s.tree, {}, {}, L, I, s.tailSeq, M, D)
  BY DEF Whole
<1>2. PICK L2 \in [Nat -> Pages], I2 \in [Nat -> Item] : Stored(M, D, L2, I2) /\ ServesAt(M, I2, f, sn, s.maxVer)
  BY DEF Serves
<1>3. Numbers(s, L, I, s.tailSeq, M) /\ Stored(M, Mix(s.updates, D), L, I)
  BY <1>1, MemNumbers DEF Mem
<1>4. Agree(L, I, L2, I2, M)
  <2>1. \A x \in Pages \ {0} : f[x] \in Mix(s.updates, D)[x] /\ f[x] \in D[x]
    BY DEF Mix, Reads
  <2> QED BY <1>2, <1>3, <2>1, StoredUnique
<1>5. Stored(M, D2, L, I) /\ p \in Pages \ {0}
  <2>1. Fewer(D2, Mix(s.updates, D)) /\ p \in Pages \ {0}
    BY WholeWrite
  <2> HIDE DEF D2
  <2>2. Stored(M, D2, L, I)
    BY <1>3, <2>1, StoredFewer
  <2> QED BY <2>1, <2>2
<1>6. Writable(p, s, L, I, M)
  BY <1>1 DEF Mem, Writes
<1>7. /\ p \notin DOMAIN M.tree
      /\ \A q \in s.headSeq .. M.tailSeq - 1 : I[q].ptr # p
  BY <1>3, <1>6, NotWritable DEF Numbers
<1>8. \A q \in M.headSeq .. s.headSeq - 1 : I[q].version <= s.maxVer
  BY <1>1 DEF Mem, Moved
<1>9. \A q \in M.headSeq .. M.tailSeq - 1 : I[q].version \in Nat /\ I2[q] = I[q]
  <2> TAKE q \in M.headSeq .. M.tailSeq - 1
  <2>1. M.headSeq \in Nat /\ M.tailSeq \in Nat
    BY <1>3 DEF Numbers
  <2>2. q \in Nat
    BY <2>1
  <2>3. I[q] \in Item
    BY <2>2
  <2>4. I[q].version \in Nat
    BY <2>3 DEF Item
  <2> QED BY <1>4, <2>4 DEF Agree
<1>10. ServesAt(M, I, f2, sn, s.maxVer)
  <2> SUFFICES ASSUME NEW r \in Readers, sn[r].open, NEW x \in DOMAIN sn[r].tree
               PROVE  /\ f2[x].tag = sn[r].tree[x]
                      /\ \/ x \in DOMAIN M.tree /\ M.tree[x] = sn[r].tree[x]
                         \/ \E q \in M.headSeq .. M.tailSeq - 1 : I[q].ptr = x /\ I[q].version > sn[r].version
    BY <1>2 DEF ServesAt
  <2>1. /\ s.maxVer <= sn[r].version
        /\ f[x].tag = sn[r].tree[x]
        /\ \/ x \in DOMAIN M.tree /\ M.tree[x] = sn[r].tree[x]
           \/ \E q \in M.headSeq .. M.tailSeq - 1 : I2[q].ptr = x /\ I2[q].version > sn[r].version
    BY <1>2 DEF ServesAt
  <2>2. sn[r].version \in Nat /\ s.maxVer \in Nat
    BY <1>3 DEF Snaps, Numbers
  <2>3. x # p
    <3>1. CASE x \in DOMAIN M.tree
      BY <1>7, <3>1
    <3>2. CASE \E q \in M.headSeq .. M.tailSeq - 1 : I2[q].ptr = x /\ I2[q].version > sn[r].version
      <4>1. PICK q \in M.headSeq .. M.tailSeq - 1 : I[q].ptr = x /\ I[q].version > sn[r].version
        BY <1>9, <3>2
      <4>2. I[q].version \in Nat
        BY <1>9
      <4>3. q \notin M.headSeq .. s.headSeq - 1
        BY <1>8, <2>1, <2>2, <4>1, <4>2
      <4>4. q \in s.headSeq .. M.tailSeq - 1
        BY <1>3, <4>3 DEF Numbers
      <4> QED BY <1>7, <4>1, <4>4
    <3> QED BY <2>1, <3>1, <3>2
  <2>4. f2[x] = f[x]
    BY <2>3
  <2> QED BY <1>9, <2>1, <2>4
<1> QED BY <1>5, <1>10 DEF Serves

-----------------------------------------------------------------------------
(* The commit on disk.                                                     *)

\* The store in memory has been written: it goes on where M stands, and both are
\* whole, that of M in D and the new one in D2.
Flushed(k, M, D, D2) ==
    \E L \in [Nat -> Pages], I \in [Nat -> Item] :
        /\ Moved(k, k.tree, {}, L, I, M)
        /\ Stored(M, D, L, I) /\ Stored(saveMeta(k), D2, L, I)

Flush(k) == [k EXCEPT !.flushed = @ + k.nappend, !.nappend = 0, !.updates = <<>>]

\* The last page of updates is on file.
LEMMA FlushWhole ==
    ASSUME NEW k, NEW M, NEW D, NEW f, NEW d, Whole(k, M, D), Reads(f, D),
           k.root = 0 \/ k.root \in DOMAIN k.tree,
           \A p \in DOMAIN k.updates : p \in d /\ f[p] = k.updates[p]
    PROVE  /\ Flushed(Flush(k), M, D, Synced(f, D, d)) /\ Flush(k) \in KVRecord
<1> DEFINE z == Flush(k)
           D2 == Synced(f, D, d)
<1>1. PICK L \in [Nat -> Pages], I \in [Nat -> Item] : Mem(k, k.tree, {}, {}, L, I, k.tailSeq, M, D)
  BY DEF Whole
<1>2. Numbers(k, L, I, k.tailSeq, M)
  BY <1>1, MemNumbers
<1>3. k \in KVRecord /\ k.flushed + k.nappend \in 0 .. MaxPages
  BY <1>2, BoundsAssumption DEF Numbers
<1>4. <<>> \in PageMaps(Node)
  <2> DEFINE S == Node
  <2> HIDE DEF S
  <2>1. <<>> \in PageMaps(S)
    BY EmptyMap
  <2> QED BY <2>1 DEF S
<1>5. z \in KVRecord
  BY <1>3, <1>4 DEF Flush, KVRecord
<1>6. /\ z.tree = k.tree /\ z.headSeq = k.headSeq /\ z.tailSeq = k.tailSeq /\ z.maxVer = k.maxVer
      /\ z.curVer = k.curVer
      /\ saveMeta(z) = [root |-> k.root, tree |-> k.tree, flushed |-> k.flushed + k.nappend,
                        version |-> k.version, headPage |-> k.headPage, headSeq |-> k.headSeq,
                        tailPage |-> k.tailPage, tailSeq |-> k.tailSeq]
  BY <1>3 DEF Flush, saveMeta, KVRecord
<1> HIDE DEF z
<1> DEFINE m == saveMeta(z)
<1>7. /\ m \in MetaRecord /\ m.headSeq = k.headSeq /\ m.tailSeq = k.tailSeq /\ m.root = k.root
      /\ m.tree = k.tree /\ m.headPage = k.headPage /\ m.tailPage = k.tailPage
      /\ m.flushed = k.flushed + k.nappend
  BY <1>3, <1>6 DEF MetaRecord, KVRecord
<1> HIDE DEF m
<1>8. Moved(z, z.tree, {}, L, I, M)
  BY <1>1, <1>6 DEF Mem, Moved
<1>9. Stored(M, D, L, I)
  <2>1. Stored(M, Mix(k.updates, D), L, I)
    BY <1>1 DEF Mem
  <2> QED BY <2>1, FewerMix, StoredFewer
<1>10. Stored(m, View(k.updates, D), L, I)
  <2>1. m.headSeq <= m.tailSeq
    BY <1>2, <1>7 DEF Numbers
  <2>2. L[m.headSeq] = m.headPage /\ L[m.tailSeq] = m.tailPage
    BY <1>1, <1>7 DEF Mem, Ends
  <2>3. Parts(DOMAIN m.tree, {}, L, I, m.headSeq, m.tailSeq, m.tailSeq, m.flushed)
    BY <1>1, <1>7 DEF Mem
  <2>4. /\ Chain(View(k.updates, D), L, m.headSeq, m.tailSeq)
        /\ Filled(View(k.updates, D), L, I, m.headSeq, m.tailSeq)
        /\ TreeOn(View(k.updates, D), m.tree)
    BY <1>1, <1>7 DEF Mem
  <2> QED BY <1>7, <2>1, <2>2, <2>3, <2>4 DEF Stored
<1>11. Fewer(D2, View(k.updates, D))
  BY DEF Fewer, Synced, View, Reads
<1>12. Stored(m, D2, L, I)
  BY <1>10, <1>11, StoredFewer
<1> QED BY <1>5, <1>8, <1>9, <1>12 DEF Flushed, m, z

LEMMA FlushedFewer ==
    ASSUME NEW k, NEW M, NEW D, NEW C, NEW D2, NEW C2, Flushed(k, M, D, C), Fewer(D2, D), Fewer(C2, C)
    PROVE  Flushed(k, M, D2, C2)
BY StoredFewer DEF Flushed

LEMMA FlushedKept ==
    ASSUME NEW k, NEW M, NEW D, NEW C, Flushed(k, M, D, C)
    PROVE  Kept(M, D) /\ Kept(saveMeta(k), C) /\ saveMeta(k) \in MetaRecord
BY DEF Flushed, Kept, Stored

\* The new store serves the transactions that the old one serves.
LEMMA ServesCommit ==
    ASSUME NEW k \in KVRecord, NEW M, NEW D, NEW f, NEW sn \in Snaps, NEW v,
           Flushed(k, M, D, D), Reads(f, D), Serves(M, D, f, sn, k.maxVer),
           k.curVer = M.version + 1, k.version = M.version + 1,
           \A r \in Readers : sn[r].open => v <= sn[r].version
    PROVE  Serves(saveMeta(k), D, f, sn, v)
<1> DEFINE m == saveMeta(k)
<1>1. PICK L \in [Nat -> Pages], I \in [Nat -> Item] :
         /\ Moved(k, k.tree, {}, L, I, M)
         /\ Stored(M, D, L, I) /\ Stored(m, D, L, I)
  BY DEF Flushed
<1>2. PICK L2 \in [Nat -> Pages], I2 \in [Nat -> Item] : Stored(M, D, L2, I2) /\ ServesAt(M, I2, f, sn, k.maxVer)
  BY DEF Serves
<1>3. Agree(L, I, L2, I2, M)
  <2>1. \A x \in Pages \ {0} : f[x] \in D[x] /\ f[x] \in D[x]
    BY DEF Reads
  <2> QED BY <1>1, <1>2, <2>1, StoredUnique
<1>4. /\ m.headSeq = k.headSeq /\ m.tailSeq = k.tailSeq /\ m.tree = k.tree /\ m.version = k.version
  BY DEF saveMeta
<1> HIDE DEF m
<1>5. /\ M \in MetaRecord /\ M.headSeq \in Nat /\ M.tailSeq \in Nat /\ M.version \in Nat
      /\ k.headSeq \in Nat /\ k.tailSeq \in Nat /\ k.maxVer \in Nat
  BY <1>1 DEF Stored, MetaRecord, KVRecord
<1>6. \A q \in Nat : I[q].version \in Nat
  BY DEF Item
<1>7. ServesAt(m, I, f, sn, v)
  <2> SUFFICES ASSUME NEW r \in Readers, sn[r].open
               PROVE  /\ v <= sn[r].version /\ sn[r].version <= m.version
                      /\ \A p \in DOMAIN sn[r].tree :
                         /\ f[p].tag = sn[r].tree[p]
                         /\ \/ p \in DOMAIN m.tree /\ m.tree[p] = sn[r].tree[p]
                            \/ \E q \in m.headSeq .. m.tailSeq - 1 : I[q].ptr = p /\ I[q].version > sn[r].version
    BY DEF ServesAt
  <2>1. k.maxVer <= sn[r].version /\ sn[r].version <= M.version /\ sn[r].version \in Nat
    BY <1>2 DEF ServesAt, Snaps
  <2>2. sn[r].version <= m.version
    BY <1>4, <1>5, <2>1
  <2>3. ASSUME NEW p \in DOMAIN sn[r].tree
        PROVE  /\ f[p].tag = sn[r].tree[p]
               /\ \/ p \in DOMAIN m.tree /\ m.tree[p] = sn[r].tree[p]
                  \/ \E q \in m.headSeq .. m.tailSeq - 1 : I[q].ptr = p /\ I[q].version > sn[r].version
    <3>1. /\ f[p].tag = sn[r].tree[p]
          /\ \/ p \in DOMAIN M.tree /\ M.tree[p] = sn[r].tree[p]
             \/ \E q \in M.headSeq .. M.tailSeq - 1 : I2[q].ptr = p /\ I2[q].version > sn[r].version
      BY <1>2 DEF ServesAt
    <3>2. M.headSeq <= k.headSeq /\ k.headSeq <= M.tailSeq /\ M.tailSeq <= k.tailSeq
      BY <1>1 DEF Moved
    <3>3. CASE p \in DOMAIN M.tree /\ M.tree[p] = sn[r].tree[p]
      <4>1. CASE p \in DOMAIN k.tree /\ k.tree[p] = M.tree[p]
        BY <1>4, <3>1, <3>3, <4>1
      <4>2. CASE \E q \in M.tailSeq .. k.tailSeq - 1 : I[q].ptr = p
        <5>1. PICK q \in M.tailSeq .. k.tailSeq - 1 : I[q].ptr = p
          BY <4>2
        <5>2. I[q].version = k.curVer
          BY <1>1 DEF Moved
        <5>3. I[q].version > sn[r].version
          BY <1>5, <2>1, <5>2
        <5>4. q \in k.headSeq .. k.tailSeq - 1
          BY <1>5, <3>2
        <5> QED BY <1>4, <3>1, <5>1, <5>3, <5>4
      <4> QED BY <1>1, <3>3, <4>1, <4>2 DEF Moved
    <3>4. CASE \E q \in M.headSeq .. M.tailSeq - 1 : I2[q].ptr = p /\ I2[q].version > sn[r].version
      <4>1. PICK q \in M.headSeq .. M.tailSeq - 1 : I2[q].ptr = p /\ I2[q].version > sn[r].version
        BY <3>4
      <4>2. I2[q] = I[q]
        BY <1>3 DEF Agree
      <4>3. q \in Nat /\ I[q].version \in Nat
        BY <1>5, <1>6
      <4>4. q \notin M.headSeq .. k.headSeq - 1
        <5>1. \A x \in M.headSeq .. k.headSeq - 1 : I[x].version <= k.maxVer
          BY <1>1 DEF Moved
        <5> QED BY <1>5, <2>1, <4>1, <4>2, <4>3, <5>1
      <4>5. q \in k.headSeq .. k.tailSeq - 1
        BY <1>5, <3>2, <4>4
      <4> QED BY <1>4, <3>1, <4>1, <4>2, <4>5
    <3> QED BY <3>1, <3>3, <3>4
  <2> QED BY <2>2, <2>3
<1> QED BY <1>1, <1>7 DEF Serves, m

\* A commit starts with the store of the file.
LEMMA StartWhole ==
    ASSUME NEW k \in KVRecord, NEW D \in [Pages -> SUBSET FilePages], Kept(saveMeta(k), D),
           k.updates = <<>>, k.nappend = 0, k.maxSeq = k.tailSeq
    PROVE  Whole(k, saveMeta(k), D)
<1> DEFINE m == saveMeta(k)
<1>1. PICK L \in [Nat -> Pages], I \in [Nat -> Item] : Stored(m, D, L, I)
  BY DEF Kept
<1>2. DOMAIN k.updates = {}
  BY EmptyMap
<1>3. View(k.updates, D) = D /\ Mix(k.updates, D) = D
  BY <1>2 DEF View, Mix
<1>4. /\ m.headSeq = k.headSeq /\ m.tailSeq = k.tailSeq /\ m.tree = k.tree /\ m.flushed = k.flushed
      /\ m.headPage = k.headPage /\ m.tailPage = k.tailPage
  BY DEF saveMeta
<1> HIDE DEF m
<1>5. /\ m \in MetaRecord /\ k.headSeq \in Nat /\ k.tailSeq \in Nat /\ k.headSeq <= k.tailSeq
      /\ k.flushed \in 0 .. MaxPages /\ k.tree \in PageMaps(1 .. MaxAttempts)
  BY <1>1, <1>4 DEF Stored, KVRecord
<1>6. MemTypes(k, k.tree, L, I, k.tailSeq, m)
  BY <1>5, BoundsAssumption DEF MemTypes
<1>7. Ends(k, L, k.tailSeq, m)
  BY <1>1, <1>4, <1>5 DEF Ends, Stored
<1>8. Moved(k, k.tree, {}, L, I, m)
  BY <1>4, <1>5 DEF Moved
<1>9. Parts(DOMAIN k.tree, {}, L, I, k.headSeq, k.tailSeq, k.tailSeq, k.flushed + k.nappend)
  <2>1. k.flushed + k.nappend = m.flushed
    BY <1>4, <1>5, BoundsAssumption
  <2> QED BY <1>1, <1>4, <2>1 DEF Stored
<1>10. /\ Chain(D, L, k.headSeq, k.tailSeq) /\ Filled(D, L, I, k.headSeq, k.tailSeq)
       /\ TreeOn(D, k.tree)
  BY <1>1, <1>4 DEF Stored
<1>11. Writes(k, {}, {}, L, I, m)
  <2>1. k.tailPage = L[m.tailSeq]
    BY <1>1, <1>4 DEF Stored
  <2>2. m.tailSeq .. k.tailSeq - 1 = {}
    BY <1>4, <1>5
  <2> QED BY <1>2, <2>1, <2>2 DEF Writes, Writable
<1>12. Mem(k, k.tree, {}, {}, L, I, k.tailSeq, m, D)
  BY <1>1, <1>3, <1>6, <1>7, <1>8, <1>9, <1>10, <1>11 DEF Mem
<1> QED BY <1>12 DEF Whole, m

-----------------------------------------------------------------------------
(* The oldest version in use.                                              *)

LEMMA MinVersionFacts ==
    ASSUME NEW ver \in Nat, NEW R \in SUBSET Readers, \A r \in R : snap[r].version \in Nat
    PROVE  /\ minVersion(ver, R) \in Nat /\ minVersion(ver, R) <= ver
           /\ \A r \in R : minVersion(ver, R) <= snap[r].version
<1> DEFINE S == {ver} \cup {snap[r].version : r \in R}
<1>1. S \in SUBSET Nat /\ S # {}
  OBVIOUS
<1>2. PICK n \in S : \A m \in S : n <= m
  <2> HIDE DEF S
  <2> QED BY <1>1, LeastNat
<1>3. \E v \in S : v <= ver /\ \A r \in R : v <= snap[r].version
  BY <1>2
<1>4. minVersion(ver, R) \in S /\ minVersion(ver, R) <= ver
      /\ \A r \in R : minVersion(ver, R) <= snap[r].version
  BY <1>3 DEF minVersion
<1> QED BY <1>1, <1>4

-----------------------------------------------------------------------------
(* Crashes.                                                                *)

\* The files of n pages that a crash may leave.
Leaves(n, Q) == {f \in [0 .. n - 1 -> Q] : \A p \in 0 .. n - 1 : f[p] \in disk[p]}

\* The recursion builds all of them.
LEMMA SurvivorsFacts ==
    ASSUME NEW Q, disk \in [Pages -> SUBSET Q]
    PROVE  Survivors = Leaves(MaxPages, Q)
<1> DEFINE G == [n \in 0 .. MaxPages |-> Leaves(n, Q)]
           E(S, n) == {With(f, n - 1, page) : page \in disk[n - 1], f \in S}
           B(g, n) == IF n = 0 THEN {<<>>} ELSE E(g[n - 1], n)
           W(g) == [n \in 0 .. MaxPages |-> B(g, n)]
<1>1. Leaves(0, Q) = {<<>>}
  <2>1. 0 .. 0 - 1 = {}
    OBVIOUS
  <2>2. \A f \in [{} -> Q] : f = <<>>
    OBVIOUS
  <2>3. <<>> \in [{} -> Q]
    BY EmptyMap
  <2> QED BY <2>1, <2>2, <2>3 DEF Leaves
<1>2. ASSUME NEW n \in 0 .. MaxPages, n # 0
      PROVE  Leaves(n, Q) = E(Leaves(n - 1, Q), n)
  <2> DEFINE a == n - 1
  <2>1. a \in Nat /\ a \in Pages /\ 0 .. n - 1 = (0 .. a - 1) \cup {a} /\ a \notin 0 .. a - 1
    <3>1. a \in Nat /\ a \in Pages
      BY <1>2, BoundsAssumption DEF Pages
    <3> HIDE DEF a
    <3>2. \A x : x \in 0 .. a <=> x \in 0 .. a - 1 \/ x = a
      BY <3>1
    <3>3. 0 .. a = (0 .. a - 1) \cup {a} /\ a \notin 0 .. a - 1
      BY <3>1, <3>2
    <3> QED BY <3>1, <3>3 DEF a
  <2>2. \A p \in 0 .. a : p \in Pages
    BY BoundsAssumption DEF Pages
  <2> HIDE DEF a
  <2>3. ASSUME NEW f \in Leaves(a, Q), NEW page \in disk[a]
        PROVE  With(f, a, page) \in Leaves(n, Q)
    <3>1. f \in [0 .. a - 1 -> Q] /\ \A p \in 0 .. a - 1 : f[p] \in disk[p]
      BY DEF Leaves
    <3>2. page \in Q
      BY <2>1
    <3> QED BY <2>1, <3>1, <3>2 DEF Leaves, With
  <2>4. ASSUME NEW g \in Leaves(n, Q)
        PROVE  \E page \in disk[a], f \in Leaves(a, Q) : g = With(f, a, page)
    <3> DEFINE f == [p \in 0 .. a - 1 |-> g[p]]
    <3>1. g \in [(0 .. a - 1) \cup {a} -> Q] /\ \A p \in (0 .. a - 1) \cup {a} : g[p] \in disk[p]
      BY <2>1 DEF Leaves
    <3>2. f \in Leaves(a, Q) /\ g[a] \in disk[a]
      BY <2>1, <3>1 DEF Leaves
    <3>3. g = With(f, a, g[a])
      BY <2>1, <3>1 DEF With
    <3> QED BY <3>2, <3>3
  <2> QED BY <2>3, <2>4 DEF a
<1> HIDE DEF E
<1>3. G = W(G)
  <2>1. ASSUME NEW n \in 0 .. MaxPages
        PROVE  G[n] = B(G, n)
    <3>1. CASE n = 0
      BY <1>1, <3>1
    <3>2. CASE n # 0
      <4>1. n - 1 \in 0 .. MaxPages
        BY <3>2, BoundsAssumption
      <4>2. G[n] = Leaves(n, Q) /\ G[n - 1] = Leaves(n - 1, Q)
        BY <4>1
      <4> HIDE DEF G
      <4>3. Leaves(n, Q) = E(Leaves(n - 1, Q), n)
        BY <1>2, <3>2, Zenon
      <4> QED BY <3>2, <4>2, <4>3, Zenon
    <3> QED BY <3>1, <3>2
  <2> HIDE DEF B
  <2>2. G = [n \in 0 .. MaxPages |-> G[n]]
    OBVIOUS
  <2> HIDE DEF G
  <2>3. [n \in 0 .. MaxPages |-> G[n]] = W(G)
    BY <2>1
  <2> QED BY <2>2, <2>3, Zenon
<1> HIDE DEF G
<1>4. SurvivorsUpTo = CHOOSE g : g = W(g)
  BY DEF SurvivorsUpTo, E
<1> HIDE DEF W
<1>5. SurvivorsUpTo = W(SurvivorsUpTo)
  BY <1>3, <1>4, Zenon
<1>6. \A n \in 0 .. MaxPages : SurvivorsUpTo[n] = B(SurvivorsUpTo, n)
  <2>1. SurvivorsUpTo = [n \in 0 .. MaxPages |-> B(SurvivorsUpTo, n)]
    BY <1>5, Zenon DEF W
  <2> HIDE DEF B
  <2> QED BY <2>1, Zenon
<1> DEFINE bad == {n \in 0 .. MaxPages : SurvivorsUpTo[n] # Leaves(n, Q)}
<1>7. bad = {}
  <2> SUFFICES ASSUME bad # {} PROVE FALSE
    OBVIOUS
  <2>1. bad \in SUBSET Nat
    BY BoundsAssumption
  <2>2. PICK n \in bad : \A m \in bad : n <= m
    BY <2>1, LeastNat
  <2>3. n \in 0 .. MaxPages /\ SurvivorsUpTo[n] # Leaves(n, Q) /\ SurvivorsUpTo[n] = B(SurvivorsUpTo, n)
    BY <1>6, <2>2
  <2>4. CASE n = 0
    BY <1>1, <2>3, <2>4
  <2>5. CASE n # 0
    <3>1. n - 1 \in 0 .. MaxPages /\ ~(n <= n - 1)
      BY <2>3, <2>5, BoundsAssumption
    <3>2. n - 1 \notin bad
      BY <2>2, <3>1
    <3>3. SurvivorsUpTo[n - 1] = Leaves(n - 1, Q)
      BY <3>1, <3>2
    <3>4. Leaves(n, Q) = E(Leaves(n - 1, Q), n)
      BY <1>2, <2>3, <2>5, Zenon
    <3> QED BY <2>3, <2>5, <3>3, <3>4, Zenon
  <2> QED BY <2>4, <2>5
<1>8. MaxPages \in 0 .. MaxPages
  BY BoundsAssumption
<1> QED BY <1>7, <1>8 DEF Survivors

\* A file that a crash leaves.
LEMMA SurvivorFacts ==
    ASSUME disk \in [Pages -> SUBSET FilePages], NEW f \in Survivors
    PROVE  f \in [Pages -> FilePages] /\ \A p \in Pages : f[p] \in disk[p]
<1> DEFINE Q == FilePages
<1> HIDE DEF Q
<1>1. disk \in [Pages -> SUBSET Q]
  BY DEF Q
<1>2. f \in Leaves(MaxPages, Q)
  BY <1>1, SurvivorsFacts
<1> QED BY <1>2 DEF Leaves, Pages, Q

\* Only a file with no page at all is empty.
LEMMA EmptyFile ==
    ASSUME NEW f, fileSize(f) = 0
    PROVE  \A p \in Pages : f[p] = Absent
<1> SUFFICES ASSUME NEW x \in Pages, f[x] # Absent PROVE FALSE
  OBVIOUS
<1> DEFINE S == {n \in Nat : \E p \in Pages : f[p] # Absent /\ n = MaxPages - p}
           Last(p) == f[p] # Absent /\ \A q \in p + 1 .. MaxPages - 1 : f[q] = Absent
<1>1. S \in SUBSET Nat /\ MaxPages - x \in S
  BY BoundsAssumption DEF Pages
<1>2. PICK n \in S : \A m \in S : n <= m
  BY <1>1, LeastNat
<1>3. PICK p \in Pages : f[p] # Absent /\ n = MaxPages - p
  BY <1>2
<1>4. ASSUME NEW q \in p + 1 .. MaxPages - 1 PROVE f[q] = Absent
  <2> SUFFICES ASSUME f[q] # Absent PROVE FALSE
    OBVIOUS
  <2>1. q \in Pages /\ MaxPages - q \in Nat
    BY BoundsAssumption DEF Pages
  <2>2. MaxPages - q \in S
    BY <2>1
  <2> QED BY <1>2, <1>3, <2>1, <2>2, BoundsAssumption DEF Pages
<1>5. \E y \in Pages : Last(y)
  BY <1>3, <1>4
<1> DEFINE z == CHOOSE y \in Pages : Last(y)
<1>6. z \in Pages
  BY <1>5
<1>7. fileSize(f) = 1 + z
  BY DEF fileSize
<1> HIDE DEF z
<1> QED BY <1>6, <1>7, BoundsAssumption DEF Pages

\* The store of an empty file.
EmptyKV == [Blank EXCEPT !.flushed = 2, !.headPage = 1, !.tailPage = 1]

LEMMA BlankFacts ==
    /\ Blank \in KVRecord /\ EmptyKV \in KVRecord
    /\ saveMeta(Blank) \in MetaRecord /\ saveMeta(EmptyKV) \in MetaRecord
<1>1. <<>> \in PageMaps(1 .. MaxAttempts) /\ <<>> \in PageMaps(Node)
  <2> DEFINE S == 1 .. MaxAttempts
             N == Node
  <2> HIDE DEF S, N
  <2>1. <<>> \in PageMaps(S) /\ <<>> \in PageMaps(N)
    BY EmptyMap
  <2> QED BY <2>1 DEF S, N
<1>2. 0 \in Pages /\ 1 \in Pages /\ 0 \in 0 .. MaxPages /\ 2 \in 0 .. MaxPages /\ 0 \in 0 .. MaxAttempts
  BY BoundsAssumption DEF Pages
<1>3. Blank \in KVRecord
  BY <1>1, <1>2 DEF Blank, KVRecord
<1>4. EmptyKV \in KVRecord
  BY <1>2, <1>3 DEF EmptyKV, KVRecord
<1>5. \A k \in KVRecord : saveMeta(k) \in MetaRecord
  BY DEF KVRecord, MetaRecord, saveMeta
<1> QED BY <1>3, <1>4, <1>5

LEMMA EmptyStore ==
    ASSUME NEW D
    PROVE  Kept(saveMeta(EmptyKV), D)
<1> DEFINE m == saveMeta(EmptyKV)
           L == [q \in Nat |-> 1]
           I == [q \in Nat |-> [ptr |-> 0, version |-> 0]]
<1>1. /\ m.headSeq = 0 /\ m.tailSeq = 0 /\ m.root = 0 /\ m.tree = <<>> /\ m.flushed = 2
      /\ m.headPage = 1 /\ m.tailPage = 1
  BY DEF saveMeta, EmptyKV, Blank
<1>2. m \in MetaRecord
  BY BlankFacts
<1> HIDE DEF m
<1>3. L \in [Nat -> Pages] /\ I \in [Nat -> Item]
  <2>1. 1 \in Pages /\ 0 \in Pages /\ 0 \in 0 .. MaxAttempts
    BY BoundsAssumption DEF Pages
  <2> QED BY <2>1 DEF Item
<1>4. DOMAIN m.tree = {}
  BY <1>1, EmptyMap
<1>5. L[0] = 1
  OBVIOUS
<1> HIDE DEF L, I
<1>6. Parts(DOMAIN m.tree, {}, L, I, 0, 0, 0, 2)
  <2>1. \A q \in 0 .. 0 : q = 0
    OBVIOUS
  <2>2. 0 .. 0 - 1 = {} /\ \A x \in 1 .. 2 - 1 : x = 1
    OBVIOUS
  <2>3. 0 \in 0 .. 0 /\ 1 \in 1 .. 2 - 1
    OBVIOUS
  <2> QED BY <1>4, <1>5, <2>1, <2>2, <2>3 DEF Parts
<1>7. Chain(D, L, 0, 0) /\ Filled(D, L, I, 0, 0) /\ TreeOn(D, m.tree)
  <2>1. 0 .. 0 - 1 = {} /\ \A p, q \in 0 .. 0 : ~(p < q)
    OBVIOUS
  <2> QED BY <1>4, <2>1 DEF Chain, Filled, TreeOn
<1>8. Stored(m, D, L, I)
  BY <1>1, <1>2, <1>5, <1>6, <1>7 DEF Stored
<1> QED BY <1>3, <1>8 DEF Kept, m

\* With no transaction open a whole store serves all that are.
LEMMA ServesNone ==
    ASSUME NEW m, NEW D, NEW f, NEW sn, NEW v, Kept(m, D), \A r \in Readers : ~sn[r].open
    PROVE  Serves(m, D, f, sn, v)
BY DEF Kept, Serves, ServesAt

-----------------------------------------------------------------------------
(* The invariant.                                                          *)

MemSteps   == {"mem", "updated", "rewrite", "resync", "pages"}
FlushSteps == {"sync1", "root", "sync2"}

\* The meta data that the file stands for.
Base == IF pc = "idle" THEN saveMeta(kv) ELSE saved

Types ==
    /\ kv \in KVRecord /\ saved \in MetaRecord
    /\ file \in [Pages -> FilePages] /\ disk \in [Pages -> SUBSET FilePages]
    /\ Reads(file, disk) /\ file[0] \in disk[0]
    /\ dirty \subseteq Pages /\ snap \in Snaps
    /\ pc \in {"idle", "dead"} \cup MemSteps \cup FlushSteps
    /\ acked \in Nat /\ attempt \in 0 .. MaxAttempts

\* What the store in memory is at the steps of a commit.
Quiet == kv.updates = <<>> /\ kv.nappend = 0 /\ todo = {}

Phases ==
    /\ pc = "idle" => Quiet /\ kv.maxSeq = kv.tailSeq /\ kv.maxVer <= kv.version
    /\ pc \in MemSteps => Whole(kv, saved, disk) /\ (kv.root = 0 \/ kv.root \in DOMAIN kv.tree)
    /\ pc \in FlushSteps =>
         Quiet /\ Flushed(kv, saved, disk, IF pc = "sync1" THEN Synced(file, disk, dirty) ELSE disk)
    /\ pc = "dead" => kv = Blank /\ todo = {} /\ \A r \in Readers : ~snap[r].open

Versions ==
    /\ pc # "dead" => Base.version <= attempt /\ acked <= Base.version
    /\ pc \notin {"idle", "dead"} => kv.curVer = saved.version + 1 /\ saved.version < attempt
    /\ pc \in {"mem", "updated"} => kv.version = saved.version
    /\ pc \in {"rewrite", "resync", "pages"} \cup FlushSteps => kv.version = saved.version + 1

\* What has been written.
Written ==
    /\ pc \in {"mem", "updated"} => todo = {}
    /\ pc \in {"rewrite", "resync"} => todo = DOMAIN kv.updates
    /\ pc = "pages" => /\ todo \subseteq DOMAIN kv.updates
                       /\ \A p \in DOMAIN kv.updates \ todo : p \in dirty /\ file[p] = kv.updates[p]
    /\ pc = "resync" => 0 \in dirty /\ file[0] = MetaPage(saved)
    /\ pc = "sync2" => 0 \in dirty /\ file[0] = MetaPage(saveMeta(kv))

Service == pc # "dead" => Serves(Base, disk, file, snap, kv.maxVer)

\* The meta pages a crash may leave: each leads to a whole store, and after a
\* commit or its rewrite there is no other than those of this commit.
Meta(d, D, last) == \E m \in MetaRecord : d = MetaPage(m) /\ m.version <= last /\ Kept(m, D)

Metas ==
    /\ \A d \in disk[0] : d = Absent \/ Meta(d, disk, attempt)
    /\ acked > 0 => \A d \in disk[0] : HasSig(d) /\ d.meta.version >= acked
    /\ pc \in {"pages"} \cup FlushSteps => ~kv.failed
    /\ pc # "dead" /\ ~kv.failed =>
         \A d \in disk[0] : \/ d = Absent \/ d = MetaPage(Base)
                            \/ pc = "sync2" /\ d = MetaPage(saveMeta(kv))

StoreInv == Types /\ Phases /\ Versions /\ Written /\ Service /\ Metas

-----------------------------------------------------------------------------
(* Facts about records.                                                    *)

LEMMA MetaPageFacts ==
    /\ \A m : HasSig(MetaPage(m)) /\ MetaPage(m).meta = m
    /\ \A m \in MetaRecord : MetaPage(m) \in FilePages
    /\ \A d \in Node : d \in FilePages /\ ~HasSig(d)
    /\ ~HasSig(Absent)
<1>1. \A m : HasSig(MetaPage(m)) /\ MetaPage(m).meta = m
  BY DEF HasSig, MetaPage
<1>2. \A d \in Node : d \in FilePages /\ ~HasSig(d)
  BY BoundsAssumption DEF Node, HasSig, FilePages
<1> QED BY <1>1, <1>2, NodeFacts DEF FilePages

\* SetMaxVer changes neither the meta data nor the updates.
Released(z, k, v) ==
    /\ z \in KVRecord /\ saveMeta(z) = saveMeta(k)
    /\ z.updates = k.updates /\ z.nappend = k.nappend
    /\ z.maxSeq = k.tailSeq /\ z.tailSeq = k.tailSeq
    /\ z.maxVer = v /\ z.version = k.version /\ z.failed = k.failed

LEMMA SetMaxVerFacts ==
    ASSUME NEW k \in KVRecord, NEW v \in Nat
    PROVE  Released(SetMaxVer(k, v), k, v)
BY DEF SetMaxVer, KVRecord, saveMeta, Released

LEMMA SaveMetaFacts ==
    ASSUME NEW k \in KVRecord
    PROVE  saveMeta(k) \in MetaRecord /\ saveMeta(k).version = k.version
           /\ saveMeta(k).tree = k.tree /\ saveMeta(k).root = k.root
BY DEF KVRecord, MetaRecord, saveMeta

LEMMA LoadMetaFacts ==
    ASSUME NEW k \in KVRecord, NEW m \in MetaRecord
    PROVE  /\ loadMeta(k, m) \in KVRecord /\ saveMeta(loadMeta(k, m)) = m
           /\ loadMeta(k, m).updates = k.updates /\ loadMeta(k, m).nappend = k.nappend
           /\ loadMeta(k, m).version = m.version /\ loadMeta(k, m).failed = k.failed
BY DEF KVRecord, MetaRecord, saveMeta, loadMeta

\* The initial state.
LEMMA InitInv == Init => StoreInv
<1> SUFFICES ASSUME Init PROVE StoreInv
  OBVIOUS
<1>1. kv = EmptyKV /\ saved = saveMeta(EmptyKV)
  <2>1. fileSize([p \in Pages |-> Absent]) = 0
    BY DEF fileSize
  <2> QED BY <2>1 DEF Init, readRoot, EmptyKV
<1>2. /\ kv \in KVRecord /\ kv.updates = <<>> /\ kv.nappend = 0 /\ kv.maxSeq = 0 /\ kv.tailSeq = 0
      /\ kv.maxVer = 0 /\ kv.version = 0 /\ kv.failed = FALSE /\ saveMeta(kv).version = 0
  BY <1>1, BlankFacts DEF EmptyKV, Blank, saveMeta
<1>3. pc = "idle" /\ acked = 0 /\ attempt = 0 /\ todo = {} /\ dirty = {}
  BY DEF Init
<1>4. Types
  <2>1. saved \in MetaRecord
    BY <1>1, BlankFacts
  <2>2. Absent \in Node /\ Absent \in FilePages /\ 0 \in Pages /\ 0 \in 0 .. MaxAttempts
    BY NodeFacts, MetaPageFacts, BoundsAssumption DEF Pages
  <2>3. /\ file \in [Pages -> FilePages] /\ disk \in [Pages -> SUBSET FilePages]
        /\ Reads(file, disk) /\ file[0] \in disk[0]
    BY <2>2 DEF Init, Reads
  <2>4. snap \in Snaps
    <3> DEFINE S == 1 .. MaxAttempts
    <3> HIDE DEF S
    <3>1. <<>> \in PageMaps(S)
      BY EmptyMap
    <3>2. NoSnap \in [open : BOOLEAN, version : 0 .. MaxAttempts, tree : PageMaps(S)]
      BY <2>2, <3>1 DEF NoSnap
    <3> QED BY <3>2 DEF Init, Snaps, S
  <2> QED BY <1>2, <1>3, <2>1, <2>2, <2>3, <2>4 DEF Types
<1>5. Phases
  BY <1>2, <1>3 DEF Phases, Quiet, MemSteps, FlushSteps
<1>6. Versions
  BY <1>2, <1>3 DEF Versions, Base, FlushSteps
<1>7. Written
  BY <1>3 DEF Written
<1>8. Service
  <2>1. \A r \in Readers : ~snap[r].open
    BY DEF Init, NoSnap
  <2>2. Kept(saveMeta(kv), disk)
    BY <1>1, EmptyStore
  <2> QED BY <1>3, <2>1, <2>2, ServesNone DEF Service, Base
<1>9. Metas
  <2>1. \A d \in disk[0] : d = Absent
    BY BoundsAssumption DEF Init, Pages
  <2> QED BY <1>3, <2>1 DEF Metas, FlushSteps
<1> QED BY <1>4, <1>5, <1>6, <1>7, <1>8, <1>9 DEF StoreInv

-----------------------------------------------------------------------------
(* Transactions that read.                                                 *)

LEMMA BeginReadInv ==
    ASSUME StoreInv, NEW r \in Readers, BeginRead(r)
    PROVE  StoreInv'
<1>1. Types /\ Phases /\ Versions /\ Written /\ Service /\ Metas
  BY DEF StoreInv
<1>2. /\ pc = "idle" /\ snap' = [snap EXCEPT ![r] = [open |-> TRUE, version |-> kv.version, tree |-> kv.tree]]
      /\ kv' = kv /\ file' = file /\ disk' = disk /\ dirty' = dirty /\ pc' = pc /\ saved' = saved
      /\ todo' = todo /\ acked' = acked /\ attempt' = attempt
  BY DEF BeginRead, fileVars, commitVars, boundVars
<1>3. kv \in KVRecord /\ snap \in Snaps /\ Reads(file, disk)
  BY <1>1 DEF Types
<1>4. snap' \in Snaps
  <2>1. [open |-> TRUE, version |-> kv.version, tree |-> kv.tree] \in
            [open : BOOLEAN, version : 0 .. MaxAttempts, tree : PageMaps(1 .. MaxAttempts)]
    BY <1>3 DEF KVRecord
  <2> QED BY <1>2, <1>3, <2>1 DEF Snaps
<1>5. Types'
  BY <1>1, <1>2, <1>4 DEF Types
<1>6. Phases' /\ Versions' /\ Written' /\ Metas'
  BY <1>1, <1>2 DEF Phases, Quiet, Versions, Written, Metas, Base, MemSteps, FlushSteps
<1>7. Service'
  <2> DEFINE m == saveMeta(kv)
  <2>1. PICK L \in [Nat -> Pages], I \in [Nat -> Item] : Stored(m, disk, L, I) /\ ServesAt(m, I, file, snap, kv.maxVer)
    BY <1>1, <1>2 DEF Service, Base, Serves
  <2>2. m.tree = kv.tree /\ m.version = kv.version /\ kv.maxVer <= kv.version /\ kv.version \in Nat
    BY <1>1, <1>2, <1>3, BoundsAssumption DEF saveMeta, Phases, KVRecord
  <2>3. \A p \in DOMAIN kv.tree : file[p].tag = kv.tree[p]
    <3>1. TreeOn(disk, m.tree)
      BY <2>1 DEF Stored
    <3>2. DOMAIN kv.tree \subseteq Pages \ {0}
      BY <1>3, PageMapFacts DEF KVRecord
    <3> QED BY <1>3, <2>2, <3>1, <3>2 DEF TreeOn, Reads
  <2> HIDE DEF m
  <2>4. ServesAt(m, I, file, snap', kv.maxVer)
    <3> SUFFICES ASSUME NEW x \in Readers, snap'[x].open
                 PROVE  /\ kv.maxVer <= snap'[x].version /\ snap'[x].version <= m.version
                        /\ \A p \in DOMAIN snap'[x].tree :
                           /\ file[p].tag = snap'[x].tree[p]
                           /\ \/ p \in DOMAIN m.tree /\ m.tree[p] = snap'[x].tree[p]
                              \/ \E q \in m.headSeq .. m.tailSeq - 1 : I[q].ptr = p /\ I[q].version > snap'[x].version
      BY DEF ServesAt
    <3>1. CASE x = r
      <4>1. snap'[x].version = kv.version /\ snap'[x].tree = kv.tree
        BY <1>2, <1>3, <3>1 DEF Snaps
      <4> QED BY <2>2, <2>3, <4>1
    <3>2. CASE x # r
      <4>1. snap'[x] = snap[x]
        BY <1>2, <1>3, <3>2 DEF Snaps
      <4> QED BY <2>1, <4>1 DEF ServesAt
    <3> QED BY <3>1, <3>2
  <2>5. Serves(m, disk, file, snap', kv.maxVer)
    BY <2>1, <2>4 DEF Serves
  <2> QED BY <1>2, <2>5 DEF Service, Base, m
<1> QED BY <1>5, <1>6, <1>7 DEF StoreInv

LEMMA EndReadInv ==
    ASSUME StoreInv, NEW r \in Readers, EndRead(r)
    PROVE  StoreInv'
<1> DEFINE v == minVersion(kv.version, OpenReaders \ {r})
<1>1. Types /\ Phases /\ Versions /\ Written /\ Service /\ Metas
  BY DEF StoreInv
<1>2. /\ pc = "idle" /\ snap' = [snap EXCEPT ![r] = NoSnap] /\ kv' = SetMaxVer(kv, v)
      /\ file' = file /\ disk' = disk /\ dirty' = dirty /\ pc' = pc /\ saved' = saved
      /\ todo' = todo /\ acked' = acked /\ attempt' = attempt
  BY DEF EndRead, fileVars, commitVars, boundVars
<1>3. kv \in KVRecord /\ snap \in Snaps /\ kv.version \in Nat
  BY <1>1, BoundsAssumption DEF Types, KVRecord
<1>4. v \in Nat /\ v <= kv.version /\ \A x \in OpenReaders \ {r} : v <= snap[x].version
  <2>1. OpenReaders \ {r} \in SUBSET Readers /\ \A x \in OpenReaders \ {r} : snap[x].version \in Nat
    BY <1>3, BoundsAssumption DEF OpenReaders, Snaps
  <2> QED BY <1>3, <2>1, MinVersionFacts
<1> HIDE DEF v
<1>5. /\ kv' \in KVRecord /\ saveMeta(kv') = saveMeta(kv) /\ kv'.updates = kv.updates
      /\ kv'.nappend = kv.nappend /\ kv'.maxSeq = kv'.tailSeq /\ kv'.maxVer = v
      /\ kv'.version = kv.version /\ kv'.failed = kv.failed
  <2>1. Released(kv', kv, v)
    BY <1>2, <1>3, <1>4, SetMaxVerFacts
  <2> QED BY <2>1 DEF Released
<1>6. snap' \in Snaps
  <2> DEFINE S == 1 .. MaxAttempts
  <2> HIDE DEF S
  <2>1. <<>> \in PageMaps(S) /\ 0 \in 0 .. MaxAttempts
    BY EmptyMap, BoundsAssumption
  <2>2. NoSnap \in [open : BOOLEAN, version : 0 .. MaxAttempts, tree : PageMaps(S)]
    BY <2>1 DEF NoSnap
  <2> QED BY <1>2, <1>3, <2>2 DEF Snaps, S
<1>7. Types'
  BY <1>1, <1>2, <1>5, <1>6 DEF Types
<1>8. Phases' /\ Versions' /\ Written' /\ Metas'
  BY <1>1, <1>2, <1>4, <1>5 DEF Phases, Quiet, Versions, Written, Metas, Base, MemSteps, FlushSteps
<1>9. Service'
  <2>1. Serves(saveMeta(kv), disk, file, snap, kv.maxVer)
    BY <1>1, <1>2 DEF Service, Base
  <2>2. ~snap'[r].open /\ \A x \in Readers : x # r => snap'[x] = snap[x]
    BY <1>2, <1>3 DEF Snaps, NoSnap
  <2>3. Serves(saveMeta(kv), disk, file, snap', v)
    BY <1>4, <2>1, <2>2 DEF Serves, ServesAt, OpenReaders
  <2> QED BY <1>2, <1>5, <2>3 DEF Service, Base
<1> QED BY <1>7, <1>8, <1>9 DEF StoreInv

-----------------------------------------------------------------------------
(* The commit in memory.                                                   *)

\* A step of the commit in memory leaves the file, the snapshots and the saved meta
\* data alone, and flPop's version.
LEMMA MemService ==
    ASSUME StoreInv, pc \notin {"idle", "dead"}, pc' \notin {"idle", "dead"}, kv'.maxVer = kv.maxVer,
           file' = file, disk' = disk, snap' = snap, saved' = saved
    PROVE  Service'
BY DEF StoreInv, Service, Base

LEMMA StartCommitInv ==
    ASSUME StoreInv, StartCommit
    PROVE  StoreInv'
<1> DEFINE k == [kv EXCEPT !.curVer = kv.version + 1]
<1>1. Types /\ Phases /\ Versions /\ Written /\ Service /\ Metas
  BY DEF StoreInv
<1>2. /\ pc = "idle" /\ attempt < MaxAttempts /\ saved' = saveMeta(kv) /\ kv' = k
      /\ attempt' = attempt + 1 /\ pc' = "mem"
      /\ file' = file /\ disk' = disk /\ dirty' = dirty /\ snap' = snap
      /\ todo' = todo /\ acked' = acked
  BY DEF StartCommit, fileVars, boundVars
<1>3. /\ kv \in KVRecord /\ kv.version \in Nat /\ attempt \in 0 .. MaxAttempts /\ kv.version <= attempt
      /\ acked <= kv.version /\ disk \in [Pages -> SUBSET FilePages] /\ saveMeta(kv).version = kv.version
      /\ acked \in Nat
  BY <1>1, <1>2, BoundsAssumption DEF Types, KVRecord, Versions, Base, saveMeta
<1>4. /\ kv.version + 1 \in 0 .. MaxAttempts /\ attempt + 1 \in 0 .. MaxAttempts
      /\ kv.version <= attempt + 1 /\ kv.version < attempt + 1
  BY <1>2, <1>3, BoundsAssumption
<1>5. /\ k \in KVRecord /\ saveMeta(k) = saveMeta(kv) /\ k.updates = kv.updates /\ k.nappend = kv.nappend
      /\ k.maxSeq = kv.maxSeq /\ k.tailSeq = kv.tailSeq /\ k.curVer = kv.version + 1
      /\ k.version = kv.version /\ k.maxVer = kv.maxVer /\ k.failed = kv.failed
      /\ k.root = kv.root /\ k.tree = kv.tree
  BY <1>3, <1>4 DEF KVRecord, saveMeta
<1> HIDE DEF k
<1>6. Serves(saveMeta(kv), disk, file, snap, kv.maxVer)
  BY <1>1, <1>2 DEF Service, Base
<1>7. Kept(saveMeta(kv), disk) /\ saveMeta(kv) \in MetaRecord
  BY <1>6, ServesKept
<1>8. Whole(k, saveMeta(kv), disk)
  <2>1. kv.updates = <<>> /\ kv.nappend = 0 /\ kv.maxSeq = kv.tailSeq
    BY <1>1, <1>2 DEF Phases, Quiet
  <2>2. Whole(k, saveMeta(k), disk)
    BY <1>3, <1>5, <1>7, <2>1, StartWhole
  <2> QED BY <1>5, <2>2
<1>9. k.root = 0 \/ k.root \in DOMAIN k.tree
  <2>1. saveMeta(kv).root = kv.root /\ saveMeta(kv).tree = kv.tree
    BY DEF saveMeta
  <2> QED BY <1>5, <1>7, <2>1 DEF Kept, Stored
<1>10. Types'
  BY <1>1, <1>2, <1>4, <1>5, <1>7 DEF Types, MemSteps
<1>11. Phases'
  BY <1>2, <1>8, <1>9 DEF Phases, MemSteps, FlushSteps
<1>12. Versions'
  BY <1>2, <1>3, <1>4, <1>5 DEF Versions, Base, FlushSteps
<1>13. Written'
  BY <1>1, <1>2 DEF Written, Phases, Quiet
<1>14. Service'
  BY <1>2, <1>5, <1>6 DEF Service, Base
<1>15. Metas'
  <2>1. ASSUME NEW d \in disk[0], Meta(d, disk, attempt) PROVE Meta(d, disk, attempt + 1)
    <3>1. PICK m \in MetaRecord : d = MetaPage(m) /\ m.version <= attempt /\ Kept(m, disk)
      BY <2>1 DEF Meta
    <3>2. m.version <= attempt + 1
      BY <1>3, <3>1, BoundsAssumption DEF MetaRecord
    <3> QED BY <1>2, <3>1, <3>2 DEF Meta
  <2> QED BY <1>1, <1>2, <1>5, <2>1 DEF Metas, Base, FlushSteps
<1> QED BY <1>10, <1>11, <1>12, <1>13, <1>14, <1>15 DEF StoreInv

\* An update of the tree in memory, however it was made.
LEMMA TreeStep ==
    ASSUME StoreInv, pc \in {"mem", "updated"}, pc' \in {"mem", "updated"},
           Whole(kv', saved, disk), kv'.root = 0 \/ kv'.root \in DOMAIN kv'.tree,
           kv'.version = kv.version, kv'.failed = kv.failed, kv'.maxVer = kv.maxVer,
           kv'.curVer = kv.curVer,
           UNCHANGED <<fileVars, snap, saved, todo, acked, attempt, boundVars>>
    PROVE  StoreInv'
<1>1. Types /\ Phases /\ Versions /\ Written /\ Service /\ Metas
  BY DEF StoreInv
<1>2. /\ file' = file /\ disk' = disk /\ dirty' = dirty /\ snap' = snap /\ saved' = saved
      /\ todo' = todo /\ acked' = acked /\ attempt' = attempt
  BY DEF fileVars
<1>3. kv' \in KVRecord
  BY DEF Whole, Mem, MemTypes
<1>4. Types'
  BY <1>1, <1>2, <1>3 DEF Types, MemSteps
<1>5. Phases'
  BY <1>2 DEF Phases, MemSteps, FlushSteps
<1>6. Versions' /\ Written'
  BY <1>1, <1>2 DEF Versions, Written, Base, FlushSteps
<1>7. Service'
  BY <1>2, MemService
<1>8. Metas'
  BY <1>1, <1>2 DEF Metas, Base, FlushSteps
<1> QED BY <1>4, <1>5, <1>6, <1>7, <1>8 DEF StoreInv

\* The operations that an update is made of, with the room they need.
TreeDone(z, k, M, D) ==
    /\ Whole(z, M, D)
    /\ z.root = k.root /\ z.version = k.version /\ z.failed = k.failed
    /\ z.maxVer = k.maxVer /\ z.curVer = k.curVer

LEMMA Operations ==
    ASSUME StoreInv, pc \in {"mem", "updated"}, Room
    PROVE  /\ TreeDone(New(kv).s, kv, saved, disk)
           /\ New(kv).ptr \in Pages \ {0}
           /\ DOMAIN New(kv).s.tree = DOMAIN kv.tree \cup {New(kv).ptr}
           /\ \A p \in DOMAIN kv.tree :
                /\ TreeDone(Del(kv, p), kv, saved, disk)
                /\ DOMAIN Del(kv, p).tree = DOMAIN kv.tree \ {p}
                /\ TreeDone(New(Del(kv, p)).s, kv, saved, disk)
                /\ New(Del(kv, p)).ptr \in Pages \ {0}
                /\ DOMAIN New(Del(kv, p)).s.tree = (DOMAIN kv.tree \ {p}) \cup {New(Del(kv, p)).ptr}
<1>1. Types /\ Phases /\ Versions
  BY DEF StoreInv
<1>2. Whole(kv, saved, disk) /\ Reads(file, disk)
  BY <1>1 DEF Phases, Types, MemSteps
<1>3. attempt \in 1 .. MaxAttempts
  <2>1. saved.version \in Nat /\ saved.version < attempt /\ attempt \in 0 .. MaxAttempts
    BY <1>1, BoundsAssumption DEF Types, Versions, MetaRecord
  <2> QED BY <2>1, BoundsAssumption
<1>4. kv.flushed \in Nat /\ kv.nappend \in Nat
  BY <1>1, BoundsAssumption DEF Types, KVRecord
<1>5. kv.flushed + kv.nappend < MaxPages /\ kv.flushed + (kv.nappend + 1) < MaxPages
  BY <1>4, BoundsAssumption DEF Room
<1>6. /\ Whole(New(kv).s, saved, disk) /\ TreeFrame(kv, New(kv).s)
      /\ New(kv).ptr \in Pages \ {0}
      /\ DOMAIN New(kv).s.tree = DOMAIN kv.tree \cup {New(kv).ptr}
  BY <1>2, <1>3, <1>5, NewWhole
<1>7. ASSUME NEW p \in DOMAIN kv.tree
      PROVE  /\ TreeDone(Del(kv, p), kv, saved, disk)
             /\ DOMAIN Del(kv, p).tree = DOMAIN kv.tree \ {p}
             /\ TreeDone(New(Del(kv, p)).s, kv, saved, disk)
             /\ New(Del(kv, p)).ptr \in Pages \ {0}
             /\ DOMAIN New(Del(kv, p)).s.tree = (DOMAIN kv.tree \ {p}) \cup {New(Del(kv, p)).ptr}
  <2> DEFINE z == Del(kv, p)
  <2>1. /\ Whole(z, saved, disk) /\ TreeFrame(kv, z)
        /\ DOMAIN z.tree = DOMAIN kv.tree \ {p}
    BY <1>2, <1>5, DelWhole
  <2> HIDE DEF z
  <2>2. z.flushed + z.nappend < MaxPages
    BY <1>5, <2>1 DEF TreeFrame
  <2>3. /\ Whole(New(z).s, saved, disk) /\ TreeFrame(z, New(z).s)
        /\ New(z).ptr \in Pages \ {0}
        /\ DOMAIN New(z).s.tree = DOMAIN z.tree \cup {New(z).ptr}
    BY <1>2, <1>3, <2>1, <2>2, NewWhole
  <2>4. TreeDone(z, kv, saved, disk) /\ TreeDone(New(z).s, kv, saved, disk)
    BY <2>1, <2>3 DEF TreeDone, TreeFrame
  <2> QED BY <2>1, <2>3, <2>4 DEF z
<1>8. TreeDone(New(kv).s, kv, saved, disk)
  BY <1>6 DEF TreeDone, TreeFrame
<1> QED BY <1>6, <1>7, <1>8

LEMMA TreeOpInv ==
    ASSUME StoreInv, TreeOp
    PROVE  StoreInv'
<1>1. /\ pc \in {"mem", "updated"} /\ Room /\ kv.root # 0 /\ pc' = "mem"
      /\ UNCHANGED <<fileVars, snap, saved, todo, acked, attempt, boundVars>>
  BY DEF TreeOp
<1>2. kv.root \in DOMAIN kv.tree
  BY <1>1 DEF StoreInv, Phases, MemSteps
<1>3. TreeDone(kv', kv, saved, disk) /\ kv.root \in DOMAIN kv'.tree
  <2>1. CASE \E p \in DOMAIN kv.tree \ {kv.root} : kv' = New(Del(kv, p)).s
    <3>1. PICK p \in DOMAIN kv.tree \ {kv.root} : kv' = New(Del(kv, p)).s
      BY <2>1
    <3> QED BY <1>1, <1>2, <3>1, Operations
  <2>2. CASE kv' = New(kv).s
    BY <1>1, <1>2, <2>2, Operations
  <2>3. CASE \E p \in DOMAIN kv.tree \ {kv.root} : kv' = Del(kv, p)
    <3>1. PICK p \in DOMAIN kv.tree \ {kv.root} : kv' = Del(kv, p)
      BY <2>3
    <3> QED BY <1>1, <1>2, <3>1, Operations
  <2> QED BY <2>1, <2>2, <2>3 DEF TreeOp
<1> QED BY <1>1, <1>3, TreeStep DEF TreeDone

\* A new root.
LEMMA SetRoot ==
    ASSUME NEW z, NEW k, NEW M, NEW D, TreeDone(z, k, M, D), NEW p \in Pages
    PROVE  LET y == [z EXCEPT !.root = p]
           IN  /\ Whole(y, M, D) /\ y.root = p /\ y.tree = z.tree /\ y.version = k.version
               /\ y.failed = k.failed /\ y.maxVer = k.maxVer /\ y.curVer = k.curVer
<1> DEFINE y == [z EXCEPT !.root = p]
<1>1. PICK L \in [Nat -> Pages], I \in [Nat -> Item] : Mem(z, z.tree, {}, {}, L, I, z.tailSeq, M, D)
  BY DEF TreeDone, Whole
<1>2. z \in KVRecord
  BY <1>1 DEF Mem, MemTypes
<1>3. /\ y \in KVRecord /\ SameList(z, y) /\ y.root = p /\ y.tree = z.tree /\ y.version = z.version
      /\ y.failed = z.failed /\ y.maxVer = z.maxVer /\ y.curVer = z.curVer /\ y.tailSeq = z.tailSeq
  BY <1>2 DEF KVRecord, SameList
<1> HIDE DEF y
<1>4. Mem(y, z.tree, {}, {}, L, I, z.tailSeq, M, D)
  BY <1>1, <1>3, SameListMem
<1>5. Whole(y, M, D)
  BY <1>3, <1>4 DEF Whole
<1> QED BY <1>3, <1>5 DEF TreeDone, y

LEMMA RootOpInv ==
    ASSUME StoreInv, RootOp
    PROVE  StoreInv'
<1>1. /\ pc \in {"mem", "updated"} /\ Room /\ pc' = "updated"
      /\ UNCHANGED <<fileVars, snap, saved, todo, acked, attempt, boundVars>>
  BY DEF RootOp
<1>2. kv.root = 0 \/ kv.root \in DOMAIN kv.tree
  BY <1>1 DEF StoreInv, Phases, MemSteps
<1>3. /\ Whole(kv', saved, disk) /\ kv'.root \in DOMAIN kv'.tree /\ kv'.version = kv.version
      /\ kv'.failed = kv.failed /\ kv'.maxVer = kv.maxVer /\ kv'.curVer = kv.curVer
  <2> DEFINE new == New(IF kv.root = 0 THEN kv ELSE Del(kv, kv.root))
  <2>1. CASE kv' = [new.s EXCEPT !.root = new.ptr]
    <3>1. TreeDone(new.s, kv, saved, disk) /\ new.ptr \in Pages /\ new.ptr \in DOMAIN new.s.tree
      <4>1. CASE kv.root = 0
        BY <1>1, <4>1, Operations
      <4>2. CASE kv.root # 0
        <5>1. kv.root \in DOMAIN kv.tree /\ new = New(Del(kv, kv.root))
          BY <1>2, <4>2
        <5> HIDE DEF new
        <5> QED BY <1>1, <5>1, Operations
      <4> QED BY <4>1, <4>2
    <3> HIDE DEF new
    <3> QED BY <2>1, <3>1, SetRoot
  <2>2. CASE kv.root # 0 /\ \E p \in DOMAIN kv.tree \ {kv.root} : kv' = [Del(kv, kv.root) EXCEPT !.root = p]
    <3>1. PICK p \in DOMAIN kv.tree \ {kv.root} : kv' = [Del(kv, kv.root) EXCEPT !.root = p]
      BY <2>2
    <3> DEFINE z == Del(kv, kv.root)
    <3>2. TreeDone(z, kv, saved, disk) /\ DOMAIN z.tree = DOMAIN kv.tree \ {kv.root}
      BY <1>1, <1>2, <2>2, Operations
    <3>3. p \in Pages /\ p \in DOMAIN z.tree
      <4>1. kv.tree \in PageMaps(1 .. MaxAttempts)
        BY DEF StoreInv, Types, KVRecord
      <4> QED BY <3>2, <4>1, PageMapFacts
    <3> HIDE DEF z
    <3>4. kv' = [z EXCEPT !.root = p]
      BY <3>1 DEF z
    <3> QED BY <3>2, <3>3, <3>4, SetRoot
  <2> QED BY <2>1, <2>2 DEF RootOp
<1> QED BY <1>1, <1>3, TreeStep

LEMMA EndTreeInv ==
    ASSUME StoreInv, EndTree
    PROVE  StoreInv'
<1> DEFINE k == [kv EXCEPT !.version = @ + 1]
<1>1. Types /\ Phases /\ Versions /\ Written /\ Service /\ Metas
  BY DEF StoreInv
<1>2. /\ pc = "updated" /\ kv' = k /\ pc' = (IF kv.failed THEN "rewrite" ELSE "pages")
      /\ todo' = DOMAIN kv.updates
      /\ file' = file /\ disk' = disk /\ dirty' = dirty /\ snap' = snap
      /\ saved' = saved /\ acked' = acked /\ attempt' = attempt
  BY DEF EndTree, fileVars
<1>3. /\ kv \in KVRecord /\ kv.version = saved.version /\ saved.version < attempt
      /\ attempt \in 0 .. MaxAttempts /\ saved.version \in Nat
      /\ kv.failed \in BOOLEAN
  BY <1>1, <1>2, BoundsAssumption DEF Types, KVRecord, MetaRecord, Versions
<1>4. kv.version + 1 \in 0 .. MaxAttempts
  BY <1>3, BoundsAssumption
<1>5. /\ k \in KVRecord /\ SameList(kv, k) /\ k.root = kv.root /\ k.tree = kv.tree
      /\ k.version = saved.version + 1 /\ k.failed = kv.failed
  BY <1>3, <1>4 DEF KVRecord, SameList
<1> HIDE DEF k
<1>6. Whole(k, saved, disk)
  <2>1. PICK L \in [Nat -> Pages], I \in [Nat -> Item] : Mem(kv, kv.tree, {}, {}, L, I, kv.tailSeq, saved, disk)
    BY <1>1, <1>2 DEF Phases, MemSteps, Whole
  <2>2. Mem(k, kv.tree, {}, {}, L, I, kv.tailSeq, saved, disk)
    BY <1>5, <2>1, SameListMem
  <2> QED BY <1>5, <2>2 DEF Whole, SameList
<1>7. k.root = 0 \/ k.root \in DOMAIN k.tree
  BY <1>1, <1>2, <1>5 DEF Phases, MemSteps
<1>8. k.updates = kv.updates /\ k.maxVer = kv.maxVer /\ k.curVer = kv.curVer
  BY <1>5 DEF SameList
<1>9. Types'
  BY <1>1, <1>2, <1>5 DEF Types, MemSteps
<1>10. Phases'
  BY <1>2, <1>6, <1>7 DEF Phases, MemSteps, FlushSteps
<1>11. Versions'
  BY <1>1, <1>2, <1>5, <1>8 DEF Versions, Base, FlushSteps
<1>12. Written'
  BY <1>2, <1>8 DEF Written
<1>13. Service'
  BY <1>2, <1>8, MemService
<1>14. Metas'
  BY <1>1, <1>2, <1>3, <1>5 DEF Metas, Base, FlushSteps
<1> QED BY <1>9, <1>10, <1>11, <1>12, <1>13, <1>14 DEF StoreInv

-----------------------------------------------------------------------------
(* Writing and syncing.                                                    *)

LEMMA MetaFewer ==
    ASSUME NEW d, NEW D, NEW D2, NEW last, Meta(d, D, last), Fewer(D2, D)
    PROVE  Meta(d, D2, last)
BY KeptFewer DEF Meta

\* What a sync leaves on disk.
LEMMA SyncFacts ==
    ASSUME Types
    PROVE  LET D2 == Synced(file, disk, dirty)
           IN  /\ D2 \in [Pages -> SUBSET FilePages] /\ Reads(file, D2) /\ file[0] \in D2[0]
               /\ Fewer(D2, disk) /\ D2[0] \subseteq disk[0]
               /\ 0 \in dirty => D2[0] = {file[0]}
<1>1. 0 \in Pages
  BY BoundsAssumption DEF Pages
<1> QED BY <1>1 DEF Types, Synced, Reads, Fewer

\* What a write of a page does to the types.
LEMMA PutFacts ==
    ASSUME Types, NEW p \in Pages, NEW n \in FilePages, p # 0 => n \in Node
    PROVE  /\ [file EXCEPT ![p] = n] \in [Pages -> FilePages]
           /\ PutDisk(disk, p, n) \in [Pages -> SUBSET FilePages]
           /\ Reads([file EXCEPT ![p] = n], PutDisk(disk, p, n))
           /\ [file EXCEPT ![p] = n][0] \in PutDisk(disk, p, n)[0]
           /\ dirty \cup {p} \subseteq Pages
           /\ \A x \in Pages : x # p => /\ PutDisk(disk, p, n)[x] = disk[x]
                                        /\ [file EXCEPT ![p] = n][x] = file[x]
           /\ PutDisk(disk, p, n)[p] = disk[p] \cup {n} /\ [file EXCEPT ![p] = n][p] = n
<1>1. 0 \in Pages
  BY BoundsAssumption DEF Pages
<1> QED BY <1>1 DEF Types, PutDisk, Reads

\* The meta page is written: no other page changes.
LEMMA PutMeta ==
    ASSUME Types, NEW m \in MetaRecord
    PROVE  LET D2 == PutDisk(disk, 0, MetaPage(m))
               f2 == [file EXCEPT ![0] = MetaPage(m)]
           IN  /\ f2 \in [Pages -> FilePages] /\ D2 \in [Pages -> SUBSET FilePages]
               /\ Reads(f2, D2) /\ f2[0] \in D2[0] /\ dirty \cup {0} \subseteq Pages
               /\ Fewer(D2, disk) /\ (\A p \in Pages \ {0} : f2[p] = file[p])
               /\ D2[0] = disk[0] \cup {MetaPage(m)} /\ f2[0] = MetaPage(m)
<1>1. 0 \in Pages
  BY BoundsAssumption DEF Pages
<1>2. MetaPage(m) \in FilePages
  BY MetaPageFacts
<1> DEFINE n == MetaPage(m)
<1> HIDE DEF n
<1>3. /\ [file EXCEPT ![0] = n] \in [Pages -> FilePages]
      /\ PutDisk(disk, 0, n) \in [Pages -> SUBSET FilePages]
      /\ Reads([file EXCEPT ![0] = n], PutDisk(disk, 0, n))
      /\ [file EXCEPT ![0] = n][0] \in PutDisk(disk, 0, n)[0]
      /\ dirty \cup {0} \subseteq Pages
      /\ \A x \in Pages : x # 0 => /\ PutDisk(disk, 0, n)[x] = disk[x]
                                   /\ [file EXCEPT ![0] = n][x] = file[x]
      /\ PutDisk(disk, 0, n)[0] = disk[0] \cup {n} /\ [file EXCEPT ![0] = n][0] = n
  BY <1>1, <1>2, PutFacts DEF n
<1>4. Fewer(PutDisk(disk, 0, n), disk)
  BY <1>3 DEF Fewer
<1> QED BY <1>3, <1>4 DEF n

LEMMA RewriteMetaInv ==
    ASSUME StoreInv, RewriteMeta
    PROVE  StoreInv'
<1> DEFINE D2 == PutDisk(disk, 0, MetaPage(saved))
           f2 == [file EXCEPT ![0] = MetaPage(saved)]
<1>1. Types /\ Phases /\ Versions /\ Written /\ Service /\ Metas
  BY DEF StoreInv
<1>2. /\ pc = "rewrite" /\ pc' = "resync" /\ file' = f2 /\ disk' = D2 /\ dirty' = dirty \cup {0}
      /\ kv' = kv /\ snap' = snap /\ saved' = saved /\ todo' = todo /\ acked' = acked /\ attempt' = attempt
  BY DEF RewriteMeta, pwrite, PutDisk
<1>3. saved \in MetaRecord /\ snap \in Snaps /\ kv.failed \in BOOLEAN
  BY <1>1 DEF Types, KVRecord
<1>4. /\ f2 \in [Pages -> FilePages] /\ D2 \in [Pages -> SUBSET FilePages]
      /\ Reads(f2, D2) /\ f2[0] \in D2[0] /\ dirty \cup {0} \subseteq Pages
      /\ Fewer(D2, disk) /\ (\A p \in Pages \ {0} : f2[p] = file[p])
      /\ D2[0] = disk[0] \cup {MetaPage(saved)} /\ f2[0] = MetaPage(saved)
  BY <1>1, <1>3, PutMeta
<1> HIDE DEF D2, f2
<1>5. Whole(kv, saved, disk) /\ (kv.root = 0 \/ kv.root \in DOMAIN kv.tree)
  BY <1>1, <1>2 DEF Phases, MemSteps
<1>6. Whole(kv, saved, D2)
  BY <1>4, <1>5, FewerViews, WholeFewer
<1>7. Serves(saved, disk, file, snap, kv.maxVer)
  BY <1>1, <1>2 DEF Service, Base
<1>8. Serves(saved, D2, f2, snap, kv.maxVer)
  <2>1. \A r \in Readers : snap[r].open => kv.maxVer <= snap[r].version
    BY <1>7 DEF Serves, ServesAt
  <2> QED BY <1>3, <1>4, <1>7, <2>1, ServesFewer
<1>9. Types'
  BY <1>1, <1>2, <1>4 DEF Types, MemSteps
<1>10. Phases'
  BY <1>2, <1>5, <1>6 DEF Phases, MemSteps, FlushSteps
<1>11. Versions' /\ Service'
  BY <1>1, <1>2, <1>8 DEF Versions, Service, Base, FlushSteps
<1>12. Written'
  BY <1>1, <1>2, <1>4 DEF Written
<1>13. Metas'
  <2>1. saved.version <= attempt /\ acked <= saved.version
    BY <1>1, <1>2 DEF Versions, Base
  <2>2. Meta(MetaPage(saved), D2, attempt)
    BY <1>3, <1>8, <2>1, ServesKept DEF Meta
  <2>3. ASSUME NEW d \in D2[0] PROVE d = Absent \/ Meta(d, D2, attempt)
    BY <1>1, <1>4, <2>2, MetaFewer DEF Metas
  <2>4. acked > 0 => \A d \in D2[0] : HasSig(d) /\ d.meta.version >= acked
    <3>1. saved.version \in Nat /\ acked \in Nat
      BY <1>1, BoundsAssumption DEF Types, MetaRecord
    <3>2. HasSig(MetaPage(saved)) /\ MetaPage(saved).meta.version >= acked
      BY <2>1, <3>1, MetaPageFacts
    <3> QED BY <1>1, <1>4, <3>2 DEF Metas
  <2>5. ~kv.failed => \A d \in D2[0] : d = Absent \/ d = MetaPage(saved)
    BY <1>1, <1>2, <1>4 DEF Metas, Base
  <2> QED BY <1>2, <2>3, <2>4, <2>5 DEF Metas, Base, FlushSteps
<1> QED BY <1>9, <1>10, <1>11, <1>12, <1>13 DEF StoreInv

LEMMA SyncRewriteInv ==
    ASSUME StoreInv, SyncRewrite
    PROVE  StoreInv'
<1> DEFINE D2 == Synced(file, disk, dirty)
           k == [kv EXCEPT !.failed = FALSE]
<1>1. Types /\ Phases /\ Versions /\ Written /\ Service /\ Metas
  BY DEF StoreInv
<1>2. /\ pc = "resync" /\ pc' = "pages" /\ file' = file /\ disk' = D2 /\ dirty' = {}
      /\ kv' = k /\ snap' = snap /\ saved' = saved /\ todo' = todo /\ acked' = acked /\ attempt' = attempt
  BY DEF SyncRewrite, fsync, Synced
<1>3. kv \in KVRecord /\ saved \in MetaRecord /\ snap \in Snaps
  BY <1>1 DEF Types
<1>4. /\ D2 \in [Pages -> SUBSET FilePages] /\ Reads(file, D2) /\ file[0] \in D2[0]
      /\ Fewer(D2, disk) /\ D2[0] \subseteq disk[0]
      /\ D2[0] = {MetaPage(saved)}
  <2>1. 0 \in dirty /\ file[0] = MetaPage(saved)
    BY <1>1, <1>2 DEF Written
  <2> QED BY <1>1, <2>1, SyncFacts
<1>5. /\ k \in KVRecord /\ SameList(kv, k) /\ k.root = kv.root /\ k.tree = kv.tree
      /\ k.version = kv.version /\ k.failed = FALSE
  BY <1>3 DEF KVRecord, SameList
<1> HIDE DEF D2, k
<1>6. Whole(kv, saved, disk) /\ (kv.root = 0 \/ kv.root \in DOMAIN kv.tree)
  BY <1>1, <1>2 DEF Phases, MemSteps
<1>7. Whole(k, saved, D2)
  <2>1. Whole(kv, saved, D2)
    BY <1>4, <1>6, FewerViews, WholeFewer
  <2>2. PICK L \in [Nat -> Pages], I \in [Nat -> Item] : Mem(kv, kv.tree, {}, {}, L, I, kv.tailSeq, saved, D2)
    BY <2>1 DEF Whole
  <2>3. Mem(k, kv.tree, {}, {}, L, I, kv.tailSeq, saved, D2)
    BY <1>5, <2>2, SameListMem
  <2> QED BY <1>5, <2>3 DEF Whole, SameList
<1>8. k.updates = kv.updates /\ k.maxVer = kv.maxVer /\ k.curVer = kv.curVer
  BY <1>5 DEF SameList
<1>9. Serves(saved, D2, file, snap, kv.maxVer)
  <2>1. Serves(saved, disk, file, snap, kv.maxVer)
    BY <1>1, <1>2 DEF Service, Base
  <2>2. \A r \in Readers : snap[r].open => kv.maxVer <= snap[r].version
    BY <2>1 DEF Serves, ServesAt
  <2> QED BY <1>3, <1>4, <2>1, <2>2, ServesFewer
<1>10. Types'
  BY <1>1, <1>2, <1>4, <1>5 DEF Types, MemSteps
<1>11. Phases'
  BY <1>2, <1>5, <1>6, <1>7 DEF Phases, MemSteps, FlushSteps
<1>12. Versions' /\ Service'
  BY <1>1, <1>2, <1>5, <1>8, <1>9 DEF Versions, Service, Base, FlushSteps
<1>13. Written'
  BY <1>1, <1>2, <1>8 DEF Written
<1>14. Metas'
  <2>1. \A d \in D2[0] : d = Absent \/ Meta(d, D2, attempt)
    BY <1>1, <1>4, MetaFewer DEF Metas
  <2> QED BY <1>1, <1>2, <1>4, <1>5, <2>1 DEF Metas, Base, FlushSteps
<1> QED BY <1>10, <1>11, <1>12, <1>13, <1>14 DEF StoreInv

LEMMA WritePageInv ==
    ASSUME StoreInv, WritePage
    PROVE  StoreInv'
<1>1. Types /\ Phases /\ Versions /\ Written /\ Service /\ Metas
  BY DEF StoreInv
<1>2. pc = "pages" /\ kv' = kv /\ snap' = snap /\ pc' = pc /\ saved' = saved /\ acked' = acked
      /\ attempt' = attempt
  BY DEF WritePage
<1>3. PICK p \in todo : pwrite(p, kv.updates[p]) /\ todo' = todo \ {p}
  BY DEF WritePage
<1> DEFINE n == kv.updates[p]
           D2 == PutDisk(disk, p, n)
           f2 == [file EXCEPT ![p] = n]
<1>4. file' = f2 /\ disk' = D2 /\ dirty' = dirty \cup {p}
  BY <1>3 DEF pwrite, PutDisk
<1>5. /\ disk \in [Pages -> SUBSET FilePages] /\ file \in [Pages -> FilePages] /\ Reads(file, disk)
      /\ snap \in Snaps /\ saved \in MetaRecord
  BY <1>1 DEF Types
<1>6. Whole(kv, saved, disk) /\ (kv.root = 0 \/ kv.root \in DOMAIN kv.tree)
  BY <1>1, <1>2 DEF Phases, MemSteps
<1>7. p \in DOMAIN kv.updates /\ Serves(saved, disk, file, snap, kv.maxVer)
  BY <1>1, <1>2, <1>3 DEF Written, Service, Base
<1>8. Whole(kv, saved, D2) /\ p \in Pages \ {0} /\ n \in Node
  BY <1>5, <1>6, <1>7, WholeWrite
<1>9. Serves(saved, D2, f2, snap, kv.maxVer)
  BY <1>5, <1>6, <1>7, ServesWrite
<1>10. n \in FilePages
  BY <1>8, MetaPageFacts
<1> HIDE DEF n
<1>11. /\ f2 \in [Pages -> FilePages] /\ D2 \in [Pages -> SUBSET FilePages] /\ Reads(f2, D2)
       /\ f2[0] \in D2[0] /\ dirty \cup {p} \subseteq Pages
       /\ (\A x \in Pages : x # p => D2[x] = disk[x] /\ f2[x] = file[x])
       /\ f2[p] = n
  <2>1. p \in Pages
    BY <1>8
  <2> QED BY <1>1, <1>8, <1>10, <2>1, PutFacts
<1> HIDE DEF D2, f2
<1>12. D2[0] = disk[0]
  BY <1>8, <1>11, BoundsAssumption DEF Pages
<1>13. Types'
  BY <1>1, <1>2, <1>4, <1>11 DEF Types
<1>14. Phases'
  BY <1>2, <1>4, <1>6, <1>8 DEF Phases, MemSteps, FlushSteps
<1>15. Versions' /\ Service'
  BY <1>1, <1>2, <1>4, <1>9 DEF Versions, Service, Base
<1>16. Written'
  <2>1. DOMAIN kv.updates \subseteq Pages
    <3>1. kv.updates \in PageMaps(Node)
      BY <1>1 DEF Types, KVRecord
    <3> QED BY <3>1, PageMapFacts
  <2>2. ASSUME NEW x \in DOMAIN kv.updates \ (todo \ {p})
        PROVE  x \in dirty \cup {p} /\ f2[x] = kv.updates[x]
    <3>1. CASE x = p
      BY <1>11, <3>1 DEF n
    <3>2. CASE x # p
      BY <1>1, <1>2, <1>11, <2>1, <3>2 DEF Written
    <3> QED BY <3>1, <3>2
  <2>3. todo \ {p} \subseteq DOMAIN kv.updates
    BY <1>1, <1>2 DEF Written
  <2> QED BY <1>2, <1>3, <1>4, <2>2, <2>3 DEF Written
<1>17. Metas'
  <2>1. ~kv.failed /\ saved.version <= attempt
    BY <1>1, <1>2 DEF Metas, Versions, Base
  <2>2. \A d \in disk[0] : d = Absent \/ d = MetaPage(saved)
    BY <1>1, <1>2, <2>1 DEF Metas, Base
  <2>3. Meta(MetaPage(saved), D2, attempt)
    BY <1>5, <1>9, <2>1, ServesKept DEF Meta
  <2>4. \A d \in D2[0] : d = Absent \/ Meta(d, D2, attempt)
    BY <1>12, <2>2, <2>3
  <2> QED BY <1>1, <1>2, <1>4, <1>12, <2>4 DEF Metas, Base
<1> QED BY <1>13, <1>14, <1>15, <1>16, <1>17 DEF StoreInv

LEMMA PagesWrittenInv ==
    ASSUME StoreInv, PagesWritten
    PROVE  StoreInv'
<1> DEFINE k == Flush(kv)
<1>1. Types /\ Phases /\ Versions /\ Written /\ Service /\ Metas
  BY DEF StoreInv
<1>2. /\ pc = "pages" /\ todo = {} /\ kv' = k /\ pc' = "sync1"
      /\ file' = file /\ disk' = disk /\ dirty' = dirty /\ snap' = snap /\ saved' = saved
      /\ todo' = todo /\ acked' = acked /\ attempt' = attempt
  BY DEF PagesWritten, Flush, fileVars
<1>3. kv \in KVRecord /\ Reads(file, disk) /\ Whole(kv, saved, disk)
      /\ (kv.root = 0 \/ kv.root \in DOMAIN kv.tree)
  BY <1>1, <1>2 DEF Types, Phases, MemSteps
<1>4. \A p \in DOMAIN kv.updates : p \in dirty /\ file[p] = kv.updates[p]
  BY <1>1, <1>2 DEF Written
<1>5. Flushed(k, saved, disk, Synced(file, disk, dirty)) /\ k \in KVRecord
  BY <1>3, <1>4, FlushWhole
<1>6. /\ k.updates = <<>> /\ k.nappend = 0 /\ k.version = kv.version /\ k.curVer = kv.curVer
      /\ k.maxVer = kv.maxVer /\ k.failed = kv.failed
  BY <1>3 DEF Flush, KVRecord
<1> HIDE DEF k
<1>7. Types'
  BY <1>1, <1>2, <1>5 DEF Types, FlushSteps
<1>8. Phases'
  BY <1>2, <1>5, <1>6 DEF Phases, Quiet, MemSteps, FlushSteps
<1>9. Versions' /\ Written'
  BY <1>1, <1>2, <1>6 DEF Versions, Written, Base, FlushSteps
<1>10. Service'
  BY <1>2, <1>6, MemService
<1>11. Metas'
  BY <1>1, <1>2, <1>6 DEF Metas, Base, FlushSteps
<1> QED BY <1>7, <1>8, <1>9, <1>10, <1>11 DEF StoreInv

LEMMA SyncPagesInv ==
    ASSUME StoreInv, SyncPages
    PROVE  StoreInv'
<1> DEFINE D2 == Synced(file, disk, dirty)
<1>1. Types /\ Phases /\ Versions /\ Written /\ Service /\ Metas
  BY DEF StoreInv
<1>2. /\ pc = "sync1" /\ pc' = "root" /\ file' = file /\ disk' = D2 /\ dirty' = {}
      /\ kv' = kv /\ snap' = snap /\ saved' = saved /\ todo' = todo /\ acked' = acked /\ attempt' = attempt
  BY DEF SyncPages, fsync, Synced
<1>3. snap \in Snaps
  BY <1>1 DEF Types
<1>4. /\ D2 \in [Pages -> SUBSET FilePages] /\ Reads(file, D2) /\ file[0] \in D2[0]
      /\ Fewer(D2, disk) /\ D2[0] \subseteq disk[0]
  BY <1>1, SyncFacts
<1>5. Quiet /\ Flushed(kv, saved, disk, D2)
  BY <1>1, <1>2 DEF Phases, FlushSteps
<1> HIDE DEF D2
<1>6. Flushed(kv, saved, D2, D2)
  <2>1. Fewer(D2, D2)
    BY DEF Fewer
  <2> QED BY <1>4, <1>5, <2>1, FlushedFewer
<1>7. Serves(saved, D2, file, snap, kv.maxVer)
  <2>1. Serves(saved, disk, file, snap, kv.maxVer)
    BY <1>1, <1>2 DEF Service, Base
  <2>2. \A r \in Readers : snap[r].open => kv.maxVer <= snap[r].version
    BY <2>1 DEF Serves, ServesAt
  <2> QED BY <1>3, <1>4, <2>1, <2>2, ServesFewer
<1>8. Types'
  BY <1>1, <1>2, <1>4 DEF Types, FlushSteps
<1>9. Phases'
  BY <1>2, <1>5, <1>6 DEF Phases, Quiet, MemSteps, FlushSteps
<1>10. Versions' /\ Written' /\ Service'
  BY <1>1, <1>2, <1>7 DEF Versions, Written, Service, Base, FlushSteps
<1>11. Metas'
  <2>1. \A d \in D2[0] : d = Absent \/ Meta(d, D2, attempt)
    BY <1>1, <1>4, MetaFewer DEF Metas
  <2> QED BY <1>1, <1>2, <1>4, <2>1 DEF Metas, Base, FlushSteps
<1> QED BY <1>8, <1>9, <1>10, <1>11 DEF StoreInv

LEMMA updateRootInv ==
    ASSUME StoreInv, updateRoot
    PROVE  StoreInv'
<1> DEFINE m == saveMeta(kv)
           D2 == PutDisk(disk, 0, MetaPage(m))
           f2 == [file EXCEPT ![0] = MetaPage(m)]
<1>1. Types /\ Phases /\ Versions /\ Written /\ Service /\ Metas
  BY DEF StoreInv
<1>2. /\ pc = "root" /\ pc' = "sync2" /\ file' = f2 /\ disk' = D2 /\ dirty' = dirty \cup {0}
      /\ kv' = kv /\ snap' = snap /\ saved' = saved /\ todo' = todo /\ acked' = acked /\ attempt' = attempt
  BY DEF updateRoot, pwrite, PutDisk
<1>3. snap \in Snaps /\ Quiet /\ Flushed(kv, saved, disk, disk)
  BY <1>1, <1>2 DEF Types, Phases, FlushSteps
<1>4. m \in MetaRecord
  BY <1>3, FlushedKept
<1>5. /\ f2 \in [Pages -> FilePages] /\ D2 \in [Pages -> SUBSET FilePages]
      /\ Reads(f2, D2) /\ f2[0] \in D2[0] /\ dirty \cup {0} \subseteq Pages
      /\ Fewer(D2, disk) /\ (\A p \in Pages \ {0} : f2[p] = file[p])
      /\ D2[0] = disk[0] \cup {MetaPage(m)} /\ f2[0] = MetaPage(m)
  BY <1>1, <1>4, PutMeta
<1> HIDE DEF D2, f2
<1>6. Flushed(kv, saved, D2, D2)
  BY <1>3, <1>5, FlushedFewer
<1>7. Serves(saved, D2, f2, snap, kv.maxVer)
  <2>1. Serves(saved, disk, file, snap, kv.maxVer)
    BY <1>1, <1>2 DEF Service, Base
  <2>2. \A r \in Readers : snap[r].open => kv.maxVer <= snap[r].version
    BY <2>1 DEF Serves, ServesAt
  <2> QED BY <1>3, <1>5, <2>1, <2>2, ServesFewer
<1>8. Types'
  BY <1>1, <1>2, <1>5 DEF Types, FlushSteps
<1>9. Phases'
  BY <1>2, <1>3, <1>6 DEF Phases, Quiet, MemSteps, FlushSteps
<1>10. Versions' /\ Written' /\ Service'
  BY <1>1, <1>2, <1>5, <1>7 DEF Versions, Written, Service, Base, FlushSteps
<1>11. Metas'
  <2>1. /\ acked <= saved.version /\ saved.version < attempt /\ kv.version = saved.version + 1
        /\ saved.version \in Nat /\ acked \in Nat /\ attempt \in Nat
    BY <1>1, <1>2, BoundsAssumption DEF Versions, Base, Types, MetaRecord, FlushSteps
  <2>2. m.version = kv.version
    BY DEF saveMeta
  <2>3. m.version <= attempt /\ m.version >= acked
    BY <2>1, <2>2
  <2>4. Meta(MetaPage(m), D2, attempt)
    BY <1>4, <1>6, <2>3, FlushedKept DEF Meta
  <2>5. ASSUME NEW d \in D2[0] PROVE d = Absent \/ Meta(d, D2, attempt)
    BY <1>1, <1>5, <2>4, MetaFewer DEF Metas
  <2>6. acked > 0 => \A d \in D2[0] : HasSig(d) /\ d.meta.version >= acked
    <3>1. HasSig(MetaPage(m)) /\ MetaPage(m).meta.version >= acked
      BY <2>3, MetaPageFacts
    <3> QED BY <1>1, <1>5, <3>1 DEF Metas
  <2>7. ~kv.failed /\ \A d \in D2[0] : d = Absent \/ d = MetaPage(saved) \/ d = MetaPage(m)
    BY <1>1, <1>2, <1>5 DEF Metas, Base, FlushSteps
  <2> QED BY <1>2, <2>5, <2>6, <2>7 DEF Metas, Base, FlushSteps
<1> QED BY <1>8, <1>9, <1>10, <1>11 DEF StoreInv

\* Finalize: what Commit does to the free list at its end.
LEMMA FinalizeFacts ==
    ASSUME Types, NEW k \in KVRecord
    PROVE  LET z == Finalize(k)
           IN  /\ z \in KVRecord /\ saveMeta(z) = saveMeta(k)
               /\ z.updates = k.updates /\ z.nappend = k.nappend /\ z.maxSeq = z.tailSeq
               /\ z.version = k.version /\ z.failed = k.failed /\ z.maxVer <= z.version
               /\ \A r \in Readers : snap[r].open => z.maxVer <= snap[r].version
<1> DEFINE v == minVersion(k.version, OpenReaders)
<1>1. k.version \in Nat
  BY BoundsAssumption DEF KVRecord
<1>2. OpenReaders \in SUBSET Readers /\ \A r \in OpenReaders : snap[r].version \in Nat
  BY BoundsAssumption DEF OpenReaders, Types, Snaps
<1>3. v \in Nat /\ v <= k.version /\ \A r \in OpenReaders : v <= snap[r].version
  BY <1>1, <1>2, MinVersionFacts
<1>4. Finalize(k) = SetMaxVer(k, v)
  BY DEF Finalize
<1> HIDE DEF v
<1>5. /\ Finalize(k) \in KVRecord /\ saveMeta(Finalize(k)) = saveMeta(k)
      /\ Finalize(k).updates = k.updates /\ Finalize(k).nappend = k.nappend
      /\ Finalize(k).maxSeq = k.tailSeq /\ Finalize(k).tailSeq = k.tailSeq
      /\ Finalize(k).maxVer = v /\ Finalize(k).version = k.version /\ Finalize(k).failed = k.failed
  <2>1. Released(Finalize(k), k, v)
    BY <1>3, <1>4, SetMaxVerFacts
  <2> QED BY <2>1 DEF Released
<1> QED BY <1>3, <1>5 DEF OpenReaders

LEMMA SyncRootInv ==
    ASSUME StoreInv, SyncRoot
    PROVE  StoreInv'
<1> DEFINE D2 == Synced(file, disk, dirty)
           m == saveMeta(kv)
<1>1. Types /\ Phases /\ Versions /\ Written /\ Service /\ Metas
  BY DEF StoreInv
<1>2. /\ pc = "sync2" /\ pc' = "idle" /\ file' = file /\ disk' = D2 /\ dirty' = {}
      /\ kv' = Finalize(kv) /\ acked' = kv.version
      /\ snap' = snap /\ saved' = saved /\ todo' = todo /\ attempt' = attempt
  BY DEF SyncRoot, fsync, Synced
<1>3. /\ kv \in KVRecord /\ snap \in Snaps /\ Quiet /\ Flushed(kv, saved, disk, disk) /\ ~kv.failed
      /\ kv.version \in Nat
  BY <1>1, <1>2, BoundsAssumption DEF Types, Phases, FlushSteps, Metas, KVRecord
<1>4. /\ D2 \in [Pages -> SUBSET FilePages] /\ Reads(file, D2) /\ file[0] \in D2[0]
      /\ Fewer(D2, disk) /\ D2[0] \subseteq disk[0] /\ D2[0] = {MetaPage(m)}
  <2>1. 0 \in dirty /\ file[0] = MetaPage(m)
    BY <1>1, <1>2 DEF Written
  <2> QED BY <1>1, <2>1, SyncFacts
<1>5. /\ kv' \in KVRecord /\ saveMeta(kv') = m
      /\ kv'.updates = kv.updates /\ kv'.nappend = kv.nappend /\ kv'.maxSeq = kv'.tailSeq
      /\ kv'.version = kv.version /\ kv'.failed = kv.failed /\ kv'.maxVer <= kv'.version
      /\ \A r \in Readers : snap[r].open => kv'.maxVer <= snap[r].version
  BY <1>1, <1>2, <1>3, FinalizeFacts
<1> HIDE DEF D2
<1>6. Flushed(kv, saved, D2, D2)
  BY <1>3, <1>4, FlushedFewer
<1>7. Serves(m, D2, file, snap, kv'.maxVer)
  <2>1. Serves(saved, disk, file, snap, kv.maxVer)
    BY <1>1, <1>2 DEF Service, Base
  <2>2. \A r \in Readers : snap[r].open => kv.maxVer <= snap[r].version
    BY <2>1 DEF Serves, ServesAt
  <2>3. Serves(saved, D2, file, snap, kv.maxVer)
    BY <1>3, <1>4, <2>1, <2>2, ServesFewer
  <2>4. kv.curVer = saved.version + 1 /\ kv.version = saved.version + 1
    BY <1>1, <1>2 DEF Versions, FlushSteps
  <2> QED BY <1>3, <1>4, <1>5, <1>6, <2>3, <2>4, ServesCommit
<1>8. m.version = kv.version
  BY DEF saveMeta
<1>9. kv.version <= attempt
  <2>1. kv.version = saved.version + 1 /\ saved.version < attempt /\ saved.version \in Nat /\ attempt \in Nat
    BY <1>1, <1>2, BoundsAssumption DEF Versions, FlushSteps, Types, MetaRecord
  <2> QED BY <2>1
<1> HIDE DEF m
<1>10. Types'
  BY <1>1, <1>2, <1>3, <1>4, <1>5 DEF Types
<1>11. Phases'
  BY <1>2, <1>3, <1>5 DEF Phases, Quiet, MemSteps, FlushSteps
<1>12. Versions'
  BY <1>2, <1>3, <1>5, <1>8, <1>9 DEF Versions, Base, FlushSteps
<1>13. Written' /\ Service'
  BY <1>2, <1>5, <1>7 DEF Written, Service, Base
<1>14. Metas'
  <2>1. \A d \in D2[0] : d = Absent \/ Meta(d, D2, attempt)
    BY <1>1, <1>4, MetaFewer DEF Metas
  <2>2. HasSig(MetaPage(m)) /\ MetaPage(m).meta.version >= kv.version
    BY <1>3, <1>8, MetaPageFacts
  <2> QED BY <1>2, <1>4, <1>5, <2>1, <2>2 DEF Metas, Base, FlushSteps
<1> QED BY <1>10, <1>11, <1>12, <1>13, <1>14 DEF StoreInv

LEMMA UpdateFailsInv ==
    ASSUME StoreInv, UpdateFails
    PROVE  StoreInv'
<1> DEFINE k == [loadMeta(kv, saved) EXCEPT !.failed = TRUE, !.nappend = 0, !.updates = <<>>]
<1>1. Types /\ Phases /\ Versions /\ Written /\ Service /\ Metas
  BY DEF StoreInv
<1>2. /\ pc \in {"pages"} \cup FlushSteps /\ pc' = "idle" /\ kv' = Finalize(k) /\ todo' = {}
      /\ snap' = snap /\ saved' = saved /\ acked' = acked /\ attempt' = attempt
  BY DEF UpdateFails, FlushSteps
<1>3. file' = file /\ disk' = disk /\ dirty' \subseteq Pages
  BY <1>1 DEF UpdateFails, Fault, fsyncFails, fileVars, Types
<1>4. kv \in KVRecord /\ saved \in MetaRecord /\ snap \in Snaps
  BY <1>1 DEF Types
<1>5. k \in KVRecord /\ saveMeta(k) = saved /\ k.updates = <<>> /\ k.nappend = 0 /\ k.failed = TRUE
      /\ k.version = saved.version
  <2>1. <<>> \in PageMaps(Node)
    <3> DEFINE S == Node
    <3> HIDE DEF S
    <3>1. <<>> \in PageMaps(S)
      BY EmptyMap
    <3> QED BY <3>1 DEF S
  <2> DEFINE j == loadMeta(kv, saved)
  <2>2. j \in KVRecord /\ saveMeta(j) = saved /\ j.version = saved.version
    BY <1>4, LoadMetaFacts
  <2> HIDE DEF j
  <2>3. /\ [j EXCEPT !.failed = TRUE, !.nappend = 0, !.updates = <<>>] \in KVRecord
        /\ saveMeta([j EXCEPT !.failed = TRUE, !.nappend = 0, !.updates = <<>>]) = saveMeta(j)
        /\ [j EXCEPT !.failed = TRUE, !.nappend = 0, !.updates = <<>>].updates = <<>>
        /\ [j EXCEPT !.failed = TRUE, !.nappend = 0, !.updates = <<>>].nappend = 0
        /\ [j EXCEPT !.failed = TRUE, !.nappend = 0, !.updates = <<>>].failed = TRUE
        /\ [j EXCEPT !.failed = TRUE, !.nappend = 0, !.updates = <<>>].version = j.version
    BY <2>1, <2>2 DEF KVRecord, saveMeta
  <2> QED BY <2>2, <2>3 DEF j
<1> HIDE DEF k
<1>6. /\ kv' \in KVRecord /\ saveMeta(kv') = saved
      /\ kv'.updates = <<>> /\ kv'.nappend = 0 /\ kv'.maxSeq = kv'.tailSeq
      /\ kv'.version = saved.version /\ kv'.failed = TRUE /\ kv'.maxVer <= kv'.version
      /\ \A r \in Readers : snap[r].open => kv'.maxVer <= snap[r].version
  BY <1>1, <1>2, <1>5, FinalizeFacts
<1>7. Serves(saved, disk, file, snap, kv'.maxVer)
  <2>1. Serves(saved, disk, file, snap, kv.maxVer)
    BY <1>1, <1>2 DEF Service, Base, FlushSteps
  <2>2. Fewer(disk, disk)
    BY DEF Fewer
  <2> QED BY <1>4, <1>6, <2>1, <2>2, ServesFewer
<1>8. Types'
  BY <1>1, <1>2, <1>3, <1>6 DEF Types
<1>9. Phases'
  BY <1>2, <1>6 DEF Phases, Quiet, MemSteps, FlushSteps
<1>10. Versions'
  BY <1>1, <1>2, <1>6 DEF Versions, Base, FlushSteps
<1>11. Written' /\ Service'
  BY <1>2, <1>3, <1>6, <1>7 DEF Written, Service, Base
<1>12. Metas'
  BY <1>1, <1>2, <1>3, <1>6 DEF Metas, Base, FlushSteps
<1> QED BY <1>8, <1>9, <1>10, <1>11, <1>12 DEF StoreInv

-----------------------------------------------------------------------------
(* Crashes.                                                                *)

\* What is left of the file and the disk.
LEMMA CrashFacts ==
    ASSUME Types, NEW f \in Survivors
    PROVE  LET D2 == [p \in Pages |-> {f[p]}]
           IN  /\ f \in [Pages -> FilePages] /\ D2 \in [Pages -> SUBSET FilePages]
               /\ Reads(f, D2) /\ f[0] \in D2[0] /\ Fewer(D2, disk)
               /\ D2[0] = {f[0]} /\ f[0] \in disk[0]
<1>1. 0 \in Pages
  BY BoundsAssumption DEF Pages
<1>2. f \in [Pages -> FilePages] /\ \A p \in Pages : f[p] \in disk[p]
  BY SurvivorFacts DEF Types
<1> QED BY <1>1, <1>2 DEF Types, Reads, Fewer

LEMMA CrashInv ==
    ASSUME StoreInv, Crash
    PROVE  StoreInv'
<1>1. Types /\ Phases /\ Versions /\ Written /\ Service /\ Metas
  BY DEF StoreInv
<1>2. PICK f \in Survivors :
         /\ file' = f
         /\ disk' = [p \in Pages |-> {f[p]}]
         /\ IF fileSize(f) = 0 \/ metaOK(f)
            THEN kv' = readRoot(f) /\ pc' = "idle"
            ELSE kv' = Blank /\ pc' = "dead"
  BY DEF Crash
<1>3. /\ dirty' = {} /\ snap' = [r \in Readers |-> NoSnap] /\ saved' = saveMeta(Blank) /\ todo' = {}
      /\ acked' = acked /\ attempt' = attempt
  BY DEF Crash
<1> DEFINE D2 == [p \in Pages |-> {f[p]}]
<1>4. /\ f \in [Pages -> FilePages] /\ D2 \in [Pages -> SUBSET FilePages]
      /\ Reads(f, D2) /\ f[0] \in D2[0] /\ Fewer(D2, disk) /\ D2[0] = {f[0]} /\ f[0] \in disk[0]
  BY <1>1, CrashFacts
<1>5. disk' = D2
  BY <1>2
<1> HIDE DEF D2
<1>6. \A r \in Readers : ~snap'[r].open
  BY <1>3 DEF NoSnap
<1>7. snap' \in Snaps
  <2> DEFINE S == 1 .. MaxAttempts
  <2> HIDE DEF S
  <2>1. <<>> \in PageMaps(S) /\ 0 \in 0 .. MaxAttempts
    BY EmptyMap, BoundsAssumption
  <2>2. NoSnap \in [open : BOOLEAN, version : 0 .. MaxAttempts, tree : PageMaps(S)]
    BY <2>1 DEF NoSnap
  <2> QED BY <1>3, <2>2 DEF Snaps, S
<1>8. f[0] = Absent \/ Meta(f[0], D2, attempt)
  BY <1>1, <1>4, MetaFewer DEF Metas
<1>9. acked > 0 => HasSig(f[0]) /\ f[0].meta.version >= acked
  BY <1>1, <1>4 DEF Metas
<1>10. acked \in Nat /\ attempt \in 0 .. MaxAttempts /\ attempt \in Nat
  BY <1>1, BoundsAssumption DEF Types
\* The program opens a file: its meta data are those on file, or new ones.
<1>11. CASE \E m \in MetaRecord :
              /\ kv' \in KVRecord /\ saveMeta(kv') = m /\ kv'.version = m.version
              /\ kv'.updates = <<>> /\ kv'.nappend = 0
              /\ kv'.maxSeq = kv'.tailSeq /\ kv'.maxVer <= kv'.version /\ kv'.failed = FALSE
              /\ pc' = "idle" /\ Kept(m, D2) /\ m.version <= attempt /\ acked <= m.version
              /\ f[0] = Absent \/ f[0] = MetaPage(m)
  <2>1. PICK m \in MetaRecord :
              /\ kv' \in KVRecord /\ saveMeta(kv') = m /\ kv'.version = m.version
              /\ kv'.updates = <<>> /\ kv'.nappend = 0
              /\ kv'.maxSeq = kv'.tailSeq /\ kv'.maxVer <= kv'.version /\ kv'.failed = FALSE
              /\ pc' = "idle" /\ Kept(m, D2) /\ m.version <= attempt /\ acked <= m.version
              /\ f[0] = Absent \/ f[0] = MetaPage(m)
    BY <1>11
  <2>2. Types'
    BY <1>2, <1>3, <1>4, <1>5, <1>7, <1>10, <2>1, BlankFacts DEF Types
  <2>3. Phases'
    BY <1>3, <2>1 DEF Phases, Quiet, MemSteps, FlushSteps
  <2>4. Versions' /\ Written'
    BY <1>3, <2>1 DEF Versions, Written, Base, FlushSteps
  <2>5. Service'
    <3>1. Serves(m, D2, f, snap', kv'.maxVer)
      BY <1>6, <2>1, ServesNone
    <3> QED BY <1>2, <1>5, <2>1, <3>1 DEF Service, Base
  <2>6. Metas'
    BY <1>3, <1>4, <1>5, <1>8, <1>9, <2>1 DEF Metas, Base, FlushSteps
  <2> QED BY <2>2, <2>3, <2>4, <2>5, <2>6 DEF StoreInv
<1>12. CASE fileSize(f) = 0
  <2>1. f[0] = Absent
    BY <1>12, EmptyFile, BoundsAssumption DEF Pages
  <2>2. acked = 0
    BY <1>9, <1>10, <2>1, MetaPageFacts
  <2>3. kv' = EmptyKV /\ pc' = "idle"
    BY <1>2, <1>12 DEF readRoot, EmptyKV
  <2> DEFINE m == saveMeta(EmptyKV)
  <2>4. m \in MetaRecord /\ Kept(m, D2) /\ EmptyKV \in KVRecord
    BY BlankFacts, EmptyStore
  <2>5. /\ EmptyKV.updates = <<>> /\ EmptyKV.nappend = 0 /\ EmptyKV.maxSeq = EmptyKV.tailSeq
        /\ EmptyKV.maxVer = 0 /\ EmptyKV.version = 0 /\ EmptyKV.failed = FALSE /\ m.version = 0
    BY DEF EmptyKV, Blank, saveMeta
  <2> HIDE DEF m
  <2>6. 0 <= 0 /\ 0 <= attempt
    BY <1>10
  <2> QED BY <1>11, <2>1, <2>2, <2>3, <2>4, <2>5, <2>6 DEF m
<1>13. CASE fileSize(f) # 0 /\ metaOK(f)
  <2>1. HasSig(f[0])
    BY <1>13 DEF metaOK
  <2>2. PICK m \in MetaRecord : f[0] = MetaPage(m) /\ m.version <= attempt /\ Kept(m, D2)
    BY <1>8, <2>1, MetaPageFacts DEF Meta
  <2>3. f[0].meta = m
    BY <2>2, MetaPageFacts
  <2> DEFINE j == loadMeta(Blank, m)
  <2>4. kv' = SetMaxVer(j, m.version) /\ pc' = "idle"
    BY <1>2, <1>13, <2>3 DEF readRoot
  <2>5. j \in KVRecord /\ saveMeta(j) = m /\ j.updates = <<>> /\ j.nappend = 0 /\ j.version = m.version
        /\ j.failed = FALSE
    <3>1. Blank.updates = <<>> /\ Blank.nappend = 0 /\ Blank.failed = FALSE
      BY DEF Blank
    <3> QED BY <3>1, BlankFacts, LoadMetaFacts
  <2> HIDE DEF j
  <2>6. m.version \in Nat
    BY BoundsAssumption DEF MetaRecord
  <2>7. /\ kv' \in KVRecord /\ saveMeta(kv') = saveMeta(j)
        /\ kv'.updates = j.updates /\ kv'.nappend = j.nappend
        /\ kv'.maxSeq = j.tailSeq /\ kv'.tailSeq = j.tailSeq
        /\ kv'.maxVer = m.version /\ kv'.version = j.version /\ kv'.failed = j.failed
    <3>1. Released(kv', j, m.version)
      BY <2>4, <2>5, <2>6, SetMaxVerFacts
    <3> QED BY <3>1 DEF Released
  <2>8. acked <= m.version /\ m.version <= m.version
    BY <1>9, <1>10, <2>3, <2>6
  <2> QED BY <1>11, <2>2, <2>4, <2>5, <2>7, <2>8
<1>14. CASE fileSize(f) # 0 /\ ~metaOK(f)
  <2>1. kv' = Blank /\ pc' = "dead"
    BY <1>2, <1>14
  <2>2. Types'
    BY <1>2, <1>3, <1>4, <1>5, <1>7, <1>10, <2>1, BlankFacts DEF Types
  <2>3. Phases'
    BY <1>3, <1>6, <2>1 DEF Phases, MemSteps, FlushSteps
  <2>4. Versions' /\ Written' /\ Service'
    BY <2>1 DEF Versions, Written, Service, FlushSteps
  <2>5. Metas'
    BY <1>3, <1>4, <1>5, <1>8, <1>9, <2>1 DEF Metas, FlushSteps
  <2> QED BY <2>2, <2>3, <2>4, <2>5 DEF StoreInv
<1> QED BY <1>12, <1>13, <1>14

-----------------------------------------------------------------------------
(* The invariant holds.                                                    *)

LEMMA StutterInv ==
    ASSUME StoreInv, UNCHANGED vars
    PROVE  StoreInv'
BY DEF StoreInv, vars, Types, Phases, Quiet, Versions, Written, Service, Metas, Base

LEMMA NextInv ==
    ASSUME ~RewriteFaults, StoreInv, [Next]_vars
    PROVE  StoreInv'
<1>1. CASE UNCHANGED vars
  BY <1>1, StutterInv
<1>2. CASE \E r \in Readers : BeginRead(r) \/ EndRead(r)
  BY <1>2, BeginReadInv, EndReadInv
<1>3. CASE StartCommit
  BY <1>3, StartCommitInv
<1>4. CASE TreeOp
  BY <1>4, TreeOpInv
<1>5. CASE RootOp
  BY <1>5, RootOpInv
<1>6. CASE EndTree
  BY <1>6, EndTreeInv
<1>7. CASE RewriteMeta
  BY <1>7, RewriteMetaInv
<1>8. CASE SyncRewrite
  BY <1>8, SyncRewriteInv
<1>9. CASE RewriteFails
  BY <1>9 DEF RewriteFails
<1>10. CASE WritePage
  BY <1>10, WritePageInv
<1>11. CASE PagesWritten
  BY <1>11, PagesWrittenInv
<1>12. CASE SyncPages
  BY <1>12, SyncPagesInv
<1>13. CASE updateRoot
  BY <1>13, updateRootInv
<1>14. CASE SyncRoot
  BY <1>14, SyncRootInv
<1>15. CASE UpdateFails
  BY <1>15, UpdateFailsInv
<1>16. CASE Crash
  BY <1>16, CrashInv
<1> QED BY <1>1, <1>2, <1>3, <1>4, <1>5, <1>6, <1>7, <1>8, <1>9, <1>10, <1>11, <1>12, <1>13,
           <1>14, <1>15, <1>16 DEF Next

\* As long as the rewrite of the meta page does not fail, the store is whole at
\* every step: on disk for each meta page a crash may leave, in memory for the
\* commit that is running (Commit, updateOrRevert, readRoot).
THEOREM StoreIsWhole ==
    ASSUME ~RewriteFaults
    PROVE  Spec => []StoreInv
<1>1. StoreInv /\ [Next]_vars => StoreInv'
  BY NextInv
<1> QED BY <1>1, InitInv, PTL DEF Spec

-----------------------------------------------------------------------------
(* What follows from it.                                                   *)

LEMMA InvTypeOK == StoreInv => TypeOK
<1> SUFFICES ASSUME StoreInv PROVE TypeOK
  OBVIOUS
<1>1. Types /\ Phases /\ Versions /\ Written /\ Service
  BY DEF StoreInv
<1>2. /\ kv \in KVRecord /\ kv.root \in Pages /\ kv.version \in 0 .. MaxAttempts
      /\ kv.curVer \in 0 .. MaxAttempts /\ kv.headSeq \in Nat /\ kv.tailSeq \in Nat
      /\ kv.failed \in BOOLEAN /\ kv.flushed \in 0 .. MaxPages /\ kv.nappend \in Nat
      /\ kv.tree \in PageMaps(1 .. MaxAttempts) /\ kv.updates \in PageMaps(Node)
  BY <1>1 DEF Types, KVRecord
<1>3. DOMAIN kv.tree \subseteq Pages /\ DOMAIN kv.updates \subseteq Pages \ {0}
  BY <1>2, PageMapFacts
<1>4. kv.headSeq <= kv.tailSeq /\ kv.flushed + kv.nappend <= MaxPages /\ todo \subseteq DOMAIN kv.updates
  <2>1. CASE pc = "idle"
    <3>1. Kept(saveMeta(kv), disk)
      BY <1>1, <2>1, ServesKept DEF Service, Base
    <3>2. saveMeta(kv).headSeq <= saveMeta(kv).tailSeq
      BY <3>1 DEF Kept, Stored
    <3>3. kv.headSeq <= kv.tailSeq
      BY <3>2 DEF saveMeta
    <3> QED BY <1>1, <1>2, <2>1, <3>3, BoundsAssumption DEF Phases, Quiet
  <2>2. CASE pc \in MemSteps
    <3>1. PICK L \in [Nat -> Pages], I \in [Nat -> Item] : Mem(kv, kv.tree, {}, {}, L, I, kv.tailSeq, saved, disk)
      BY <1>1, <2>2 DEF Phases, Whole
    <3>2. Numbers(kv, L, I, kv.tailSeq, saved)
      BY <3>1, MemNumbers
    <3>3. kv.headSeq <= kv.tailSeq /\ kv.flushed + kv.nappend <= MaxPages
      BY <1>2, <3>2 DEF Numbers
    <3> QED BY <1>1, <2>2, <3>3 DEF Written, MemSteps
  <2>3. CASE pc \in FlushSteps
    <3>1. saveMeta(kv).headSeq <= saveMeta(kv).tailSeq
      BY <1>1, <2>3 DEF Phases, Flushed, Stored
    <3>2. kv.headSeq <= kv.tailSeq
      BY <3>1 DEF saveMeta
    <3> QED BY <1>1, <1>2, <2>3, <3>2, BoundsAssumption DEF Phases, Quiet
  <2>4. CASE pc = "dead"
    <3>1. kv = Blank /\ todo = {}
      BY <1>1, <2>4 DEF Phases
    <3> QED BY <1>2, <3>1, BoundsAssumption DEF Blank
  <2> QED BY <1>1, <2>1, <2>2, <2>3, <2>4 DEF Types
<1>5. ASSUME NEW p \in Pages PROVE IsPage(file[p]) /\ file[p] \in disk[p]
  <2>1. file[p] \in FilePages /\ file[p] \in disk[p]
    BY <1>1 DEF Types, Reads
  <2>2. CASE file[p] \in Node
    <3>1. \A n \in Node : n.tag \in -2 .. MaxAttempts /\ n.next \in {Junk} \cup Pages
                          /\ \A i \in Slots : n.items[i].ptr \in {Junk} \cup Pages
      BY BoundsAssumption DEF Node, Item
    <3> QED BY <2>1, <2>2, <3>1, MetaPageFacts DEF IsPage
  <2>3. CASE \E m \in MetaRecord : file[p] = MetaPage(m)
    <3>1. PICK m \in MetaRecord : file[p] = MetaPage(m)
      BY <2>3
    <3>2. /\ MetaPage(m).tag = -2 /\ MetaPage(m).next = Junk /\ MetaPage(m).meta = m
          /\ \A i \in Slots : MetaPage(m).items[i].ptr = Junk
      BY DEF MetaPage, TreePage
    <3>3. -2 \in -2 .. MaxAttempts /\ m.root \in Pages /\ m.version \in 0 .. MaxAttempts
      BY BoundsAssumption DEF MetaRecord
    <3> QED BY <2>1, <3>1, <3>2, <3>3 DEF IsPage
  <2> QED BY <2>1, <2>2, <2>3 DEF FilePages
<1> QED BY <1>1, <1>2, <1>3, <1>4, <1>5 DEF TypeOK, Types, MemSteps, FlushSteps

\* The writer finds the pages of its tree.
LEMMA InvTreeIntact == StoreInv => TreeIntact
<1> SUFFICES ASSUME StoreInv, pc # "dead", NEW p \in DOMAIN kv.tree
             PROVE  pageRead(kv, file, p).tag = kv.tree[p]
  BY DEF TreeIntact
<1>1. Types /\ Phases /\ Service
  BY DEF StoreInv
<1>2. kv \in KVRecord /\ Reads(file, disk) /\ kv.tree \in PageMaps(1 .. MaxAttempts)
  BY <1>1 DEF Types, KVRecord
<1>3. p \in Pages \ {0} /\ kv.tree[p] \in 1 .. MaxAttempts
  <2> DEFINE S == 1 .. MaxAttempts
  <2> HIDE DEF S
  <2>1. kv.tree \in PageMaps(S)
    BY <1>2 DEF S
  <2>2. p \in Pages \ {0} /\ kv.tree[p] \in S
    BY <2>1, PageMapFacts
  <2> QED BY <2>2 DEF S
<1>4. PICK d \in View(kv.updates, disk)[p] : d = Absent \/ d = pageRead(kv, file, p)
  BY <1>2, <1>3, ReadFacts
<1>5. TreeOn(View(kv.updates, disk), kv.tree) =>  pageRead(kv, file, p).tag = kv.tree[p]
  <2>1. Absent.tag = -1
    BY DEF Absent, Zero
  <2> QED BY <1>3, <1>4, <2>1 DEF TreeOn
<1>6. CASE pc \in MemSteps
  <2>1. TreeOn(View(kv.updates, disk), kv.tree)
    BY <1>1, <1>6 DEF Phases, Whole, Mem
  <2> QED BY <1>5, <2>1
<1>7. CASE pc \notin MemSteps
  <2>1. DOMAIN kv.updates = {}
    BY <1>1, <1>7, EmptyMap DEF Phases, Quiet, Types
  <2>2. View(kv.updates, disk) = disk
    BY <1>1, <2>1 DEF View, Types
  <2>3. CASE pc = "idle"
    <3>1. Kept(saveMeta(kv), disk)
      BY <1>1, <2>3, ServesKept DEF Service, Base
    <3>2. TreeOn(disk, saveMeta(kv).tree)
      BY <3>1 DEF Kept, Stored
    <3> QED BY <1>5, <2>2, <3>2 DEF saveMeta
  <2>4. CASE pc \in {"root", "sync2"}
    <3>1. TreeOn(disk, saveMeta(kv).tree)
      BY <1>1, <2>4 DEF Phases, Flushed, Stored, FlushSteps
    <3> QED BY <1>5, <2>2, <3>1 DEF saveMeta
  <2>5. CASE pc = "sync1"
    <3> DEFINE D2 == Synced(file, disk, dirty)
    <3>1. TreeOn(D2, saveMeta(kv).tree)
      BY <1>1, <2>5 DEF Phases, Flushed, Stored, FlushSteps
    <3>2. file[p] \in D2[p]
      BY <1>2, <1>3 DEF Synced, Reads
    <3>3. file[p].tag = kv.tree[p]
      BY <3>1, <3>2 DEF TreeOn, saveMeta
    <3>4. pageRead(kv, file, p) = IF file[p] = Absent THEN Zero ELSE file[p]
      BY <2>1 DEF pageRead, mmapRead
    <3>5. file[p] # Absent
      BY <1>3, <3>3 DEF Absent, Zero
    <3> QED BY <3>3, <3>4, <3>5
  <2> QED BY <1>1, <1>7, <2>3, <2>4, <2>5 DEF Types, FlushSteps
<1> QED BY <1>6, <1>7

LEMMA InvReaders == StoreInv => ReaderPagesIntact
<1> SUFFICES ASSUME StoreInv, NEW r \in OpenReaders, NEW p \in DOMAIN snap[r].tree
             PROVE  file[p].tag = snap[r].tree[p]
  BY DEF ReaderPagesIntact
<1>1. r \in Readers /\ snap[r].open
  BY DEF OpenReaders
<1>2. pc # "dead"
  BY <1>1 DEF StoreInv, Phases
<1>3. Serves(Base, disk, file, snap, kv.maxVer)
  BY <1>2 DEF StoreInv, Service
<1> QED BY <1>1, <1>3 DEF Serves, ServesAt

LEMMA InvCrashSafe == StoreInv => CrashSafe
<1> SUFFICES ASSUME StoreInv, NEW d \in disk[0], HasSig(d), NEW p \in DOMAIN d.meta.tree, NEW left \in disk[p]
             PROVE  left.tag = d.meta.tree[p]
  BY DEF CrashSafe
<1>1. Meta(d, disk, attempt)
  BY MetaPageFacts DEF StoreInv, Metas
<1>2. PICK m \in MetaRecord : d = MetaPage(m) /\ Kept(m, disk)
  BY <1>1 DEF Meta
<1>3. d.meta = m
  BY <1>2, MetaPageFacts
<1> QED BY <1>2, <1>3 DEF Kept, Stored, TreeOn

LEMMA InvAcked == StoreInv => AckedDurable
BY DEF StoreInv, Metas, AckedDurable

\* The list that is read from the head on is the one that L and I describe.
LEMMA ListRead ==
    ASSUME NEW s \in KVRecord, NEW f, NEW D, Reads(f, D), DOMAIN f = Pages,
           NEW L \in [Nat -> Pages], NEW I \in [Nat -> Item],
           s.headSeq <= s.tailSeq, L[s.headSeq] = s.headPage,
           \A q \in s.headSeq .. s.tailSeq : L[q] \in Pages \ {0},
           Chain(View(s.updates, D), L, s.headSeq, s.tailSeq),
           Filled(View(s.updates, D), L, I, s.headSeq, s.tailSeq)
    PROVE  /\ NodeAt(s, f) = [q \in s.headSeq .. s.tailSeq |-> L[q]]
           /\ Items(s, f) = [q \in s.headSeq .. s.tailSeq - 1 |-> I[q]]
<1> DEFINE h == s.headSeq
           t == s.tailSeq
           N(n) == LET next == pageRead(s, f, n).next IN IF next \in DOMAIN f THEN next ELSE 0
           B(g, q) == IF q = h THEN s.headPage
                      ELSE IF seq2idx(q) # 0 THEN g[q - 1]
                      ELSE N(g[q - 1])
           W(g) == [q \in h .. t |-> B(g, q)]
           G == [q \in h .. t |-> L[q]]
<1>1. h \in Nat /\ t \in Nat /\ h <= t /\ L[h] = s.headPage
  BY DEF KVRecord
<1>2. ASSUME NEW q \in h .. t - 1, seq2idx(q + 1) = 0
      PROVE  N(L[q]) = L[q + 1]
  <2>1. q \in h .. t /\ q + 1 \in h .. t
    BY <1>1
  <2>2. L[q] \in Pages \ {0} /\ L[q + 1] \in DOMAIN f
    BY <2>1
  <2>3. PICK d \in View(s.updates, D)[L[q]] : pageRead(s, f, L[q]).next = d.next
    BY <2>2, ReadFacts
  <2>4. d.next = L[q + 1]
    BY <1>2, <2>3 DEF Chain
  <2> QED BY <2>2, <2>3, <2>4
<1>3. ASSUME NEW q \in h .. t - 1, seq2idx(q + 1) # 0
      PROVE  L[q] = L[q + 1]
  BY <1>3 DEF Chain
<1>4. ASSUME NEW q \in h .. t - 1
      PROVE  pageRead(s, f, L[q]).items[seq2idx(q)] = I[q]
  <2>1. q \in h .. t
    BY <1>1
  <2>2. L[q] \in Pages \ {0}
    BY <2>1
  <2>3. PICK d \in View(s.updates, D)[L[q]] : pageRead(s, f, L[q]).items = d.items
    BY <2>2, ReadFacts
  <2> QED BY <2>3 DEF Filled
<1>5. NodeAt(s, f) = CHOOSE g : g = W(g)
  BY DEF NodeAt
<1> HIDE DEF N
<1>6. \A q \in h .. t : q # h => q - 1 \in h .. t - 1 /\ q - 1 \in h .. t /\ (q - 1) + 1 = q
  BY <1>1
<1>7. G = W(G)
  <2>1. ASSUME NEW q \in h .. t PROVE L[q] = B(G, q)
    <3>1. CASE q = h
      BY <1>1, <3>1
    <3>2. CASE q # h
      <4> DEFINE a == q - 1
      <4>1. a \in h .. t - 1 /\ G[a] = L[a] /\ q = a + 1
        BY <1>6, <3>2
      <4> HIDE DEF a, G
      <4>2. B(G, q) = IF seq2idx(q) # 0 THEN G[a] ELSE N(G[a])
        BY <3>2 DEF a
      <4> QED BY <1>2, <1>3, <4>1, <4>2, Zenon
    <3> QED BY <3>1, <3>2
  <2> HIDE DEF B
  <2>2. [q \in h .. t |-> L[q]] = W(G)
    BY <2>1, Zenon
  <2> QED BY <2>2, Zenon
<1> HIDE DEF G, W
<1>8. NodeAt(s, f) = W(NodeAt(s, f))
  BY <1>5, <1>7, Zenon
<1> DEFINE A == NodeAt(s, f)
<1> HIDE DEF A
<1>9. A = [q \in h .. t |-> B(A, q)]
  BY <1>8, Zenon DEF W, A
<1>10. \A q \in h .. t : A[q] = B(A, q)
  <2> HIDE DEF B
  <2> QED BY <1>9, Zenon
<1>11. \A q \in h .. t : A[q] = L[q]
  <2> DEFINE bad == {q \in h .. t : A[q] # L[q]}
  <2> SUFFICES ASSUME bad # {} PROVE FALSE
    OBVIOUS
  <2>1. bad \in SUBSET Nat
    BY <1>1
  <2>2. PICK q \in bad : \A m \in bad : q <= m
    BY <2>1, LeastNat
  <2>3. q \in h .. t /\ A[q] # L[q] /\ A[q] = B(A, q)
    BY <1>10, <2>2
  <2>4. CASE q = h
    BY <1>1, <2>3, <2>4
  <2>5. CASE q # h
    <3> DEFINE a == q - 1
    <3>1. a \in h .. t - 1 /\ a \in h .. t /\ q = a + 1 /\ ~(q <= a)
      BY <1>1, <1>6, <2>3, <2>5
    <3>2. B(A, q) = IF seq2idx(q) # 0 THEN A[a] ELSE N(A[a])
      BY <2>5
    <3> HIDE DEF a
    <3>3. A[a] = L[a]
      BY <2>2, <3>1
    <3> QED BY <1>2, <1>3, <2>3, <3>1, <3>2, <3>3, Zenon
  <2> QED BY <2>4, <2>5
<1>12. A = [q \in h .. t |-> L[q]]
  <2>1. A = [q \in h .. t |-> A[q]]
    <3> HIDE DEF B
    <3> QED BY <1>9
  <2>2. [q \in h .. t |-> A[q]] = [q \in h .. t |-> L[q]]
    BY <1>11, Zenon
  <2> QED BY <2>1, <2>2, Zenon
<1>13. \A q \in h .. t - 1 : pageRead(s, f, A[q]).items[seq2idx(q)] = I[q]
  BY <1>1, <1>4, <1>11
<1>14. Items(s, f) = [q \in h .. t - 1 |-> pageRead(s, f, A[q]).items[seq2idx(q)]]
  BY DEF Items, A
<1>15. Items(s, f) = [q \in h .. t - 1 |-> I[q]]
  BY <1>13, <1>14, Zenon
<1> QED BY <1>12, <1>15 DEF A

\* Between commits tree, list nodes and free pages share out the file.
LEMMA InvPartition == StoreInv => PagePartition
<1> DEFINE h == kv.headSeq
           t == kv.tailSeq
           lim == kv.flushed
           nodes == Nodes(kv, file)
           items == Items(kv, file)
<1> SUFFICES ASSUME StoreInv, pc = "idle"
             PROVE  /\ 1 .. kv.flushed + kv.nappend - 1 = DOMAIN kv.tree \cup nodes \cup FreePtrs(kv, file)
                    /\ DOMAIN kv.tree \cap nodes = {}
                    /\ \A q \in DOMAIN items :
                         /\ items[q].ptr \notin DOMAIN kv.tree \cup nodes
                         /\ \A k \in DOMAIN items : k # q => items[k].ptr # items[q].ptr
  BY DEF PagePartition
<1>1. Types /\ Phases /\ Service
  BY DEF StoreInv
<1>2. /\ kv \in KVRecord /\ Reads(file, disk) /\ DOMAIN file = Pages
      /\ h \in Nat /\ t \in Nat /\ lim \in 0 .. MaxPages
  BY <1>1 DEF Types, KVRecord
<1>3. kv.nappend = 0 /\ DOMAIN kv.updates = {}
  BY <1>1, EmptyMap DEF Phases, Quiet
<1>4. View(kv.updates, disk) = disk
  BY <1>1, <1>3 DEF View, Types
<1>5. PICK L \in [Nat -> Pages], I \in [Nat -> Item] : Stored(saveMeta(kv), disk, L, I)
  BY <1>1 DEF Service, Serves, Base
<1>6. /\ h <= t /\ L[h] = kv.headPage
      /\ Parts(DOMAIN kv.tree, {}, L, I, h, t, t, lim)
      /\ Chain(disk, L, h, t) /\ Filled(disk, L, I, h, t)
  BY <1>5 DEF Stored, saveMeta
<1>7. \A q \in h .. t : L[q] \in Pages \ {0}
  <2>1. \A q \in h .. t : L[q] \in 1 .. lim - 1
    BY <1>6 DEF Parts
  <2>2. lim \in 0 .. MaxPages
    BY <1>2
  <2> HIDE DEF lim
  <2>3. \A x \in 1 .. lim - 1 : x \in 0 .. MaxPages - 1 /\ x # 0
    BY <2>2, BoundsAssumption
  <2> QED BY <2>1, <2>3 DEF Pages
<1>8. /\ NodeAt(kv, file) = [q \in h .. t |-> L[q]]
      /\ items = [q \in h .. t - 1 |-> I[q]]
  BY <1>2, <1>4, <1>6, <1>7, ListRead
<1>9. nodes = {L[q] : q \in h .. t}
  BY <1>8 DEF Nodes
<1>10. FreePtrs(kv, file) = {I[q].ptr : q \in h .. t - 1}
  BY <1>8 DEF FreePtrs
<1>11. DOMAIN items = h .. t - 1 /\ \A q \in h .. t - 1 : items[q] = I[q]
  BY <1>8
<1>12. kv.flushed + kv.nappend - 1 = lim - 1
  BY <1>2, <1>3
<1>13. 1 .. lim - 1 = DOMAIN kv.tree \cup nodes \cup FreePtrs(kv, file)
  BY <1>6, <1>9, <1>10 DEF Parts
<1>14. DOMAIN kv.tree \cap nodes = {}
  BY <1>6, <1>9 DEF Parts
<1>15. ASSUME NEW q \in DOMAIN items
       PROVE  /\ items[q].ptr \notin DOMAIN kv.tree \cup nodes
              /\ \A k \in DOMAIN items : k # q => items[k].ptr # items[q].ptr
  BY <1>6, <1>9, <1>11 DEF Parts
<1> QED BY <1>12, <1>13, <1>14, <1>15

\* The pages an allocation may take while a commit runs in memory.
LEMMA InvAlloc == StoreInv => AllocFresh
<1> SUFFICES ASSUME StoreInv, pc \in {"mem", "updated"}
             PROVE  /\ check(kv) /\ check(PopHead(kv, file).s)
                    /\ PopHead(kv, file).ptr \notin DOMAIN PopHead(kv, file).s.updates \cup DOMAIN kv.tree
                    /\ kv.flushed + kv.nappend \notin DOMAIN kv.updates
  BY DEF AllocFresh
<1>1. Whole(kv, saved, disk) /\ Reads(file, disk)
  BY DEF StoreInv, Phases, Types, MemSteps
<1>2. PICK L \in [Nat -> Pages], I \in [Nat -> Item] : Mem(kv, kv.tree, {}, {}, L, I, kv.tailSeq, saved, disk)
  BY <1>1 DEF Whole
<1>3. check(kv) /\ kv.flushed + kv.nappend \notin DOMAIN kv.updates
  BY <1>2, MemFresh, AppendFresh
<1>4. Fresh(PopHead(kv, file).s, PopHead(kv, file).ptr) /\ PopHead(kv, file).ptr \notin DOMAIN kv.tree
  BY <1>1, <1>2, PopHeadFresh
<1> QED BY <1>3, <1>4 DEF Fresh

\* A snapshot stays what it is while its transaction is open.
LEMMA SnapKept ==
    ASSUME snap \in Snaps, [Next]_vars, NEW r \in Readers, snap[r].open, snap'[r].open
    PROVE  snap'[r] = snap[r]
<1>1. ASSUME NEW x \in Readers, BeginRead(x) PROVE snap'[r] = snap[r]
  BY <1>1 DEF BeginRead, Snaps
<1>2. ASSUME NEW x \in Readers, EndRead(x) PROVE snap'[r] = snap[r]
  BY <1>2 DEF EndRead, Snaps, NoSnap
<1>3. CASE Crash
  BY <1>3 DEF Crash, NoSnap
<1>4. CASE UNCHANGED snap
  BY <1>4
<1>5. \/ \E x \in Readers : BeginRead(x) \/ EndRead(x)
      \/ Crash
      \/ UNCHANGED snap
  BY DEF Next, vars, StartCommit, TreeOp, RootOp, EndTree, RewriteMeta, SyncRewrite, RewriteFails, WritePage,
         PagesWritten, SyncPages, updateRoot, SyncRoot, UpdateFails
<1> QED BY <1>1, <1>2, <1>3, <1>4, <1>5

LEMMA StepReaders ==
    ASSUME StoreInv, StoreInv', [Next]_vars, NEW r \in Readers, snap[r].open, snap'[r].open,
           NEW p \in DOMAIN snap[r].tree
    PROVE  file'[p].tag = snap[r].tree[p]
<1>1. snap'[r] = snap[r]
  BY SnapKept DEF StoreInv, Types
<1>2. ReaderPagesIntact'
  BY InvReaders, PTL
<1>3. r \in OpenReaders'
  BY DEF OpenReaders
<1> QED BY <1>1, <1>2, <1>3 DEF ReaderPagesIntact

-----------------------------------------------------------------------------
(* The properties of the store.                                            *)

\* Types, for any number of pages, commits, faults and crashes: the list does not
\* overrun itself and a commit stays in the room it was given (flPush, pageAppend).
THEOREM StoreTypes ==
    ASSUME ~RewriteFaults
    PROVE  Spec => []TypeOK
BY StoreIsWhole, InvTypeOK, PTL

\* The writer reads its tree as the last update left it, from page.updates or from
\* the file, whatever failed before (pageRead, updateOrRevert).
THEOREM TreeStaysIntact ==
    ASSUME ~RewriteFaults
    PROVE  Spec => []TreeIntact
BY StoreIsWhole, InvTreeIntact, PTL

\* An open transaction finds the pages of its snapshot in the file as they were when
\* it began, whatever commits write or fail to write (Begin, flPop, SetMaxVer).
THEOREM SnapshotsIntact ==
    ASSUME ~RewriteFaults
    PROVE  Spec => []ReaderPagesIntact
BY StoreIsWhole, InvReaders, PTL

\* No step overwrites a page that an open transaction can read (writePages).
THEOREM SnapshotsKept ==
    ASSUME ~RewriteFaults
    PROVE  Spec => ReaderPagesKept
<1>1. StoreInv /\ StoreInv' /\ [Next]_vars =>
        [\A r \in Readers : snap[r].open /\ snap'[r].open =>
            \A p \in DOMAIN snap[r].tree :
                file[p].tag = snap[r].tree[p] => file'[p].tag = snap[r].tree[p]]_vars
  BY StepReaders
<1> QED BY <1>1, StoreIsWhole, PTL DEF Spec, ReaderPagesKept

\* Whichever meta page a crash leaves, the tree it points to is whole: pages are
\* synced before their meta page is written and not reused while it may come back
\* (updateFile, flPop).
THEOREM CrashLeavesTree ==
    ASSUME ~RewriteFaults
    PROVE  Spec => []CrashSafe
BY StoreIsWhole, InvCrashSafe, PTL

\* A commit that succeeded survives every crash (updateFile, updateOrRevert).
THEOREM CommitsDurable ==
    ASSUME ~RewriteFaults
    PROVE  Spec => []AckedDurable
BY StoreIsWhole, InvAcked, PTL

\* Between commits each page of the file is in the tree, a node of the free list or
\* an item of it, and in one of them only: none leaks and none is free while in use
\* (PushTail, PopHead, updateOrRevert, readRoot).
THEOREM NoPageLost ==
    ASSUME ~RewriteFaults
    PROVE  Spec => []PagePartition
BY StoreIsWhole, InvPartition, PTL

\* The assertions of pageAlloc, pageAppend and check never fail: a page taken for an
\* allocation is neither one of the tree nor one this commit has written.
THEOREM AllocationsFresh ==
    ASSUME ~RewriteFaults
    PROVE  Spec => []AllocFresh
BY StoreIsWhole, InvAlloc, PTL
=============================================================================
