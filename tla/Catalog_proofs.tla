--------------------------- MODULE Catalog_proofs ---------------------------
(***************************************************************************)
(* The catalogue stays sound whatever the sessions do: no two tables share *)
(* a prefix, and the cache of schemas shows committed tables only.         *)
(***************************************************************************)
EXTENDS Catalog, Tables_proofs

-----------------------------------------------------------------------------
(* The inductive invariant.                                                *)

\* The next free prefix as a transaction sees it.
seenCounter(tx) ==
    IF metaKey \in DOMAIN tx.pending THEN tx.pending[metaKey].val ELSE counter(tx.snapshot)

\* An update of the catalogue is no delete, and the commit will notice when
\* somebody else changed the key.
Noticed(tx, k) ==
    /\ k = metaKey \/ k[1] = 2
    /\ ~tx.pending[k].deleted
    /\ tx.updateAttempted /\ <<k, k>> \in tx.reads

\* A table that a transaction has created is new to it; it has prefixes from
\* between the counter it found and the counter it leaves.
NewTable(tx, k, tdef) ==
    /\ k \notin DOMAIN tx.snapshot /\ metaKey \in DOMAIN tx.pending
    /\ tdef.Name \in Strings /\ k = tableKey(tdef.Name)
    /\ Range(tdef.Prefixes) \subseteq counter(tx.snapshot) .. seenCounter(tx) - 1
    /\ IsInjective(tdef.Prefixes)

PendingOK(tx) ==
    /\ IsStore(tx.pending)
    /\ \A k \in DOMAIN tx.pending : inCatalog(k) => Noticed(tx, k)
    /\ seenCounter(tx) \in Nat /\ seenCounter(tx) >= counter(tx.snapshot)
    /\ \A k \in tablesIn(tx.pending) : NewTable(tx, k, tx.pending[k].val)
    /\ \A k1, k2 \in tablesIn(tx.pending) :
           k1 # k2 => Range(tx.pending[k1].val.Prefixes) \cap Range(tx.pending[k2].val.Prefixes) = {}

TxOK(tx) == IsTx(tx) /\ CatalogOK(tx.snapshot) /\ PendingOK(tx)

\* The snapshot differs from the database in dirty keys only, and not in the
\* tables that it has.
Follows(snapshot, store, dirt) ==
    /\ \A k \in DOMAIN store \cup DOMAIN snapshot : k \notin dirt =>
           k \in DOMAIN store /\ k \in DOMAIN snapshot /\ store[k] = snapshot[k]
    /\ \A k \in tablesIn(snapshot) : k \in DOMAIN store /\ store[k] = snapshot[k]

\* Every schema known is that of a table in the store.
Known(schemas, store) ==
    \A name \in DOMAIN schemas :
        /\ name \in Strings
        /\ tableKey(name) \in DOMAIN store /\ store[tableKey(name)] = schemas[name]

CatalogInv ==
    /\ DOMAIN mode = Sessions /\ DOMAIN txs = Sessions /\ DOMAIN dirty = Sessions
    /\ CatalogOK(db)
    /\ \A s \in Sessions : mode[s] # "none" => TxOK(txs[s]) /\ Follows(txs[s].snapshot, db, dirty[s])
    /\ ~UseOwnTable => Known(cache, db)

-----------------------------------------------------------------------------
(* The keys of the catalogue.                                              *)

LEMMA CatalogKeys ==
    /\ Terminated(metaKey) /\ metaKey[1] = 1
    /\ \A name \in Strings : Terminated(tableKey(name)) /\ tableKey(name)[1] = 2
    /\ \A n1, n2 \in Strings : tableKey(n1) = tableKey(n2) => n1 = n2
<1>1. Strings = Seq(Byte) /\ 1 \in Nat /\ 2 \in Nat /\ 1 > 0 /\ 2 > 0
  BY DEF Strings, Byte
<1>2. <<110, 112>> \in Seq(Byte)
  BY DEF Byte
<1>3. metaKey = stringKey(1, <<110, 112>>)
  BY DEF metaKey, stringKey
<1>4. \A name : tableKey(name) = stringKey(2, name)
  BY DEF tableKey, stringKey
<1>5. Terminated(metaKey) /\ metaKey[1] = 1
  BY <1>1, <1>2, <1>3, StringKeyTerminated
<1>6. ASSUME NEW name \in Seq(Byte) PROVE Terminated(tableKey(name)) /\ tableKey(name)[1] = 2
  BY <1>1, <1>4, StringKeyTerminated
<1>7. ASSUME NEW n1 \in Seq(Byte), NEW n2 \in Seq(Byte), tableKey(n1) = tableKey(n2) PROVE n1 = n2
  BY <1>1, <1>4, <1>7, StringKeyInjective
<1> QED BY <1>1, <1>5, <1>6, <1>7

LEMMA StoreKeys ==
    ASSUME NEW m, IsStore(m)
    PROVE  IsFiniteSet(DOMAIN m) /\ \A k \in DOMAIN m : k \in Seq(Int) /\ Len(k) > 1
<1>1. Nat \subseteq Int
  OBVIOUS
<1> QED BY <1>1, SeqMonotonic DEF IsStore, IsKey

\* What a transaction reads of the catalogue: the row of the key, and no other one,
\* unless an assert fails.
LEMMA CatalogRead ==
    ASSUME NEW tx, CatalogOK(tx.snapshot), PendingOK(tx),
           NEW key, key = metaKey \/ \E name \in Strings : key = tableKey(name)
    PROVE  LET get == getKey(tx, key)
           IN  /\ get.tx = Depend(tx, key, Append(key, 255))
               /\ ~get.panic => (get.ok <=> key \in DOMAIN tx.pending \cup DOMAIN tx.snapshot)
               /\ get.ok => ~get.panic /\ CurVal(get.iter) = ValueOf(tx, key)
<1>1. Terminated(key) /\ (key[1] = 1 \/ key[1] = 2)
  BY CatalogKeys
<1>2. ASSUME NEW k \in DOMAIN tx.snapshot, k[1] = 1 \/ k[1] = 2 PROVE Terminated(k)
  <2>1. k[1] = 1 => k = metaKey
    BY DEF CatalogOK
  <2>2. k[1] = 2 => \E name \in Strings : k = tableKey(name)
    BY DEF CatalogOK, tablesIn
  <2> QED BY <1>2, <2>1, <2>2, CatalogKeys
<1>3. ASSUME NEW k \in DOMAIN tx.pending, k[1] = 1 \/ k[1] = 2 PROVE Terminated(k)
  <2>1. inCatalog(k)
    BY <1>3 DEF inCatalog, TABLE_PREFIX_MIN
  <2>2. k = metaKey \/ k[1] = 2
    BY <2>1 DEF PendingOK, Noticed
  <2>3. k[1] = 2 => \E name \in Strings : k = tableKey(name)
    BY DEF PendingOK, NewTable, tablesIn
  <2> QED BY <2>2, <2>3, CatalogKeys
<1>4. IsStore(tx.snapshot) /\ IsStore(tx.pending)
  BY DEF CatalogOK, PendingOK
<1>5. KeyedFor(tx.snapshot, key[1]) /\ KeyedFor(tx.pending, key[1])
  BY <1>1, <1>2, <1>3, <1>4, StoreKeys DEF KeyedFor
<1> QED BY <1>1, <1>5, GetKeyFinds

LEMMA TerminatedIsKey ==
    ASSUME NEW k, Terminated(k)
    PROVE  IsKey(k)
<1>1. k \in Seq(Int) /\ Len(k) \in Nat /\ Len(k) > 1 /\ DOMAIN k = 1 .. Len(k)
  BY DEF Terminated
<1>2. ASSUME NEW i \in 1 .. Len(k) PROVE k[i] \in Nat
  <2>1. k[i] \in Int
    BY <1>1
  <2>2. i = Len(k) \/ i \in 1 .. Len(k) - 1
    <3>1. \A n \in Nat : \A j \in 1 .. n : j = n \/ j \in 1 .. n - 1
      OBVIOUS
    <3> QED BY <1>1, <3>1, Zenon
  <2> QED BY <2>1, <2>2 DEF Terminated
<1>3. k = [i \in 1 .. Len(k) |-> k[i]]
  BY <1>1
<1>4. k \in Seq(Nat)
  BY <1>1, <1>2, <1>3, IsASeq
<1> QED BY <1>1, <1>4 DEF IsKey

LEMMA CatalogKeysIn ==
    /\ inCatalog(metaKey) /\ IsKey(metaKey)
    /\ \A name \in Strings : inCatalog(tableKey(name)) /\ IsKey(tableKey(name)) /\ tableKey(name) # metaKey
BY CatalogKeys, TerminatedIsKey DEF inCatalog, TABLE_PREFIX_MIN

-----------------------------------------------------------------------------
(* Statements.                                                             *)

\* A statement that updates rows and indexes only.
LEMMA RowsKeep ==
    ASSUME NEW tx, NEW new, TxOK(tx), rowsOnly(tx, new)
    PROVE  TxOK(new) /\ new.snapshot = tx.snapshot
<1>1. new = [snapshot |-> tx.snapshot, pending |-> new.pending, reads |-> new.reads,
             updateAttempted |-> new.updateAttempted]
  BY DEF rowsOnly
<1>2. new.snapshot = tx.snapshot
  <2> DEFINE a == new.pending
             b == new.reads
             c == new.updateAttempted
  <2>1. new = [snapshot |-> tx.snapshot, pending |-> a, reads |-> b, updateAttempted |-> c]
    BY <1>1, Zenon
  <2> HIDE DEF a, b, c
  <2> QED BY <2>1
<1>3. IsTx(new)
  BY <1>1, <1>2, Zenon DEF IsTx, TxOf
<1>4. /\ {k \in DOMAIN new.pending : inCatalog(k)} = {k \in DOMAIN tx.pending : inCatalog(k)}
      /\ \A k \in DOMAIN tx.pending : inCatalog(k) => new.pending[k] = tx.pending[k]
      /\ tx.reads \subseteq new.reads /\ (tx.updateAttempted => new.updateAttempted)
      /\ IsStore(new.pending)
  BY DEF rowsOnly
<1>5. \A k : k[1] = 2 => inCatalog(k)
  BY DEF inCatalog, TABLE_PREFIX_MIN
<1>6. ASSUME NEW k, inCatalog(k)
      PROVE  /\ k \in DOMAIN new.pending <=> k \in DOMAIN tx.pending
             /\ k \in DOMAIN new.pending => new.pending[k] = tx.pending[k]
  BY <1>4, <1>6, Zenon
<1>7. seenCounter(new) = seenCounter(tx)
  BY <1>2, <1>6, CatalogKeysIn DEF seenCounter
<1>8. /\ tablesIn(new.pending) = tablesIn(tx.pending)
      /\ \A k \in tablesIn(tx.pending) : new.pending[k] = tx.pending[k]
  <2>1. \A k : k \in tablesIn(new.pending) <=> k \in tablesIn(tx.pending)
    BY <1>5, <1>6, Zenon DEF tablesIn
  <2> QED BY <1>5, <1>6, <2>1, Zenon DEF tablesIn
<1>9. metaKey \in DOMAIN new.pending <=> metaKey \in DOMAIN tx.pending
  BY <1>6, CatalogKeysIn
<1>10. PendingOK(tx) /\ CatalogOK(tx.snapshot)
  BY DEF TxOK
<1>11. ASSUME NEW k \in DOMAIN new.pending, inCatalog(k) PROVE Noticed(new, k)
  <2>1. k \in DOMAIN tx.pending /\ new.pending[k] = tx.pending[k]
    BY <1>6, <1>11
  <2>2. Noticed(tx, k)
    BY <1>10, <1>11, <2>1 DEF PendingOK
  <2> QED BY <1>4, <2>1, <2>2, Zenon DEF Noticed
<1>12. ASSUME NEW k \in tablesIn(new.pending) PROVE NewTable(new, k, new.pending[k].val)
  <2>1. NewTable(tx, k, new.pending[k].val)
    BY <1>8, <1>10 DEF PendingOK
  <2> QED BY <1>2, <1>7, <1>9, <2>1 DEF NewTable
<1>13. \A k1, k2 \in tablesIn(new.pending) :
           k1 # k2 => Range(new.pending[k1].val.Prefixes) \cap Range(new.pending[k2].val.Prefixes) = {}
  BY <1>8, <1>10, Zenon DEF PendingOK
<1>14. seenCounter(new) \in Nat /\ seenCounter(new) >= counter(new.snapshot)
  BY <1>2, <1>7, <1>10 DEF PendingOK
<1>15. PendingOK(new)
  BY <1>4, <1>11, <1>12, <1>13, <1>14 DEF PendingOK
<1> QED BY <1>2, <1>3, <1>10, <1>15 DEF TxOK

\* Another dependency.
LEMMA DependKeeps ==
    ASSUME NEW tx, TxOK(tx), NEW a, NEW b
    PROVE  LET t == Depend(tx, a, b)
           IN  TxOK(t) /\ t.snapshot = tx.snapshot /\ t.pending = tx.pending
<1> DEFINE t == Depend(tx, a, b)
<1>1. IsTx(tx)
  BY DEF TxOK
<1>2. /\ t = [snapshot |-> tx.snapshot, pending |-> tx.pending,
              reads |-> tx.reads \cup {<<a, b>>}, updateAttempted |-> tx.updateAttempted]
  <2> DEFINE w == tx.snapshot
             x == tx.pending
             y == tx.reads
             z == tx.updateAttempted
  <2>1. tx = [snapshot |-> w, pending |-> x, reads |-> y, updateAttempted |-> z]
    BY <1>1 DEF IsTx, TxOf
  <2> HIDE DEF w, x, y, z
  <2>2. [tx EXCEPT !.reads = y \cup {<<a, b>>}] =
            [snapshot |-> w, pending |-> x, reads |-> y \cup {<<a, b>>}, updateAttempted |-> z]
    BY <2>1
  <2> QED BY <2>1, <2>2 DEF Depend, w, x, y, z
<1>3. /\ t.snapshot = tx.snapshot /\ t.pending = tx.pending
      /\ t.reads = tx.reads \cup {<<a, b>>} /\ t.updateAttempted = tx.updateAttempted
  <2> HIDE DEF t
  <2> QED BY <1>2
<1> HIDE DEF t
<1>4. rowsOnly(tx, t)
  <2>1. IsStore(tx.pending)
    BY DEF TxOK, PendingOK
  <2>2. t = [snapshot |-> tx.snapshot, pending |-> t.pending, reads |-> t.reads,
             updateAttempted |-> t.updateAttempted]
    BY <1>2, <1>3
  <2> QED BY <1>3, <2>1, <2>2 DEF rowsOnly
<1> QED BY <1>3, <1>4, RowsKeep DEF t

\* The two updates of TableNew: n prefixes from the counter on, then the schema.
LEMMA CreateKeeps ==
    ASSUME NEW tx, TxOK(tx), NEW name \in Strings, NEW n \in Nat, n > 0, NEW p, p = seenCounter(tx),
           tableKey(name) \notin DOMAIN tx.pending, tableKey(name) \notin DOMAIN tx.snapshot,
           NEW F, F.Name = name, F.Prefixes = [i \in 1 .. n |-> p + i - 1]
    PROVE  LET new == kvUpdate(kvUpdate(tx, metaKey, p + n, "UPSERT").tx, tableKey(name), F, "UPSERT").tx
           IN  TxOK(new) /\ new.snapshot = tx.snapshot
<1> DEFINE tk == tableKey(name)
           P == tx.pending
           a == kvUpdate(tx, metaKey, p + n, "UPSERT").tx
           b == kvUpdate(a, tk, F, "UPSERT").tx
<1>1. /\ IsTx(tx) /\ CatalogOK(tx.snapshot) /\ PendingOK(tx)
      /\ p \in Nat /\ p >= counter(tx.snapshot) /\ counter(tx.snapshot) \in Nat
  BY DEF TxOK, PendingOK, CatalogOK
<1>2. inCatalog(metaKey) /\ IsKey(metaKey) /\ inCatalog(tk) /\ IsKey(tk) /\ tk # metaKey /\ tk[1] = 2
  BY CatalogKeys, CatalogKeysIn
<1>3. Exists(tx, metaKey) => ValueOf(tx, metaKey) # p + n
  <2>1. Exists(tx, metaKey) => ValueOf(tx, metaKey) = p
    BY DEF Exists, ValueOf, seenCounter, counter
  <2>2. p # p + n
    BY <1>1
  <2> QED BY <2>1, <2>2
<1>4. /\ IsTx(a) /\ a.snapshot = tx.snapshot /\ a.pending = Bind(P, metaKey, Updated(p + n))
      /\ a.reads = tx.reads \cup {<<metaKey, metaKey>>} /\ a.updateAttempted
  <2>1. Changes(tx, metaKey, p + n, a)
    BY <1>1, <1>3, UpdateIs
  <2> QED BY <2>1, Zenon DEF Changes
<1> HIDE DEF a
<1>5. ~Exists(a, tk)
  <2>1. tk \notin DOMAIN a.pending
    BY <1>2, <1>4 DEF Bind
  <2> QED BY <1>4, <2>1 DEF Exists
<1>6. /\ IsTx(b) /\ b.snapshot = tx.snapshot /\ b.pending = Bind(a.pending, tk, Updated(F))
      /\ b.reads = a.reads \cup {<<tk, tk>>} /\ b.updateAttempted
  <2>1. Changes(a, tk, F, b)
    BY <1>4, <1>5, UpdateIs
  <2> QED BY <1>4, <2>1, Zenon DEF Changes
<1> HIDE DEF b
<1>7. DOMAIN b.pending = DOMAIN P \cup {metaKey, tk}
  BY <1>4, <1>6 DEF Bind
<1>8. /\ b.pending[tk] = Updated(F) /\ b.pending[metaKey] = Updated(p + n)
      /\ \A k \in DOMAIN P : k # metaKey => b.pending[k] = P[k]
  <2> DEFINE Q == a.pending
  <2>1. Q = Bind(P, metaKey, Updated(p + n)) /\ b.pending = Bind(Q, tk, Updated(F))
    BY <1>4, <1>6
  <2>2. DOMAIN Q = DOMAIN P \cup {metaKey} /\ Q[metaKey] = Updated(p + n)
        /\ \A k \in DOMAIN P : k # metaKey => Q[k] = P[k]
    <3> HIDE DEF Q, P
    <3> QED BY <2>1 DEF Bind
  <2>3. /\ b.pending[tk] = Updated(F)
        /\ \A k \in DOMAIN Q : k # tk => b.pending[k] = Q[k]
    <3> HIDE DEF Q
    <3> QED BY <2>1 DEF Bind
  <2> HIDE DEF Q
  <2> QED BY <1>2, <2>2, <2>3
<1>9. /\ Updated(F).val = F /\ ~Updated(F).deleted /\ Updated(p + n).val = p + n
      /\ ~Updated(p + n).deleted
  BY DEF Updated
<1>10. seenCounter(b) = p + n /\ p + n \in Nat /\ p + n >= counter(b.snapshot)
  BY <1>1, <1>6, <1>7, <1>8, <1>9 DEF seenCounter
<1>11. IsStore(b.pending)
  <2>1. IsFiniteSet(DOMAIN b.pending)
    <3> DEFINE D == DOMAIN P
               E == D \cup {metaKey}
    <3>1. IsFiniteSet(D)
      BY <1>1, Zenon DEF PendingOK, IsStore
    <3>2. DOMAIN b.pending = E \cup {tk}
      BY <1>7
    <3> HIDE DEF D
    <3>3. IsFiniteSet(E)
      BY <3>1, FS_AddElement
    <3> HIDE DEF E
    <3>4. IsFiniteSet(E \cup {tk})
      BY <3>3, FS_AddElement
    <3> QED BY <3>2, <3>4
  <2>2. \A k \in DOMAIN b.pending : IsKey(k)
    BY <1>1, <1>2, <1>7 DEF PendingOK, IsStore
  <2> QED BY <2>1, <2>2 DEF IsStore
<1>12. ASSUME NEW k \in DOMAIN b.pending, inCatalog(k) PROVE Noticed(b, k)
  <2>1. CASE k = metaKey
    BY <1>4, <1>6, <1>8, <1>9, <2>1 DEF Noticed
  <2>2. CASE k = tk
    BY <1>2, <1>6, <1>8, <1>9, <2>2 DEF Noticed
  <2>3. CASE k # metaKey /\ k # tk
    <3>1. k \in DOMAIN P /\ b.pending[k] = P[k]
      BY <1>7, <1>8, <2>3
    <3>2. Noticed(tx, k)
      BY <1>1, <1>12, <3>1 DEF PendingOK
    <3> QED BY <1>4, <1>6, <3>1, <3>2 DEF Noticed
  <2> QED BY <2>1, <2>2, <2>3
<1> DEFINE low == counter(tx.snapshot)
           new == p .. (p + n) - 1
<1>13. Range(F.Prefixes) \subseteq new /\ IsInjective(F.Prefixes)
  <2>1. \A i \in 1 .. n : p + i - 1 \in new
    BY <1>1
  <2>2. Range(F.Prefixes) = {p + i - 1 : i \in 1 .. n}
    <3> HIDE DEF new
    <3> QED BY DEF Range
  <2>3. IsInjective(F.Prefixes)
    <3>1. ASSUME NEW i \in 1 .. n, NEW j \in 1 .. n, p + i - 1 = p + j - 1 PROVE i = j
      BY <1>1, <3>1
    <3> QED BY <3>1 DEF IsInjective
  <2> QED BY <2>1, <2>2, <2>3
<1>14. ASSUME NEW k \in tablesIn(b.pending), k # tk
       PROVE  /\ k \in tablesIn(P) /\ b.pending[k] = P[k]
              /\ NewTable(tx, k, P[k].val) /\ Range(P[k].val.Prefixes) \subseteq low .. p - 1
  <2>1. k \in DOMAIN b.pending /\ k[1] = 2 /\ k # metaKey
    BY CatalogKeys DEF tablesIn
  <2>2. k \in tablesIn(P) /\ b.pending[k] = P[k]
    BY <1>7, <1>8, <1>14, <2>1 DEF tablesIn
  <2>3. NewTable(tx, k, P[k].val)
    BY <1>1, <2>2 DEF PendingOK
  <2> QED BY <2>2, <2>3 DEF NewTable
<1>15. low .. p - 1 \subseteq low .. (p + n) - 1 /\ new \subseteq low .. (p + n) - 1
       /\ (low .. p - 1) \cap new = {}
  BY <1>1
<1>16. ASSUME NEW k \in tablesIn(b.pending) PROVE NewTable(b, k, b.pending[k].val)
  <2>1. metaKey \in DOMAIN b.pending
    BY <1>7
  <2>2. CASE k = tk
    <3>1. b.pending[k].val = F
      BY <1>8, <1>9, <2>2
    <3>2. Range(F.Prefixes) \subseteq low .. seenCounter(b) - 1
      <4> HIDE DEF new, low
      <4> QED BY <1>10, <1>13, <1>15
    <3> QED BY <1>6, <1>13, <2>1, <2>2, <3>1, <3>2 DEF NewTable
  <2>3. CASE k # tk
    <3>1. NewTable(tx, k, P[k].val) /\ b.pending[k] = P[k] /\ Range(P[k].val.Prefixes) \subseteq low .. p - 1
      BY <1>14, <2>3
    <3>2. Range(P[k].val.Prefixes) \subseteq low .. seenCounter(b) - 1
      <4> HIDE DEF new, low, P
      <4> QED BY <1>10, <1>15, <3>1
    <3> QED BY <1>6, <2>1, <3>1, <3>2 DEF NewTable
  <2> QED BY <2>2, <2>3
<1>17. ASSUME NEW k1 \in tablesIn(b.pending), NEW k2 \in tablesIn(b.pending), k1 # k2
       PROVE  Range(b.pending[k1].val.Prefixes) \cap Range(b.pending[k2].val.Prefixes) = {}
  <2>1. ASSUME NEW k \in tablesIn(b.pending), k # tk
        PROVE  Range(b.pending[k].val.Prefixes) \cap Range(b.pending[tk].val.Prefixes) = {}
    <3>1. Range(b.pending[k].val.Prefixes) \subseteq low .. p - 1
      BY <1>14, <2>1
    <3>2. Range(b.pending[tk].val.Prefixes) \subseteq new
      BY <1>8, <1>9, <1>13
    <3> HIDE DEF new, low
    <3> QED BY <1>15, <3>1, <3>2
  <2>2. CASE k1 # tk /\ k2 # tk
    <3>1. k1 \in tablesIn(P) /\ k2 \in tablesIn(P) /\ b.pending[k1] = P[k1] /\ b.pending[k2] = P[k2]
      BY <1>14, <2>2
    <3> QED BY <1>1, <1>17, <3>1 DEF PendingOK
  <2>3. CASE k1 = tk
    BY <1>17, <2>1, <2>3
  <2>4. CASE k2 = tk
    BY <1>17, <2>1, <2>4
  <2> QED BY <2>2, <2>3, <2>4
<1>18. PendingOK(b)
  BY <1>10, <1>11, <1>12, <1>16, <1>17 DEF PendingOK
<1> QED BY <1>1, <1>6, <1>18 DEF TxOK, a, b

\* An error undoes what the statement has done.
LEMMA RevertKeeps ==
    ASSUME NEW tx, TxOK(tx), NEW t, IsTx(t), t.snapshot = tx.snapshot,
           tx.updateAttempted => t.updateAttempted
    PROVE  TxOK(Revert(t, tx)) /\ Revert(t, tx).snapshot = tx.snapshot
<1> DEFINE new == Revert(t, tx)
           w == t.snapshot
           x == t.pending
           y == t.reads
           z == t.updateAttempted
           p == tx.pending
           r == tx.reads
<1>1. t = TxOf(w, x, y, z) /\ new = [t EXCEPT !.pending = p, !.reads = r]
  BY DEF IsTx, Revert
<1>2. IsStore(p) /\ (tx.updateAttempted => z) /\ tx.snapshot = w
  BY DEF TxOK, PendingOK
<1> HIDE DEF new, w, x, y, z, p, r
<1>3. new = [[t EXCEPT !.pending = p] EXCEPT !.reads = r]
  BY <1>1 DEF TxOf
<1>4. new = TxOf(w, p, r, z)
  <2> DEFINE q == [t EXCEPT !.pending = p]
  <2>1. q = TxOf(w, p, y, z)
    BY <1>1, TxExcept
  <2>2. new = [q EXCEPT !.reads = r]
    BY <1>3
  <2> HIDE DEF q
  <2> QED BY <2>1, <2>2, TxExcept
<1>5. new.snapshot = w /\ new.pending = p /\ new.reads = r /\ new.updateAttempted = z
  BY <1>4, TxExcept
<1>6. new = [snapshot |-> tx.snapshot, pending |-> new.pending, reads |-> new.reads,
             updateAttempted |-> new.updateAttempted]
  BY <1>2, <1>4, <1>5 DEF TxOf
<1>7. rowsOnly(tx, new)
  BY <1>2, <1>5, <1>6 DEF rowsOnly, p, r
<1> QED BY <1>7, RowsKeep DEF new

\* The schema that TableNew stores.
LEMMA FullDef ==
    ASSUME NEW def \in Defs, NEW p
    PROVE  LET tdef == [def EXCEPT !.Indexes = [i \in DOMAIN @ |-> checkIndexCols(def, @[i])]]
               full == [tdef EXCEPT !.Prefixes = [i \in DOMAIN tdef.Indexes |-> p + i - 1]]
           IN  /\ Len(def.Indexes) \in Nat /\ (def.Indexes # <<>> => Len(def.Indexes) > 0)
               /\ def.Name \in Strings
               /\ full.Name = def.Name
               /\ full.Prefixes = [i \in 1 .. Len(def.Indexes) |-> p + i - 1]
               /\ nextPrefix(p, tdef) = p + Len(def.Indexes)
<1> DEFINE n == Len(def.Indexes)
           ind == [i \in DOMAIN def.Indexes |-> checkIndexCols(def, def.Indexes[i])]
           tdef == [def EXCEPT !.Indexes = ind]
           pre == [i \in DOMAIN tdef.Indexes |-> p + i - 1]
           full == [tdef EXCEPT !.Prefixes = pre]
<1>1. /\ def = [Name |-> def.Name, Cols |-> def.Cols, Types |-> def.Types,
                Indexes |-> def.Indexes, Prefixes |-> def.Prefixes]
      /\ def.Name \in Strings
      /\ n \in Nat /\ def.Indexes = [i \in 1 .. n |-> def.Indexes[i]]
  BY CatalogAssumption, Zenon
<1>2. DOMAIN def.Indexes = 1 .. n
  <2> DEFINE old(i) == def.Indexes[i]
  <2>1. def.Indexes = [i \in 1 .. n |-> old(i)]
    BY <1>1
  <2> HIDE DEF old, n
  <2> QED BY <2>1
<1>3. def.Indexes # <<>> => n > 0
  BY <1>1, <1>2
<1>4. DOMAIN ind = 1 .. n /\ Len(ind) = n
  <2> DEFINE new(i) == checkIndexCols(def, def.Indexes[i])
  <2>1. ind = [i \in 1 .. n |-> new(i)]
    BY <1>2
  <2> HIDE DEF ind, new, n
  <2> QED BY <1>1, <2>1, IsASeq
<1>5. tdef.Indexes = ind /\ full.Name = def.Name /\ full.Prefixes = pre
  <2> DEFINE a == def.Name
             b == def.Cols
             c == def.Types
             d == def.Indexes
             e == def.Prefixes
  <2>1. def = [Name |-> a, Cols |-> b, Types |-> c, Indexes |-> d, Prefixes |-> e]
    BY <1>1
  <2> HIDE DEF ind, pre, a, b, c, d, e
  <2> QED BY <2>1 DEF a
<1>6. pre = [i \in 1 .. n |-> p + i - 1] /\ nextPrefix(p, tdef) = p + n
  <2> HIDE DEF ind, tdef, n
  <2> QED BY <1>4, <1>5 DEF nextPrefix
<1>7. def.Name \in Strings /\ n \in Nat
  BY <1>1
<1> HIDE DEF n, full, tdef, pre
<1> QED BY <1>3, <1>5, <1>6, <1>7 DEF n, full, tdef, pre

\* CREATE TABLE.
LEMMA CreatedKeeps ==
    ASSUME NEW tx, TxOK(tx), NEW def \in Defs
    PROVE  TxOK(created(tx, def)) /\ created(tx, def).snapshot = tx.snapshot
<1> DEFINE name == def.Name
           n == Len(def.Indexes)
           tk == tableKey(name)
           t == getKey(tx, tk)
           m == getKey(t.tx, metaKey)
           p == IF m.ok THEN CurVal(m.iter) ELSE TABLE_PREFIX_MIN
           tdef == [def EXCEPT !.Indexes = [i \in DOMAIN @ |-> checkIndexCols(def, @[i])]]
           full == [tdef EXCEPT !.Prefixes = [i \in DOMAIN tdef.Indexes |-> p + i - 1]]
           count == kvUpdate(m.tx, metaKey, nextPrefix(p, tdef), "UPSERT").tx
           last == kvUpdate(count, tk, full, "UPSERT").tx
           res == TableNew(tx, def)
<1>1. res = IF badTableDef(def) THEN [tx |-> tx, out |-> "error"]
            ELSE IF t.ok \/ t.panic
            THEN [tx |-> t.tx, out |-> IF t.panic THEN "panic" ELSE "error"]
            ELSE IF m.panic \/ (m.ok /\ p <= TABLE_PREFIX_MIN) THEN [tx |-> m.tx, out |-> "panic"]
            ELSE [tx |-> last, out |-> "ok"]
  BY Zenon DEF TableNew, Then
<1>2. created(tx, def) = IF res.out = "error" THEN Revert(res.tx, tx) ELSE res.tx
  BY Zenon DEF created, Then
<1>3. /\ n \in Nat /\ (def.Indexes # <<>> => n > 0) /\ name \in Strings
      /\ full.Name = name /\ full.Prefixes = [i \in 1 .. n |-> p + i - 1]
      /\ nextPrefix(p, tdef) = p + n
  <2> HIDE DEF p
  <2> QED BY FullDef, Zenon
<1>4. CatalogOK(tx.snapshot) /\ PendingOK(tx) /\ IsTx(tx)
  BY DEF TxOK
<1>5. /\ t.tx = Depend(tx, tk, Append(tk, 255))
      /\ ~t.panic => (t.ok <=> tk \in DOMAIN tx.pending \cup DOMAIN tx.snapshot)
      /\ t.ok => ~t.panic
  BY <1>3, <1>4, CatalogRead
<1>6. TxOK(t.tx) /\ t.tx.snapshot = tx.snapshot /\ t.tx.pending = tx.pending
  BY <1>5, DependKeeps
<1>7. CASE badTableDef(def) \/ (t.ok /\ ~t.panic)
  <2>1. res.out = "error" /\ (res.tx = tx \/ res.tx = t.tx)
    <3> HIDE DEF res, t, last
    <3> QED BY <1>1, <1>7
  <2>2. tx.updateAttempted => t.tx.updateAttempted
    <3>1. t.tx.updateAttempted = tx.updateAttempted
      <4> DEFINE w == tx.snapshot
                 x == tx.pending
                 y == tx.reads
                 z == tx.updateAttempted
                 r == y \cup {<<tk, Append(tk, 255)>>}
                 u == t.tx
      <4>1. tx = TxOf(w, x, y, z) /\ u = [tx EXCEPT !.reads = r]
        BY <1>4, <1>5 DEF IsTx, Depend
      <4> HIDE DEF w, x, y, z, r, u
      <4>2. u = TxOf(w, x, r, z)
        BY <4>1, TxExcept
      <4>3. u.updateAttempted = z
        BY <4>2, TxExcept
      <4> QED BY <4>3 DEF u, z
    <3> QED BY <3>1
  <2>3. IsTx(res.tx) /\ res.tx.snapshot = tx.snapshot /\ (tx.updateAttempted => res.tx.updateAttempted)
    <3> HIDE DEF res, t
    <3> QED BY <1>4, <1>6, <2>1, <2>2 DEF TxOK
  <2>4. created(tx, def) = Revert(res.tx, tx)
    <3> HIDE DEF res
    <3> QED BY <1>2, <2>1
  <2> HIDE DEF res
  <2> QED BY <2>3, <2>4, RevertKeeps
<1>8. CASE ~badTableDef(def) /\ t.panic
  <2>1. res.out = "panic" /\ res.tx = t.tx
    <3> HIDE DEF res, t, last
    <3> QED BY <1>1, <1>8
  <2>2. created(tx, def) = t.tx
    <3> HIDE DEF res, t
    <3> QED BY <1>2, <2>1
  <2> QED BY <1>6, <2>2
<1>9. CASE ~badTableDef(def) /\ ~t.ok /\ ~t.panic
  <2>1. n > 0
    BY <1>3, <1>9 DEF badTableDef
  <2>2. CatalogOK(t.tx.snapshot) /\ PendingOK(t.tx)
    BY <1>6 DEF TxOK
  <2> HIDE DEF t
  <2>3. /\ m.tx = Depend(t.tx, metaKey, Append(metaKey, 255))
        /\ ~m.panic => (m.ok <=> metaKey \in DOMAIN t.tx.pending \cup DOMAIN t.tx.snapshot)
        /\ m.ok => CurVal(m.iter) = ValueOf(t.tx, metaKey)
    BY <2>2, CatalogRead
  <2>4. TxOK(m.tx) /\ m.tx.snapshot = tx.snapshot /\ m.tx.pending = tx.pending
    BY <1>6, <2>3, DependKeeps
  <2> HIDE DEF m
  <2> DEFINE fails == m.panic \/ (m.ok /\ p <= TABLE_PREFIX_MIN)
  <2>5. CASE fails
    <3>1. res = [tx |-> m.tx, out |-> "panic"]
      <4> HIDE DEF res, last, fails, p
      <4> QED BY <1>1, <1>9, <2>5 DEF fails
    <3>2. res.out = "panic" /\ res.tx = m.tx
      <4> HIDE DEF res
      <4> QED BY <3>1
    <3>3. created(tx, def) = m.tx
      <4> HIDE DEF res
      <4> QED BY <1>2, <3>2
    <3> QED BY <2>4, <3>3
  <2>6. CASE ~fails
    <3>1. p = seenCounter(m.tx)
      BY <1>6, <2>3, <2>4, <2>6 DEF seenCounter, counter, ValueOf
    <3>2. res = [tx |-> last, out |-> "ok"]
      <4> HIDE DEF res, last, fails, p
      <4> QED BY <1>1, <1>9, <2>6 DEF fails
    <3>3. res.tx = last /\ res.out = "ok"
      <4> HIDE DEF res, last
      <4> QED BY <3>2
    <3>4. created(tx, def) = last
      <4> HIDE DEF res, last
      <4> QED BY <1>2, <3>3
    <3>5. tk \notin DOMAIN m.tx.pending /\ tk \notin DOMAIN m.tx.snapshot
      BY <1>5, <1>9, <2>4
    <3>6. last = kvUpdate(kvUpdate(m.tx, metaKey, p + n, "UPSERT").tx, tk, full, "UPSERT").tx
      <4> HIDE DEF p, full, tdef, n
      <4> QED BY <1>3
    <3> HIDE DEF p, full, n, last, name
    <3>7. TxOK(last) /\ last.snapshot = m.tx.snapshot
      BY <1>3, <2>1, <2>4, <3>1, <3>5, <3>6, CreateKeeps
    <3> QED BY <2>4, <3>4, <3>7
  <2> QED BY <2>5, <2>6
<1> QED BY <1>7, <1>8, <1>9

-----------------------------------------------------------------------------
(* Commit.                                                                 *)

\* The commit meets no conflict.
Clear(tx, dirt) ==
    ~(/\ tx.updateAttempted
      /\ \E k \in dirt : \E r \in tx.reads : Compare(r[1], k) <= 0 /\ Compare(k, r[2]) <= 0)

\* Then nobody has touched a key of the catalogue that the transaction updates.
LEMMA ClearKey ==
    ASSUME NEW store, NEW tx, TxOK(tx), NEW dirt, Follows(tx.snapshot, store, dirt), Clear(tx, dirt),
           NEW k \in DOMAIN tx.pending, inCatalog(k)
    PROVE  /\ k \in DOMAIN store <=> k \in DOMAIN tx.snapshot
           /\ k \in DOMAIN store => store[k] = tx.snapshot[k]
<1>1. Noticed(tx, k) /\ IsStore(tx.pending)
  BY DEF TxOK, PendingOK
<1>2. k \in Seq(Int)
  BY <1>1, StoreKeys
<1>3. Compare(k, k) = 0
  BY <1>2, CompareTotal
<1>4. k \notin dirt
  <2> SUFFICES ASSUME k \in dirt PROVE FALSE
    OBVIOUS
  <2> DEFINE r == <<k, k>>
  <2>1. r \in tx.reads /\ tx.updateAttempted /\ r[1] = k /\ r[2] = k
    BY <1>1 DEF Noticed
  <2>2. Compare(r[1], k) <= 0 /\ Compare(k, r[2]) <= 0
    BY <1>3, <2>1
  <2> HIDE DEF r
  <2> QED BY <2>1, <2>2 DEF Clear
<1> QED BY <1>4, Zenon DEF Follows

LEMMA CommitKeeps ==
    ASSUME CatalogOK(db), NEW tx, TxOK(tx), NEW dirt, Follows(tx.snapshot, db, dirt), Clear(tx, dirt)
    PROVE  LET new == applied(tx)
           IN  /\ CatalogOK(new)
               /\ \A k \in tablesIn(db) : k \in DOMAIN new /\ new[k] = db[k]
<1> DEFINE new == applied(tx)
           P == tx.pending
           low == counter(db)
           high == counter(new)
<1>1. /\ PendingOK(tx) /\ CatalogOK(tx.snapshot) /\ IsStore(P) /\ IsStore(db)
  BY DEF TxOK, PendingOK, CatalogOK
<1>2. /\ DOMAIN new = {j \in DOMAIN db \cup DOMAIN P : j \in DOMAIN P => ~P[j].deleted}
      /\ \A k \in DOMAIN new : new[k] = IF k \in DOMAIN P THEN P[k].val ELSE db[k]
  BY DEF applied
<1> HIDE DEF new
<1>3. ASSUME NEW k, inCatalog(k)
      PROVE  k \in DOMAIN new <=> k \in DOMAIN db \cup DOMAIN P
  BY <1>1, <1>2, <1>3 DEF PendingOK, Noticed
<1>4. IsStore(new)
  <2>1. DOMAIN new \subseteq DOMAIN db \cup DOMAIN P
    BY <1>2
  <2>2. IsFiniteSet(DOMAIN new)
    <3> DEFINE D == DOMAIN db
               E == DOMAIN P
               U == D \cup E
    <3>1. IsFiniteSet(D) /\ IsFiniteSet(E)
      BY <1>1 DEF IsStore
    <3> HIDE DEF D, E
    <3>2. IsFiniteSet(U)
      BY <3>1, FS_Union
    <3>3. DOMAIN new \subseteq U
      BY <2>1 DEF D, E
    <3> HIDE DEF U
    <3> QED BY <3>2, <3>3, FS_Subset
  <2> QED BY <1>1, <2>1, <2>2 DEF IsStore
<1>5. ASSUME NEW k \in DOMAIN new, k[1] = 1 PROVE k = metaKey
  <2>1. inCatalog(k)
    BY <1>5 DEF inCatalog, TABLE_PREFIX_MIN
  <2>2. CASE k \in DOMAIN P
    <3>1. Noticed(tx, k)
      BY <1>1, <2>1, <2>2 DEF PendingOK
    <3> QED BY <1>5, <3>1 DEF Noticed
  <2>3. CASE k \in DOMAIN db
    BY <1>5, <2>3 DEF CatalogOK
  <2> QED BY <1>2, <2>2, <2>3
<1>6. low \in Nat /\ low >= TABLE_PREFIX_MIN
  BY DEF CatalogOK
<1>7. ASSUME metaKey \in DOMAIN P
      PROVE  high = seenCounter(tx) /\ low = counter(tx.snapshot)
  <2>1. metaKey \in DOMAIN new /\ new[metaKey] = P[metaKey].val
    BY <1>2, <1>3, <1>7, CatalogKeysIn
  <2>2. high = seenCounter(tx)
    BY <1>7, <2>1 DEF counter, seenCounter
  <2>3. /\ metaKey \in DOMAIN db <=> metaKey \in DOMAIN tx.snapshot
        /\ metaKey \in DOMAIN db => db[metaKey] = tx.snapshot[metaKey]
    BY <1>7, CatalogKeysIn, ClearKey
  <2> QED BY <2>2, <2>3 DEF counter
<1>8. ASSUME metaKey \notin DOMAIN P PROVE high = low
  <2>1. metaKey \in DOMAIN new <=> metaKey \in DOMAIN db
    BY <1>3, <1>8, CatalogKeysIn
  <2>2. metaKey \in DOMAIN db => new[metaKey] = db[metaKey]
    BY <1>2, <1>8, <2>1
  <2> QED BY <2>1, <2>2 DEF counter
<1>9. high \in Nat /\ high >= low
  <2>1. CASE metaKey \in DOMAIN P
    BY <1>1, <1>7, <2>1 DEF PendingOK
  <2>2. CASE metaKey \notin DOMAIN P
    BY <1>6, <1>8, <2>2
  <2> QED BY <2>1, <2>2
<1>10. ASSUME NEW k \in tablesIn(P)
       PROVE  /\ NewTable(tx, k, P[k].val) /\ k \notin DOMAIN db
              /\ k \in DOMAIN new /\ new[k] = P[k].val
              /\ Range(new[k].Prefixes) \subseteq low .. high - 1
  <2>1. k \in DOMAIN P /\ inCatalog(k) /\ NewTable(tx, k, P[k].val)
    BY <1>1 DEF PendingOK, tablesIn, inCatalog, TABLE_PREFIX_MIN
  <2>2. k \notin DOMAIN db
    BY <2>1, ClearKey DEF NewTable
  <2>3. k \in DOMAIN new /\ new[k] = P[k].val
    BY <1>2, <1>3, <2>1
  <2>4. metaKey \in DOMAIN P /\ Range(new[k].Prefixes) \subseteq counter(tx.snapshot) .. seenCounter(tx) - 1
    BY <2>1, <2>3 DEF NewTable
  <2> QED BY <1>7, <2>1, <2>2, <2>3, <2>4
<1>11. ASSUME NEW k \in tablesIn(db)
       PROVE  /\ k \in DOMAIN new /\ k \notin DOMAIN P /\ new[k] = db[k]
              /\ Range(new[k].Prefixes) \subseteq TABLE_PREFIX_MIN .. low - 1
  <2>1. k \in DOMAIN db /\ k[1] = 2 /\ inCatalog(k)
    BY DEF tablesIn, inCatalog, TABLE_PREFIX_MIN
  <2>2. k \notin DOMAIN P
    BY <1>10, <2>1 DEF tablesIn
  <2>3. k \in DOMAIN new /\ new[k] = db[k]
    BY <1>2, <1>3, <2>1, <2>2
  <2> QED BY <2>2, <2>3 DEF CatalogOK
<1>12. ASSUME NEW k \in tablesIn(new) PROVE k \in tablesIn(P) \/ k \in tablesIn(db)
  BY <1>2 DEF tablesIn
<1>13. /\ low .. high - 1 \subseteq TABLE_PREFIX_MIN .. high - 1
       /\ TABLE_PREFIX_MIN .. low - 1 \subseteq TABLE_PREFIX_MIN .. high - 1
       /\ (low .. high - 1) \cap (TABLE_PREFIX_MIN .. low - 1) = {}
  <2> HIDE DEF low, high
  <2> QED BY <1>6, <1>9 DEF TABLE_PREFIX_MIN
<1>14. ASSUME NEW k \in tablesIn(new)
       PROVE  /\ new[k].Name \in Strings /\ k = tableKey(new[k].Name)
              /\ Range(new[k].Prefixes) \subseteq TABLE_PREFIX_MIN .. high - 1
              /\ IsInjective(new[k].Prefixes)
  <2>1. CASE k \in tablesIn(P)
    <3>1. NewTable(tx, k, new[k]) /\ Range(new[k].Prefixes) \subseteq low .. high - 1
      BY <1>10, <2>1
    <3>2. Range(new[k].Prefixes) \subseteq TABLE_PREFIX_MIN .. high - 1
      <4> HIDE DEF low, high
      <4> QED BY <1>13, <3>1
    <3> QED BY <3>1, <3>2 DEF NewTable
  <2>2. CASE k \in tablesIn(db)
    <3>1. new[k] = db[k] /\ Range(new[k].Prefixes) \subseteq TABLE_PREFIX_MIN .. low - 1
      BY <1>11, <2>2
    <3>2. Range(new[k].Prefixes) \subseteq TABLE_PREFIX_MIN .. high - 1
      <4> HIDE DEF low, high
      <4> QED BY <1>13, <3>1
    <3> QED BY <2>2, <3>1, <3>2 DEF CatalogOK
  <2> QED BY <1>12, <2>1, <2>2
<1>15. ASSUME NEW k1 \in tablesIn(new), NEW k2 \in tablesIn(new), k1 # k2
       PROVE  Range(new[k1].Prefixes) \cap Range(new[k2].Prefixes) = {}
  <2>1. ASSUME NEW j1 \in tablesIn(P), NEW j2 \in tablesIn(db)
        PROVE  Range(new[j1].Prefixes) \cap Range(new[j2].Prefixes) = {}
    <3>1. /\ Range(new[j1].Prefixes) \subseteq low .. high - 1
          /\ Range(new[j2].Prefixes) \subseteq TABLE_PREFIX_MIN .. low - 1
      BY <1>10, <1>11
    <3> HIDE DEF low, high
    <3> QED BY <1>13, <3>1
  <2>2. CASE k1 \in tablesIn(P) /\ k2 \in tablesIn(P)
    <3>1. new[k1] = P[k1].val /\ new[k2] = P[k2].val
      BY <1>10, <2>2
    <3> QED BY <1>1, <1>15, <2>2, <3>1 DEF PendingOK
  <2>3. CASE k1 \in tablesIn(db) /\ k2 \in tablesIn(db)
    <3>1. new[k1] = db[k1] /\ new[k2] = db[k2]
      BY <1>11, <2>3
    <3> QED BY <1>15, <2>3, <3>1 DEF CatalogOK
  <2> QED BY <1>12, <2>1, <2>2, <2>3
<1>16. CatalogOK(new)
  <2>1. high >= TABLE_PREFIX_MIN
    <3> HIDE DEF high, low
    <3> QED BY <1>6, <1>9 DEF TABLE_PREFIX_MIN
  <2> QED BY <1>4, <1>5, <1>9, <1>14, <1>15, <2>1, Zenon DEF CatalogOK
<1> QED BY <1>11, <1>16 DEF new

\* The other transactions follow the database further.
LEMMA FollowsCommit ==
    ASSUME NEW snapshot, NEW dirt, NEW new, Follows(snapshot, db, dirt),
           \A k \in tablesIn(db) : k \in DOMAIN new /\ new[k] = db[k]
    PROVE  Follows(snapshot, new, dirt \cup changed(new))
<1>1. ASSUME NEW k \in DOMAIN new \cup DOMAIN snapshot, k \notin dirt, k \notin changed(new)
      PROVE  k \in DOMAIN new /\ k \in DOMAIN snapshot /\ new[k] = snapshot[k]
  <2>1. k \in DOMAIN db \cup DOMAIN new => k \in DOMAIN db /\ k \in DOMAIN new /\ db[k] = new[k]
    BY <1>1 DEF changed
  <2>2. k \in DOMAIN db \cup DOMAIN snapshot =>
            k \in DOMAIN db /\ k \in DOMAIN snapshot /\ db[k] = snapshot[k]
    BY <1>1 DEF Follows
  <2> QED BY <2>1, <2>2
<1>2. ASSUME NEW k \in tablesIn(snapshot) PROVE k \in DOMAIN new /\ new[k] = snapshot[k]
  <2>1. k \in DOMAIN db /\ db[k] = snapshot[k] /\ k[1] = 2
    BY DEF Follows, tablesIn
  <2>2. k \in tablesIn(db)
    BY <2>1 DEF tablesIn
  <2> QED BY <2>1, <2>2
<1> QED BY <1>1, <1>2 DEF Follows

-----------------------------------------------------------------------------
(* The cache.                                                              *)

\* What a lookup adds to the cache is a table of the snapshot, which is still there.
LEMMA LookKnown ==
    ASSUME NEW schemas, NEW store, Known(schemas, store), NEW tx, TxOK(tx),
           NEW dirt, Follows(tx.snapshot, store, dirt),
           NEW name \in TableNames, tableKey(name) \notin DOMAIN tx.pending
    PROVE  Known(getTableDef(tx, schemas, name).cache, store)
<1> DEFINE tk == tableKey(name)
           get == getKey(tx, tk)
           found(t, tdef) == [tx |-> t, cache |-> Bind(schemas, name, tdef), out |-> "ok", tdef |-> tdef]
           res == getTableDef(tx, schemas, name)
<1>1. name \in Strings
  BY CatalogAssumption
<1>2. res = IF name \in DOMAIN schemas THEN found(tx, schemas[name])
            ELSE IF get.ok THEN found(get.tx, CurVal(get.iter))
            ELSE [tx |-> get.tx, cache |-> schemas, out |-> IF get.panic THEN "panic" ELSE "error"]
  BY Zenon DEF getTableDef, Then
<1>3. /\ get.ok => tk \in DOMAIN tx.pending \cup DOMAIN tx.snapshot
      /\ get.ok => CurVal(get.iter) = ValueOf(tx, tk)
  BY <1>1, CatalogRead DEF TxOK
<1>4. ASSUME NEW tdef, tk \in DOMAIN store, store[tk] = tdef
      PROVE  Known(Bind(schemas, name, tdef), store)
  BY <1>1, <1>4 DEF Known, Bind
<1>5. \A t, tdef : found(t, tdef).cache = Bind(schemas, name, tdef)
  OBVIOUS
<1> HIDE DEF found, get, res
<1>6. CASE name \in DOMAIN schemas
  <2>1. res.cache = Bind(schemas, name, schemas[name])
    BY <1>2, <1>5, <1>6
  <2>2. tk \in DOMAIN store /\ store[tk] = schemas[name]
    BY <1>6 DEF Known
  <2> QED BY <1>4, <2>1, <2>2 DEF res
<1>7. CASE name \notin DOMAIN schemas /\ get.ok
  <2>1. res.cache = Bind(schemas, name, CurVal(get.iter))
    BY <1>2, <1>5, <1>7
  <2>2. tk \in DOMAIN tx.snapshot /\ CurVal(get.iter) = tx.snapshot[tk]
    BY <1>3, <1>7 DEF ValueOf
  <2>3. tk[1] = 2
    BY <1>1, CatalogKeys
  <2>4. tk \in DOMAIN store /\ store[tk] = CurVal(get.iter)
    BY <2>2, <2>3 DEF Follows, tablesIn
  <2> QED BY <1>4, <2>1, <2>4 DEF res
<1>8. CASE name \notin DOMAIN schemas /\ ~get.ok
  <2>1. res = [tx |-> get.tx, cache |-> schemas, out |-> IF get.panic THEN "panic" ELSE "error"]
    BY <1>2, <1>8
  <2>2. res.cache = schemas
    BY <2>1
  <2> QED BY <2>2 DEF res
<1> QED BY <1>6, <1>7, <1>8

-----------------------------------------------------------------------------
(* The invariant.                                                          *)

LEMMA NewTxOK ==
    ASSUME NEW store, CatalogOK(store)
    PROVE  TxOK(NewTx(store)) /\ NewTx(store).snapshot = store /\ Follows(store, store, {})
<1> DEFINE t == NewTx(store)
<1>1. /\ t.snapshot = store /\ t.pending = <<>> /\ DOMAIN t.pending = {}
      /\ IsTx(t)
  BY DEF NewTx, IsTx, TxOf
<1> HIDE DEF t
<1>2. IsStore(t.pending) /\ tablesIn(t.pending) = {}
  BY <1>1, FS_EmptySet DEF IsStore, tablesIn
<1>3. seenCounter(t) = counter(store) /\ counter(store) \in Nat
  BY <1>1 DEF seenCounter, CatalogOK
<1>4. PendingOK(t)
  BY <1>1, <1>2, <1>3 DEF PendingOK
<1>5. Follows(store, store, {})
  BY DEF Follows, tablesIn
<1> QED BY <1>1, <1>4, <1>5 DEF TxOK, t

LEMMA InitOK == CatalogInit => CatalogInv
<1> SUFFICES ASSUME CatalogInit PROVE CatalogInv
  OBVIOUS
<1>1. CatalogOK(db)
  BY CatalogAssumption DEF CatalogInit
<1>2. DOMAIN mode = Sessions /\ DOMAIN txs = Sessions /\ DOMAIN dirty = Sessions
      /\ \A s \in Sessions : mode[s] = "none"
  BY DEF CatalogInit
<1>3. Known(cache, db)
  BY DEF CatalogInit, Known
<1> QED BY <1>1, <1>2, <1>3 DEF CatalogInv

\* Sessions other than s are as before, on the same database.
LEMMA OthersKeep ==
    ASSUME CatalogInv, NEW s \in Sessions, db' = db,
           DOMAIN mode' = Sessions /\ DOMAIN txs' = Sessions /\ DOMAIN dirty' = Sessions,
           \A u \in Sessions : u # s => mode'[u] = mode[u] /\ txs'[u] = txs[u] /\ dirty'[u] = dirty[u],
           mode'[s] # "none" => TxOK(txs'[s]) /\ Follows(txs'[s].snapshot, db, dirty'[s]),
           ~UseOwnTable => Known(cache', db)
    PROVE  CatalogInv'
<1>1. CatalogOK(db)' /\ (~UseOwnTable => Known(cache, db))'
  BY DEF CatalogInv
<1>2. ASSUME NEW u \in Sessions, mode'[u] # "none"
      PROVE  TxOK(txs'[u]) /\ Follows(txs'[u].snapshot, db', dirty'[u])
  <2>1. CASE u = s
    BY <1>2, <2>1
  <2>2. CASE u # s
    BY <1>2, <2>2 DEF CatalogInv
  <2> QED BY <2>1, <2>2
<1> QED BY <1>1, <1>2 DEF CatalogInv

\* Of the sets of dirty keys only that of session s may change.
DirtyNow(s, dirt) ==
    DOMAIN dirty' = Sessions /\ dirty'[s] = dirt /\ \A u \in Sessions : u # s => dirty'[u] = dirty[u]

\* A session takes over a transaction, or ends it.
LEMMA SessionStep ==
    ASSUME CatalogInv, NEW s \in Sessions, NEW m, NEW t, NEW dirt,
           mode' = [mode EXCEPT ![s] = m], txs' = [txs EXCEPT ![s] = t],
           DirtyNow(s, dirt), db' = db,
           m # "none" => TxOK(t) /\ Follows(t.snapshot, db, dirt),
           ~UseOwnTable => Known(cache', db)
    PROVE  CatalogInv'
<1>1. DOMAIN mode = Sessions /\ DOMAIN txs = Sessions /\ DOMAIN dirty = Sessions
  BY DEF CatalogInv
<1>2. DOMAIN mode' = Sessions /\ DOMAIN txs' = Sessions /\ DOMAIN dirty' = Sessions
  BY <1>1 DEF DirtyNow
<1>3. mode'[s] = m /\ txs'[s] = t /\ dirty'[s] = dirt
  BY <1>1 DEF DirtyNow
<1>4. \A u \in Sessions : u # s => mode'[u] = mode[u] /\ txs'[u] = txs[u] /\ dirty'[u] = dirty[u]
  BY <1>1 DEF DirtyNow
<1> QED BY <1>2, <1>3, <1>4, OthersKeep

LEMMA LookupKeeps ==
    ASSUME CatalogInv, ~UseOwnTable, NEW tx, TxOK(tx), NEW dirt, Follows(tx.snapshot, db, dirt),
           lookedUp(tx)
    PROVE  Known(cache', db)
<1>1. Known(cache, db)
  BY DEF CatalogInv
<1>2. CASE cache' = cache
  BY <1>1, <1>2
<1>3. CASE cache' # cache
  <2>1. PICK name \in TableNames : /\ UseOwnTable \/ tableKey(name) \notin DOMAIN tx.pending
                                   /\ cache' = getTableDef(tx, cache, name).cache
    BY <1>3 DEF lookedUp
  <2>2. Known(getTableDef(tx, cache, name).cache, db)
    BY <1>1, <2>1, LookKnown
  <2> QED BY <2>1, <2>2
<1> QED BY <1>2, <1>3

LEMMA StatementKeeps ==
    ASSUME CatalogInv, NEW s \in Sessions, NEW tx, TxOK(tx), NEW dirt, Follows(tx.snapshot, db, dirt),
           NEW next, Statement(s, tx, next), DirtyNow(s, dirt)
    PROVE  CatalogInv'
<1> DEFINE t == txs'[s]
<1>1. db' = db
  BY DEF Statement
<1>2. CASE /\ mode' = [mode EXCEPT ![s] = next] /\ txs' = [txs EXCEPT ![s] = t]
           /\ cache' = cache /\ \E def \in Defs : t = created(tx, def)
  <2>1. TxOK(t) /\ t.snapshot = tx.snapshot
    BY <1>2, CreatedKeeps
  <2>2. ~UseOwnTable => Known(cache', db)
    BY <1>2 DEF CatalogInv
  <2> HIDE DEF t
  <2> QED BY <1>1, <1>2, <2>1, <2>2, SessionStep
<1>3. CASE /\ mode' = [mode EXCEPT ![s] = next] /\ txs' = [txs EXCEPT ![s] = t]
           /\ lookedUp(tx) /\ rowsOnly(tx, t)
  <2>1. TxOK(t) /\ t.snapshot = tx.snapshot
    BY <1>3, RowsKeep
  <2>2. ~UseOwnTable => Known(cache', db)
    BY <1>3, LookupKeeps
  <2> HIDE DEF t
  <2> QED BY <1>1, <1>3, <2>1, <2>2, SessionStep
<1>4. CASE Ended(s) /\ lookedUp(tx)
  <2>1. mode' = [mode EXCEPT ![s] = "none"] /\ txs' = [txs EXCEPT ![s] = NoTx]
    BY <1>4 DEF Ended
  <2>2. ~UseOwnTable => Known(cache', db)
    BY <1>4, LookupKeeps
  <2> QED BY <1>1, <2>1, <2>2, SessionStep
<1> QED BY <1>2, <1>3, <1>4 DEF Statement

LEMMA BeginKeeps ==
    ASSUME CatalogInv, NEW s \in Sessions, TxBegin(s)
    PROVE  CatalogInv'
<1> DEFINE t == NewTx(db)
<1>1. CatalogOK(db) /\ (~UseOwnTable => Known(cache, db))
  BY DEF CatalogInv
<1>2. TxOK(t) /\ t.snapshot = db /\ Follows(db, db, {})
  BY <1>1, NewTxOK
<1> HIDE DEF t
<1>3. /\ mode' = [mode EXCEPT ![s] = "explicit"] /\ txs' = [txs EXCEPT ![s] = t]
      /\ DirtyNow(s, {}) /\ db' = db /\ cache' = cache
  BY DEF TxBegin, t, CatalogInv, DirtyNow
<1> QED BY <1>1, <1>2, <1>3, SessionStep

LEMMA AbortKeeps ==
    ASSUME CatalogInv, NEW s \in Sessions, TxAbort(s)
    PROVE  CatalogInv'
<1>1. ~UseOwnTable => Known(cache, db)
  BY DEF CatalogInv
<1>2. /\ mode' = [mode EXCEPT ![s] = "none"] /\ txs' = [txs EXCEPT ![s] = NoTx]
      /\ DirtyNow(s, {}) /\ db' = db /\ cache' = cache
  BY DEF TxAbort, Ended, CatalogInv, DirtyNow
<1> QED BY <1>1, <1>2, SessionStep

\* A commit, which the other sessions and the cache survive.
LEMMA TxCommitKeeps ==
    ASSUME CatalogInv, NEW s \in Sessions, TxCommit(s)
    PROVE  CatalogInv' /\ \A k \in tablesIn(db) : k \in DOMAIN db' /\ db'[k] = db[k]
<1> DEFINE tx == txs[s]
           new == applied(tx)
<1>1. TxOK(tx) /\ Follows(tx.snapshot, db, dirty[s]) /\ CatalogOK(db)
  BY DEF CatalogInv, TxCommit
<1>2. Clear(tx, dirty[s])
  BY DEF Clear, TxCommit, conflict
<1>3. CatalogOK(new) /\ \A k \in tablesIn(db) : k \in DOMAIN new /\ new[k] = db[k]
  <2> DEFINE d == dirty[s]
  <2> HIDE DEF tx, d
  <2> QED BY <1>1, <1>2, CommitKeeps DEF d
<1>4. db' = new /\ cache' = cache
  BY DEF TxCommit
<1>5. /\ DOMAIN dirty' = Sessions
      /\ \A u \in Sessions : u # s /\ mode[u] # "none" => dirty'[u] = dirty[u] \cup changed(new)
  BY DEF TxCommit
<1>6. DOMAIN mode = Sessions /\ DOMAIN txs = Sessions
  BY DEF CatalogInv
<1>7. mode' = [mode EXCEPT ![s] = "none"] /\ txs' = [txs EXCEPT ![s] = NoTx]
  BY DEF TxCommit, Ended
<1> HIDE DEF new
<1>8. DOMAIN mode' = Sessions /\ DOMAIN txs' = Sessions
  BY <1>6, <1>7
<1>9. ASSUME NEW u \in Sessions, mode'[u] # "none"
      PROVE  TxOK(txs'[u]) /\ Follows(txs'[u].snapshot, new, dirty'[u])
  <2>1. u # s /\ mode[u] # "none" /\ txs'[u] = txs[u]
    BY <1>6, <1>7, <1>9
  <2>2. TxOK(txs[u]) /\ Follows(txs[u].snapshot, db, dirty[u])
    BY <2>1 DEF CatalogInv
  <2>3. Follows(txs[u].snapshot, new, dirty[u] \cup changed(new))
    <3> DEFINE w == txs[u].snapshot
               d == dirty[u]
    <3> HIDE DEF w, d
    <3>1. Follows(w, db, d)
      BY <2>2 DEF w, d
    <3>2. Follows(w, new, d \cup changed(new))
      BY <1>3, <3>1, FollowsCommit
    <3> QED BY <3>2 DEF w, d
  <2> QED BY <1>5, <2>1, <2>2, <2>3
<1>10. ASSUME ~UseOwnTable PROVE Known(cache, new)
  <2>1. Known(cache, db)
    BY <1>10 DEF CatalogInv
  <2>2. ASSUME NEW name \in DOMAIN cache
        PROVE  /\ name \in Strings
               /\ tableKey(name) \in DOMAIN new /\ new[tableKey(name)] = cache[name]
    <3>1. /\ name \in Strings
          /\ tableKey(name) \in DOMAIN db /\ db[tableKey(name)] = cache[name]
      BY <2>1 DEF Known
    <3>2. tableKey(name) \in tablesIn(db)
      BY <3>1, CatalogKeys DEF tablesIn
    <3> QED BY <1>3, <3>1, <3>2
  <2> QED BY <2>2 DEF Known
<1>11. CatalogOK(db)' /\ (~UseOwnTable => Known(cache, db))'
  BY <1>3, <1>4, <1>10
<1>12. \A u \in Sessions : mode'[u] # "none" => TxOK(txs'[u]) /\ Follows(txs'[u].snapshot, db', dirty'[u])
  BY <1>4, <1>9
<1> QED BY <1>3, <1>4, <1>5, <1>8, <1>11, <1>12 DEF CatalogInv

LEMMA NextKeeps == CatalogInv /\ [CatalogNext]_catalogVars => CatalogInv'
<1> SUFFICES ASSUME CatalogInv, [CatalogNext]_catalogVars PROVE CatalogInv'
  OBVIOUS
<1>1. CASE UNCHANGED catalogVars
  BY <1>1 DEF catalogVars, CatalogInv
<1>2. CASE CatalogNext
  <2>1. PICK s \in Sessions :
            \/ TxBegin(s) \/ TxCommit(s) \/ TxAbort(s)
            \/ ~crashed /\ mode[s] = "explicit" /\ Statement(s, txs[s], "explicit") /\ UNCHANGED dirty
            \/ /\ ~crashed /\ mode[s] = "none" /\ Statement(s, NewTx(db), "auto")
               /\ dirty' = [dirty EXCEPT ![s] = {}]
    BY <1>2 DEF CatalogNext
  <2>2. CASE TxBegin(s)
    BY <2>2, BeginKeeps
  <2>3. CASE TxCommit(s)
    BY <2>3, TxCommitKeeps
  <2>4. CASE TxAbort(s)
    BY <2>4, AbortKeeps
  <2>5. CASE mode[s] = "explicit" /\ Statement(s, txs[s], "explicit") /\ UNCHANGED dirty
    <3> DEFINE tx == txs[s]
               d == dirty[s]
    <3>1. TxOK(tx) /\ Follows(tx.snapshot, db, d)
      BY <2>5 DEF CatalogInv
    <3>2. DirtyNow(s, d)
      BY <2>5 DEF CatalogInv, DirtyNow
    <3>3. Statement(s, tx, "explicit")
      BY <2>5
    <3> HIDE DEF tx, d
    <3> QED BY <3>1, <3>2, <3>3, StatementKeeps
  <2>6. CASE Statement(s, NewTx(db), "auto") /\ dirty' = [dirty EXCEPT ![s] = {}]
    <3> DEFINE tx == NewTx(db)
    <3>1. TxOK(tx) /\ tx.snapshot = db /\ Follows(db, db, {})
      BY NewTxOK DEF CatalogInv
    <3>2. Statement(s, tx, "auto") /\ DirtyNow(s, {})
      BY <2>6 DEF CatalogInv, DirtyNow
    <3> HIDE DEF tx
    <3> QED BY <3>1, <3>2, StatementKeeps
  <2> QED BY <2>1, <2>2, <2>3, <2>4, <2>5, <2>6
<1> QED BY <1>1, <1>2

-----------------------------------------------------------------------------
(* The theorems.                                                           *)

\* The inductive invariant: every transaction that is open has seen a sound
\* catalogue, knows which keys of it have changed since (dirty), and depends on
\* each key of it that it updates, so that a commit that meets no conflict
\* (kv.go Commit, table.go TableNew) puts new tables on top of a catalogue in
\* which neither their names nor their prefixes are taken.
THEOREM CatalogInvariant == CatalogSpec => []CatalogInv
<1>1. CatalogInit => CatalogInv
  BY InitOK
<1>2. CatalogInv /\ [CatalogNext]_catalogVars => CatalogInv'
  BY NextKeeps
<1> QED BY <1>1, <1>2, PTL DEF CatalogSpec

\* No two tables or indexes ever share a prefix, whichever transactions create
\* tables at the same time, and the counter is above all of them (table.go
\* TableNew): for every set of sessions, of definitions and of databases.
THEOREM PrefixesStayDisjoint == CatalogSpec => []PrefixesDisjoint
<1>1. CatalogInv => PrefixesDisjoint
  <2> SUFFICES ASSUME CatalogOK(db) PROVE PrefixesDisjoint
    BY DEF CatalogInv
  <2>1. ASSUME NEW t1 \in schemasIn(db), NEW t2 \in schemasIn(db), t1 # t2
        PROVE  Range(t1.Prefixes) \cap Range(t2.Prefixes) = {}
    <3>1. PICK k1 \in tablesIn(db) : t1 = db[k1]
      BY DEF schemasIn
    <3>2. PICK k2 \in tablesIn(db) : t2 = db[k2]
      BY DEF schemasIn
    <3> QED BY <2>1, <3>1, <3>2 DEF CatalogOK
  <2>2. ASSUME NEW t \in schemasIn(db)
        PROVE  IsInjective(t.Prefixes) /\ \A i \in DOMAIN t.Prefixes : t.Prefixes[i] < db[metaKey]
    <3>1. PICK k \in tablesIn(db) : t = db[k]
      BY DEF schemasIn
    <3>2. /\ IsInjective(t.Prefixes)
          /\ Range(t.Prefixes) \subseteq TABLE_PREFIX_MIN .. counter(db) - 1
          /\ counter(db) \in Nat
      BY <3>1 DEF CatalogOK
    <3>3. ASSUME NEW i \in DOMAIN t.Prefixes PROVE t.Prefixes[i] < db[metaKey]
      <4>1. t.Prefixes[i] \in TABLE_PREFIX_MIN .. counter(db) - 1
        BY <3>2 DEF Range
      <4>2. t.Prefixes[i] < counter(db) /\ counter(db) > TABLE_PREFIX_MIN
        BY <3>2, <4>1 DEF TABLE_PREFIX_MIN
      <4>3. counter(db) = db[metaKey]
        BY <4>2 DEF counter, TABLE_PREFIX_MIN
      <4> QED BY <4>2, <4>3
    <3> QED BY <3>2, <3>3
  <2> QED BY <2>1, <2>2 DEF PrefixesDisjoint
<1> QED BY <1>1, CatalogInvariant, PTL

\* Every schema in the cache that all sessions share (table.go getTableDef) is
\* that of a committed table, as long as no transaction uses a table that it has
\* created itself: a rolled back or failed CREATE TABLE leaves nothing there.
THEOREM CacheStaysTrue ==
    ASSUME ~UseOwnTable
    PROVE  CatalogSpec => []CacheTrue
<1>1. CatalogInv => CacheTrue
  BY DEF CatalogInv, Known, CacheTrue
<1> QED BY <1>1, CatalogInvariant, PTL

\* A committed table is never overwritten or lost, whatever the transactions are
\* that commit after it (table.go TableNew, kv.go Commit).
THEOREM TablesNeverChange == CatalogSpec => TablesKept
<1> DEFINE Stay == \A k \in tablesIn(db) : k \in DOMAIN db' /\ db'[k] = db[k]
<1>1. CatalogInv /\ CatalogNext => Stay
  <2> SUFFICES ASSUME CatalogInv, NEW s \in Sessions,
                      \/ TxBegin(s) \/ TxCommit(s) \/ TxAbort(s)
                      \/ Statement(s, txs[s], "explicit") \/ Statement(s, NewTx(db), "auto")
               PROVE  Stay
    BY DEF CatalogNext
  <2>1. CASE TxCommit(s)
    BY <2>1, TxCommitKeeps
  <2>2. CASE ~TxCommit(s)
    <3>1. db' = db
      BY <2>2 DEF TxBegin, TxAbort, Statement
    <3> QED BY <3>1 DEF tablesIn
  <2> QED BY <2>1, <2>2
<1>2. CatalogInv /\ [CatalogNext]_catalogVars => [Stay]_catalogVars
  BY <1>1
<1> QED BY <1>2, CatalogInvariant, PTL DEF CatalogSpec, TablesKept
=============================================================================
