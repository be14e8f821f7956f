------------------------------ MODULE Catalog ------------------------------
(***************************************************************************)
(* Sessions on one database as the catalogue sees them: the tables @meta   *)
(* and @table, which hold the next free prefix and the schemas, and the    *)
(* cache of schemas (DB.tables) that all sessions share.                   *)
(*                                                                         *)
(* Transactions, CREATE TABLE and the lookup of a schema are those of the  *)
(* code.  Of any other statement this module says only what it may do to   *)
(* the catalogue: look up the schema of a table and leave the keys of the  *)
(* catalogue alone; what it does to rows and indexes is left open.         *)
(* Executor, which has all the statements, implements this specification.  *)
(*                                                                         *)
(* Beginning and committing a transaction are atomic (KV.mutex), and what  *)
(* happens in between works on the snapshot: a statement is one step.      *)
(* Commit is what SerialKV promises: an updater commits if no key in the   *)
(* ranges it depends on was changed since it began.                        *)
(***************************************************************************)
EXTENDS Tables, FiniteSets

CONSTANTS Sessions,     \* executors on the database
          TableNames,   \* names of tables
          Defs,         \* definitions of tables in CREATE TABLE
          Stores,       \* the database at the start
          UseOwnTable   \* may a transaction use a table that it created itself?

VARIABLES db,       \* the committed keys and values
          cache,    \* DB.tables
          mode,     \* of each session: "none", "explicit" or "auto"
          txs,      \* its transaction
          dirty,    \* the keys that commits changed since it began
          crashed   \* an assert failed: the program has ended

catalogVars == <<db, cache, mode, txs, dirty, crashed>>

NoTx == NewTx(<<>>)

-----------------------------------------------------------------------------
(* The catalogue in a database.                                            *)

Strings == Seq(0 .. 255)

\* Encoded keys start with a prefix and have at least one column.
IsKey(k) == k \in Seq(Nat) /\ Len(k) > 1

IsStore(store) == IsFiniteSet(DOMAIN store) /\ \A k \in DOMAIN store : IsKey(k)

inCatalog(k) == k[1] < TABLE_PREFIX_MIN

tablesIn(store) == {k \in DOMAIN store : k[1] = 2}

schemasIn(store) == {store[k] : k \in tablesIn(store)}

\* The next free prefix.
counter(store) == IF metaKey \in DOMAIN store THEN store[metaKey] ELSE TABLE_PREFIX_MIN

\* A catalogue that CREATE TABLE leaves behind: one key for each table, with
\* its name; prefixes that the counter has passed, and that no two share.
CatalogOK(store) ==
    /\ IsStore(store)
    /\ \A k \in DOMAIN store : k[1] = 1 => k = metaKey
    /\ counter(store) \in Nat /\ counter(store) >= TABLE_PREFIX_MIN
    /\ \A k \in tablesIn(store) :
           /\ store[k].Name \in Strings /\ k = tableKey(store[k].Name)
           /\ Range(store[k].Prefixes) \subseteq TABLE_PREFIX_MIN .. counter(store) - 1
           /\ IsInjective(store[k].Prefixes)
    /\ \A k1, k2 \in tablesIn(store) :
           k1 # k2 => Range(store[k1].Prefixes) \cap Range(store[k2].Prefixes) = {}

ASSUME CatalogAssumption ==
    /\ IsFiniteSet(Sessions) /\ Sessions # {}
    /\ TableNames \subseteq Strings
    /\ \A def \in Defs :
           /\ def = [Name |-> def.Name, Cols |-> def.Cols, Types |-> def.Types,
                     Indexes |-> def.Indexes, Prefixes |-> def.Prefixes]
           /\ def.Name \in TableNames
           /\ Len(def.Indexes) \in Nat
           /\ def.Indexes = [i \in 1 .. Len(def.Indexes) |-> def.Indexes[i]]
    /\ \A store \in Stores : CatalogOK(store)
    /\ UseOwnTable \in BOOLEAN

-----------------------------------------------------------------------------
(* Transactions.                                                           *)

CatalogInit ==
    /\ db \in Stores
    /\ cache = <<>>
    /\ mode = [s \in Sessions |-> "none"]
    /\ txs = [s \in Sessions |-> NoTx]
    /\ dirty = [s \in Sessions |-> {}]
    /\ crashed = FALSE

\* The session has no transaction any more.
Ended(s) ==
    /\ mode' = [mode EXCEPT ![s] = "none"]
    /\ txs' = [txs EXCEPT ![s] = NoTx]

TxBegin(s) ==
    /\ ~crashed /\ mode[s] = "none"
    /\ mode' = [mode EXCEPT ![s] = "explicit"]
    /\ txs' = [txs EXCEPT ![s] = NewTx(db)]
    /\ dirty' = [dirty EXCEPT ![s] = {}]
    /\ UNCHANGED <<db, cache, crashed>>

\* Mutant: a change of the first key of a range is not seen.
conflictStrict(s) ==
    /\ txs[s].updateAttempted
    /\ \E k \in dirty[s] : \E r \in txs[s].reads :
           Compare(r[1], k) < 0 /\ Compare(k, r[2]) <= 0

conflict(s) ==
    /\ txs[s].updateAttempted
    /\ \E k \in dirty[s] : \E r \in txs[s].reads :
           Compare(r[1], k) <= 0 /\ Compare(k, r[2]) <= 0

\* Mutant: the database after the commit is the transaction's own view of it.
appliedAlone(tx) ==
    [k \in {j \in DOMAIN tx.snapshot \cup DOMAIN tx.pending :
                j \in DOMAIN tx.pending => ~tx.pending[j].deleted} |->
        IF k \in DOMAIN tx.pending THEN tx.pending[k].val ELSE tx.snapshot[k]]

\* The database after the commit, on top of what others have committed.
applied(tx) ==
    [k \in {j \in DOMAIN db \cup DOMAIN tx.pending :
                j \in DOMAIN tx.pending => ~tx.pending[j].deleted} |->
        IF k \in DOMAIN tx.pending THEN tx.pending[k].val ELSE db[k]]

changed(new) ==
    {k \in DOMAIN db \cup DOMAIN new :
        ~(k \in DOMAIN db /\ k \in DOMAIN new /\ db[k] = new[k])}

TxCommit(s) ==
    /\ ~crashed /\ mode[s] # "none" /\ ~conflict(s)
    /\ LET new == applied(txs[s])
       IN  /\ db' = new
           /\ dirty' = [u \in Sessions |-> IF u = s \/ mode[u] = "none" THEN {}
                                           ELSE dirty[u] \cup changed(new)]
    /\ Ended(s)
    /\ UNCHANGED <<cache, crashed>>

\* Also a commit that meets a conflict or fails to write.
TxAbort(s) ==
    /\ ~crashed /\ mode[s] # "none"
    /\ Ended(s)
    /\ dirty' = [dirty EXCEPT ![s] = {}]
    /\ UNCHANGED <<db, cache, crashed>>

-----------------------------------------------------------------------------
(* Statements.  An error undoes the statement.                             *)

\* CREATE TABLE: the transaction after it.
created(tx, def) ==
    Then(TableNew(tx, def), LAMBDA new : IF new.out = "error" THEN Revert(new.tx, tx) ELSE new.tx)

\* Any other statement: it takes at most one schema to the cache, depends on
\* what it did before, and more, and updates rows and indexes only.
lookedUp(tx) ==
    \/ cache' = cache
    \/ \E name \in TableNames :
           /\ UseOwnTable \/ tableKey(name) \notin DOMAIN tx.pending
           /\ cache' = getTableDef(tx, cache, name).cache

rowsOnly(tx, new) ==
    /\ new = [snapshot |-> tx.snapshot, pending |-> new.pending, reads |-> new.reads,
              updateAttempted |-> new.updateAttempted]
    /\ tx.reads \subseteq new.reads
    /\ tx.updateAttempted => new.updateAttempted
    /\ IsStore(new.pending)
    /\ {k \in DOMAIN new.pending : inCatalog(k)} = {k \in DOMAIN tx.pending : inCatalog(k)}
    /\ \A k \in DOMAIN tx.pending : inCatalog(k) => new.pending[k] = tx.pending[k]

\* A statement of session s, in its transaction tx, which goes on in the mode
\* next; in a transaction of its own an error aborts.
Statement(s, tx, next) ==
    /\ \/ /\ mode' = [mode EXCEPT ![s] = next]
          /\ txs' = [txs EXCEPT ![s] = txs'[s]]
          /\ \/ cache' = cache /\ \E def \in Defs : txs'[s] = created(tx, def)
             \/ lookedUp(tx) /\ rowsOnly(tx, txs'[s])
       \/ next = "auto" /\ Ended(s) /\ lookedUp(tx)
    /\ crashed' \in BOOLEAN
    /\ UNCHANGED db

CatalogNext ==
    \E s \in Sessions :
        \/ TxBegin(s) \/ TxCommit(s) \/ TxAbort(s)
        \/ ~crashed /\ mode[s] = "explicit" /\ Statement(s, txs[s], "explicit") /\ UNCHANGED dirty
        \/ /\ ~crashed /\ mode[s] = "none" /\ Statement(s, NewTx(db), "auto")
           /\ dirty' = [dirty EXCEPT ![s] = {}]

CatalogSpec == CatalogInit /\ [][CatalogNext]_catalogVars

-----------------------------------------------------------------------------
(* Properties.                                                             *)

\* No two tables or indexes share a prefix, when they were created by concurrent
\* transactions too, and the counter is above them all (table.go TableNew).
PrefixesDisjoint ==
    /\ \A t1, t2 \in schemasIn(db) :
           t1 # t2 => Range(t1.Prefixes) \cap Range(t2.Prefixes) = {}
    /\ \A t \in schemasIn(db) :
           IsInjective(t.Prefixes) /\ \A i \in DOMAIN t.Prefixes : t.Prefixes[i] < db[metaKey]

\* Every schema in the cache is that of a committed table, whatever was rolled back
\* or failed to commit (table.go getTableDef), as long as no transaction uses a
\* table that it created itself.
CacheTrue ==
    \A name \in DOMAIN cache :
        tableKey(name) \in DOMAIN db /\ db[tableKey(name)] = cache[name]

\* A committed table stays as it is: no later commit, of whichever transaction
\* that ran at the same time, overwrites or loses its schema (table.go TableNew,
\* kv.go Commit), so that the cache needs no invalidation.
TablesKept ==
    [][\A k \in tablesIn(db) : k \in DOMAIN db' /\ db'[k] = db[k]]_catalogVars
=============================================================================
