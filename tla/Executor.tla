------------------------------ MODULE Executor ------------------------------
(***************************************************************************)
(* Sessions that execute statements on one database (Executor in           *)
(* db/ql_exec.go): in an explicit transaction between BEGIN and COMMIT or  *)
(* ROLLBACK, or each in a transaction of its own.  Catalog has what they   *)
(* share, the committed data and the cache of schemas, and transactions.   *)
(*                                                                         *)
(* The parser looks at nothing but the text, so that each text is parsed   *)
(* once: parsed keeps what the parser makes of it.                         *)
(***************************************************************************)
EXTENDS Statements, Catalog

CONSTANTS Stmts,        \* statements that sessions may execute, text and meaning
          MaxStmts      \* bound on the number of statements executed

ASSUME ExecutorAssumption == MaxStmts \in Nat

VARIABLES parsed,   \* what the parser makes of each statement, by its name
          count,    \* statements executed so far
          last      \* the statement just executed, for the properties

vars == <<parsed, count, last, catalogVars>>

NoStmt == <<>>

Init ==
    /\ parsed = [n \in {st.Name : st \in Stmts} |->
                    Parse((CHOOSE st \in Stmts : st.Name = n).text)]
    /\ CatalogInit
    /\ count = 0
    /\ last = NoStmt

-----------------------------------------------------------------------------
(* The rows of the tables in a database or in a transaction's view of it.  *)

rowsIn(store, tdef) ==
    {rowAt(tdef, k, store[k]).rec.Vals : k \in {j \in DOMAIN store : j[1] = tdef.Prefixes[1]}}

\* The tables that a transaction with this view can name, with their rows.
tablesOf(view, known) ==
    LET schemas == schemasIn(view) \cup Range(known)
    IN  [n \in {tdef.Name : tdef \in schemas} |->
            rowsIn(view, CHOOSE tdef \in schemas : tdef.Name = n)]

-----------------------------------------------------------------------------
(* Transactions.                                                           *)

NoStatement == last' = NoStmt /\ UNCHANGED <<parsed, count>>

Begin(s)    == count < MaxStmts /\ TxBegin(s) /\ NoStatement
Commit(s)   == TxCommit(s) /\ NoStatement
Rollback(s) == TxAbort(s) /\ NoStatement

-----------------------------------------------------------------------------
(* Statements.                                                             *)

ownTable(tx, st) == st.Kind \notin {"bad", "create"} /\ tableKey(st.Table) \in DOMAIN tx.pending

\* What happened, for the properties: the tables before and after as sets of rows.
ran(st, tx, res) ==
    [stmt   |-> st.Name,
     out    |-> res.out,
     counts |-> <<res.added, res.updated, res.deleted>>,
     holes  |-> \E k \in DOMAIN tx.pending : tx.pending[k].deleted,
     seen   |-> {tdef.Name : tdef \in schemasIn(Result(tx))},
     before |-> tablesOf(Result(tx), cache),
     after  |-> tablesOf(Result(res.tx), res.cache)]

\* The effect of executing the text of st in the transaction tx of session s, which
\* goes on in the mode next; an error in auto-commit mode aborts.  (A text that is
\* no statement does not even begin a transaction.)
Execute(s, st, tx, next) ==
    LET parse == parsed[st.Name]
        end(res) == next = "auto" /\ res.out = "error"
    IN  /\ count < MaxStmts
        /\ count' = count + 1
        /\ UseOwnTable \/ ~ownTable(tx, st)
        /\ \E res \in {IF parse.err THEN Outcome(tx, cache, "error")
                      ELSE execStmt(tx, cache, parse.stmt)} :
               /\ cache' = res.cache
               /\ mode' = [mode EXCEPT ![s] = IF end(res) THEN "none" ELSE next]
               /\ txs' = [txs EXCEPT ![s] = IF end(res) THEN NoTx ELSE res.tx]
               /\ last' = ran(st, tx, res)
               /\ crashed' = (res.out = "panic")

ExecStr(s, st) ==
    /\ ~crashed /\ mode[s] = "explicit"
    /\ Execute(s, st, txs[s], "explicit")
    /\ UNCHANGED <<parsed, db, dirty>>

\* Without BEGIN the statement has a transaction of its own, which Commit ends.
ExecStrAuto(s, st) ==
    /\ ~crashed /\ mode[s] = "none"
    /\ Execute(s, st, NewTx(db), "auto")
    /\ dirty' = [dirty EXCEPT ![s] = {}]
    /\ UNCHANGED <<parsed, db>>

Finished ==
    /\ crashed \/ (count = MaxStmts /\ \A s \in Sessions : mode[s] = "none")
    /\ UNCHANGED vars

Next ==
    \/ \E s \in Sessions : Begin(s) \/ Commit(s) \/ Rollback(s)
    \/ \E s \in Sessions, st \in Stmts : ExecStr(s, st) \/ ExecStrAuto(s, st)
    \/ Finished

Spec == Init /\ [][Next]_vars

-----------------------------------------------------------------------------
(* Properties.                                                             *)

\* Executing statements is what Catalog says of the catalogue: every statement but
\* CREATE TABLE looks up schemas and touches rows and indexes only, after an error
\* in the middle of it too (ql_exec.go, table.go).
ImplementsCatalog == CatalogSpec

\* What a database looks like: the keys of each table are exactly its rows and,
\* for each row, one entry in every index; no key is outside of all tables.
wellFormed(store, schemas) ==
    LET keysOf(tdef) ==
            LET recs == {[Cols |-> rowCols(tdef), Vals |-> v] : v \in rowsIn(store, tdef)}
            IN  {encodeKey(tdef.Prefixes[i], getValues(rec, tdef.Indexes[i])) :
                    i \in DOMAIN tdef.Indexes, rec \in recs}
    IN  UNION {keysOf(tdef) : tdef \in schemas} = {k \in DOMAIN store : k[1] >= TABLE_PREFIX_MIN}

\* Indexes and rows agree in the committed data, and in what every open transaction
\* sees between its statements, and every key belongs to a table.  It does not hold
\* if a transaction may use a table that it created itself (UseOwnTable): others take
\* the schema from the cache, before it commits and after it is rolled back, and
\* commit keys that belong to no table.
KeysAgree ==
    ~crashed =>
        /\ wellFormed(db, schemasIn(db))
        /\ \A s \in Sessions : mode[s] # "none" =>
               LET view == Result(txs[s])
               IN  wellFormed(view, schemasIn(view) \cup Range(cache))

\* Indexes and rows agree in the committed data, and in what every open transaction
\* sees between its statements, after errors in the middle of a statement and
\* after commits of others too, as long as every schema in the cache is that of a
\* committed table (table.go dbUpdate, dbDelete and indexOp).
IndexesAgree == CacheTrue => KeysAgree

\* Every schema that is committed, cached or seen by a transaction is sound: what
\* CREATE TABLE makes of the indexes it is given, which may leave out the primary
\* key, has keys that tell all rows apart (table.go TableNew and checkIndexCols).
\* (No definition here names a column of the table twice; the code does not look.)
SchemasSound ==
    LET views == {Result(txs[s]) : s \in {s \in Sessions : mode[s] # "none"}}
    IN  \A tdef \in UNION {schemasIn(store) : store \in {db} \cup views} \cup Range(cache) :
            SchemaOK(tdef)

\* What a statement means for the rows of its table.  It fails if the text is no
\* statement, if there is no such table, if a row is refused, or where an expression
\* fails, and CREATE fails if the transaction sees the table; then nothing has
\* changed.  (A table that is only in the cache, because it was committed after the
\* transaction began, can be used.)
meaning(st, tables, seen) ==
    LET rows    == tables[st.Table]
        pk(row) == row[1]
        with(row, t) == {r \in t : pk(r) # pk(row)} \cup {row}
        has(row, t)  == \E r \in t : pk(r) = pk(row)
        keeps(row, t) == row \in t \/ (st.Mode = "UPDATE_ONLY" /\ ~has(row, t))
        insert(a, row) ==
            IF a.fails \/ row = <<>> \/ (st.Mode = "INSERT_ONLY" /\ has(row, a.rows))
            THEN [a EXCEPT !.fails = TRUE]
            ELSE IF keeps(row, a.rows) THEN a
            ELSE [a EXCEPT !.rows = with(row, @), !.updated = @ + 1,
                           !.added = @ + (IF has(row, a.rows) THEN 0 ELSE 1)]
        all    == FoldLeft(insert, [fails |-> FALSE, rows |-> rows, added |-> 0, updated |-> 0],
                           st.rows)
        picked == rows \cap st.picks
        same   == [out |-> "ok", tables |-> tables, counts |-> <<0, 0, 0>>]
        to(new, counts) == [out |-> "ok", tables |-> [tables EXCEPT ![st.Table] = new],
                            counts |-> counts]
    IN  CASE st.Kind = "bad" -> [same EXCEPT !.out = "error"]
          [] st.Kind = "create" ->
                IF st.Table \in seen THEN [same EXCEPT !.out = "error"]
                ELSE [same EXCEPT !.tables = (st.Table :> {}) @@ @]
          [] st.Kind \notin {"bad", "create"} /\ st.Table \notin DOMAIN tables -> [same EXCEPT !.out = "error"]
          [] st.Table \in DOMAIN tables /\ st.Kind = "insert" ->
                IF all.fails THEN [same EXCEPT !.out = "error"]
                ELSE to(all.rows, <<all.added, all.updated, 0>>)
          [] st.Table \in DOMAIN tables /\ st.Kind = "update" ->
                IF \E r \in picked : st.to[r] = <<>> THEN [same EXCEPT !.out = "error"]
                ELSE to((rows \ picked) \cup {st.to[r] : r \in picked},
                        <<0, Cardinality({r \in picked : st.to[r] # r}), 0>>)
          [] st.Table \in DOMAIN tables /\ st.Kind = "delete" ->
                to(rows \ picked, <<0, 0, Cardinality(picked)>>)
          [] st.Table \in DOMAIN tables /\ st.Kind = "select" -> same

\* A statement does to the rows what it means, all of it or, on an error, nothing,
\* reports the right numbers of rows and never fails an assert; statements that scan
\* a table promise this in a transaction that has deleted nothing so far
\* (ql_exec.go execStmt, execInsert, execUpdate and execDelete).
StatementCorrect ==
    last # NoStmt =>
        LET st == CHOOSE x \in Stmts : x.Name = last.stmt
            m  == meaning(st, last.before, last.seen)
        IN  st.Kind \in {"create", "insert"} \/ ~last.holes =>
                last.out = m.out /\ last.after = m.tables /\ last.counts = m.counts
=============================================================================
