----------------------------- MODULE Statements -----------------------------
(***************************************************************************)
(* The statements that change a table (db/ql_exec.go), each a sequence of  *)
(* reads and writes of one transaction, undone together on an error.       *)
(*                                                                         *)
(* A statement is a record with its Kind and what the parser fills in; the *)
(* conditions are fields of it as in QLScan.  The result carries the       *)
(* transaction, the cache of schemas, out and the numbers of rows.         *)
(***************************************************************************)
EXTENDS QLScan

Outcome(tx, cache, out) ==
    [tx |-> tx, cache |-> cache, out |-> out, added |-> 0, updated |-> 0, deleted |-> 0]

\* Mutant: the new schema goes to the cache at once.
execCreateTableCached(tx, cache, st) ==
    Then(TableNew(tx, st.Def), LAMBDA new :
        Outcome(new.tx,
                IF new.out # "ok" THEN cache
                ELSE (st.Table :> new.tx.pending[tableKey(st.Table)].val) @@ cache, new.out))

execCreateTable(tx, cache, st) ==
    Then(TableNew(tx, st.Def), LAMBDA new : Outcome(new.tx, cache, new.out))

\* Row by row; the first error ends the statement.
execInsert(tx, cache, st) ==
    LET rec(vals) == [Cols |-> st.Names, Vals |-> vals]
    IN  FoldLeft(LAMBDA r, exprs :
            IF r.out # "ok" THEN r
            ELSE IF evalFails(NoRecord, exprs) THEN [r EXCEPT !.out = "error"]
            ELSE Then(getTableDef(r.tx, r.cache, st.Table), LAMBDA def :
                 IF def.out # "ok" THEN Outcome(def.tx, def.cache, def.out)
                 ELSE Then(dbUpdate(def.tx, def.tdef, rec(evalMulti(NoRecord, exprs)), st.Mode),
                      LAMBDA set :
                         [r EXCEPT !.tx = set.tx, !.cache = def.cache, !.out = set.out,
                                   !.added   = @ + (IF set.added THEN 1 ELSE 0),
                                   !.updated = @ + (IF set.updated THEN 1 ELSE 0)])),
            Outcome(tx, cache, "ok"), st.Values)

\* One row of an update: the new values go to the positions that the columns
\* have in the schema, in a record that begins with the primary key.
updateRow(r, tdef, st, rec) ==
    LET vals  == evalMulti(rec, st.Values)
        at(j) == {i \in DOMAIN st.Names : colIndex(tdef.Cols, st.Names[i]) = j}
        new   == [rec EXCEPT !.Vals = [j \in DOMAIN @ |->
                    IF at(j) = {} THEN @[j] ELSE vals[Max(at(j))]]]
    IN  IF evalFails(rec, st.Values) THEN [r EXCEPT !.out = "error"]
        ELSE Then(dbUpdate(r.tx, tdef, new, "UPDATE_ONLY"), LAMBDA set :
             [r EXCEPT !.tx = set.tx, !.out = set.out,
                       !.updated = @ + (IF set.updated THEN 1 ELSE 0)])

\* One row of a delete; it must be there.
deleteRow(r, tdef, rec) ==
    Then(dbDelete(r.tx, tdef, rec), LAMBDA del :
        [r EXCEPT !.tx = del.tx, !.deleted = @ + 1,
                  !.out = IF del.out = "ok" /\ ~del.deleted THEN "panic" ELSE del.out])

RECURSIVE forRows(_, _, _, _)

\* The loop over the rows of a scan.  The row is written before the next one is
\* read, through the iterator made at the start.  A select, which the prompt reads
\* to its end, has succeeded before the error of a row is met.
forRows(r, it, tdef, st) ==
    IF it.end THEN r
    ELSE IF it.err THEN [r EXCEPT !.out = IF st.Kind = "select" THEN "ok" ELSE "error"]
    ELSE Then(CASE st.Kind = "update" -> updateRow(r, tdef, st, it.rec)
                [] st.Kind = "delete" -> deleteRow(r, tdef, it.rec)
                [] st.Kind = "select" -> r, LAMBDA done :
         IF done.out # "ok" THEN done
         ELSE Then(scanNext(done.tx, it), LAMBDA next :
              IF next.out = "panic" THEN [done EXCEPT !.out = "panic"]
              ELSE forRows([done EXCEPT !.tx = next.tx], next.it, tdef, st)))

\* execDelete and, with the loop of the prompt, execSelect.
scanRows(tx, cache, st) ==
    Then(execScan(tx, cache, st), LAMBDA scan :
        IF scan.out # "ok" THEN Outcome(scan.tx, scan.cache, scan.out)
        ELSE forRows(Outcome(scan.tx, scan.cache, "ok"), scan.it, scan.cache[st.Table], st))

\* The schema is looked at before it is known that there is one.
execUpdate(tx, cache, st) ==
    LET wrong(tdef, c) == ~Contains(tdef.Cols, c) \/ Contains(tdef.Indexes[1], c)
    IN  Then(getTableDef(tx, cache, st.Table), LAMBDA def :
            IF def.out # "ok"
            THEN Outcome(def.tx, def.cache, IF st.Names = <<>> THEN def.out ELSE "panic")
            ELSE IF \E i \in DOMAIN st.Names : wrong(def.tdef, st.Names[i])
            THEN Outcome(def.tx, def.cache, "error")
            ELSE scanRows(def.tx, def.cache, st))

\* Any statement: saved before, reverted on an error.
execStmt(tx, cache, st) ==
    Then(CASE st.Kind = "create" -> execCreateTable(tx, cache, st)
           [] st.Kind = "insert" -> execInsert(tx, cache, st)
           [] st.Kind = "update" -> execUpdate(tx, cache, st)
           [] st.Kind \in {"delete", "select"} -> scanRows(tx, cache, st), LAMBDA res :
        IF res.out = "error" THEN Outcome(Revert(res.tx, tx), res.cache, "error") ELSE res)
=============================================================================
