------------------------------- MODULE QLScan -------------------------------
(***************************************************************************)
(* The conditions of a statement (db/ql_exec.go): INDEX BY gives a range   *)
(* of an index, FILTER picks rows of it and LIMIT a part of those.         *)
(*                                                                         *)
(* A request is a record as the parser leaves it (module QLParse).         *)
(***************************************************************************)
EXTENDS Tables, QLParse

NoRecord == [Cols |-> <<>>, Vals |-> <<>>]

-----------------------------------------------------------------------------
(* The range of the scan.                                                  *)

\* The columns and values of a comparison.
evalScanKey(key) ==
    IF key = NoKey THEN NoRecord
    ELSE [Cols |-> [i \in DOMAIN key.Kids[1].Kids |-> key.Kids[1].Kids[i].Str],
          Vals |-> evalMulti(NoRecord, key.Kids[2].Kids)]

scanKeyFails(key) == key # NoKey /\ evalFails(NoRecord, key.Kids[2].Kids)

\* The order of a scan follows its first comparison: ascending from > and >=,
\* descending from < and <=.
initScanner(req) ==
    LET key1 == evalScanKey(req.Key1)
        key2 == evalScanKey(req.Key2)
        range(k1, c1, k2, c2) == [Key1 |-> k1, Cmp1 |-> c1, Key2 |-> k2, Cmp2 |-> c2]
    IN  CASE req.Key1.Type = "NONE" -> range(key1, "GE", key2, "LE")
          [] req.Key1.Type = "EQ" /\ req.Key2.Type = "NONE" -> range(key1, "GE", key1, "LE")
          [] req.Key1.Type \in {"GE", "GT"} /\ req.Key2.Type = "NONE" ->
                range(key1, req.Key1.Type, key2, "LE")
          [] req.Key1.Type \in {"LE", "LT"} /\ req.Key2.Type = "NONE" ->
                range(key1, req.Key1.Type, key2, "GE")
          [] req.Key1.Type # "NONE" /\ req.Key2.Type # "NONE" ->
                range(key1, req.Key1.Type, key2, req.Key2.Type)

-----------------------------------------------------------------------------
(* The iterator.                                                           *)

\* The row under the scanner and whether the filter takes it.
pull(tx, it) ==
    Then(scDeref(tx, it.sc), LAMBDA row :
        IF row.out = "panic"
        THEN [tx |-> row.tx, out |-> "panic", matched |-> FALSE, rec |-> NoRecord]
        ELSE Then(IF it.req.Filter = NoFilter THEN IntVal(1)
                  ELSE evalExpr(it.req.Filter, row.rec), LAMBDA cond :
             [tx |-> row.tx, out |-> IF cond.Type = TYPE_INT64 THEN "ok" ELSE "error",
              matched |-> cond.Type = TYPE_INT64 /\ cond.I64 # 0, rec |-> row.rec]))

RECURSIVE pullRows(_, _)

\* The loop of Next: on to the first row that is taken and not skipped.  After
\* an error the scanner stays where it is.
pullRows(tx, it) ==
    IF ~scValid(it.sc) THEN [tx |-> tx, out |-> "ok", it |-> [it EXCEPT !.end = TRUE]]
    ELSE Then(pull(tx, it), LAMBDA row :
         CASE row.out = "panic" -> [tx |-> row.tx, out |-> "panic", it |-> it]
           [] row.out = "error" -> [tx |-> row.tx, out |-> "ok", it |-> [it EXCEPT !.err = TRUE]]
           [] row.out = "ok" ->
                Then([it EXCEPT !.sc = scNext(@), !.rec = row.rec,
                                !.count = @ + (IF row.matched THEN 1 ELSE 0)], LAMBDA on :
                IF row.matched /\ on.count > it.req.Offset
                THEN [tx |-> row.tx, out |-> "ok", it |-> on]
                ELSE pullRows(row.tx, on)))

scanNext(tx, it) ==
    IF it.count = it.req.Limit THEN [tx |-> tx, out |-> "ok", it |-> [it EXCEPT !.end = TRUE]]
    ELSE pullRows(tx, it)

\* The iterator at its first row.
execScan(tx, cache, req) ==
    LET none(t, c, out) == [tx |-> t, cache |-> c, out |-> out]
        iter(sc)        == [req |-> req, sc |-> sc, count |-> 0, end |-> FALSE, err |-> FALSE,
                            rec |-> NoRecord]
    IN  IF scanKeyFails(req.Key1) \/ scanKeyFails(req.Key2) THEN none(tx, cache, "error")
        ELSE Then(getTableDef(tx, cache, req.Table), LAMBDA def :
             IF def.out # "ok" THEN none(def.tx, def.cache, def.out)
             ELSE Then(dbScan(def.tx, def.tdef, initScanner(req)), LAMBDA scan :
                  IF scan.out # "ok" THEN none(scan.tx, def.cache, scan.out)
                  ELSE Then(scanNext(scan.tx, iter(scan.sc)), LAMBDA next :
                       [tx |-> next.tx, cache |-> def.cache, out |-> next.out, it |-> next.it])))

-----------------------------------------------------------------------------
(* The output of a select: expressions on the row, * being all columns in  *)
(* the order of the schema.                                                *)

selectExprs(tdef, output) ==
    FlattenSeq([i \in DOMAIN output |->
        IF output[i] = Star THEN [j \in DOMAIN tdef.Cols |-> Sym(tdef.Cols[j])]
        ELSE <<output[i]>>])

\* Deref of the select: the row, or an error of the scan or of the output.
selectFails(it, exprs) == it.err \/ evalFails(it.rec, exprs)
selectRow(it, exprs)   == evalMulti(it.rec, exprs)
=============================================================================
