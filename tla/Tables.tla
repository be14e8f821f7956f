------------------------------- MODULE Tables -------------------------------
(***************************************************************************)
(* Tables, rows and secondary indexes as keys of a transaction             *)
(* (db/table.go).  A row is one key, its primary key columns, with the     *)
(* other columns as value; each secondary index adds one key per row, with *)
(* an empty value.  Operations take the transaction and return it changed, *)
(* with out = "ok", "error" (the error return) or "panic" (an assert or a  *)
(* read past the end of a slice).                                          *)
(*                                                                         *)
(* A record is a sequence of columns and one of values.  Names of tables   *)
(* are byte strings.  The rows of the internal tables hold their value     *)
(* itself: the number in @meta, the schema in @table.                      *)
(***************************************************************************)
EXTENDS CombinedIter

TABLE_PREFIX_MIN == 100

metaKey        == encodeKey(1, <<StrVal(<<110, 112>>)>>)   \* next_prefix
tableKey(name) == encodeKey(2, <<StrVal(name)>>)

-----------------------------------------------------------------------------
(* Records and schemas.                                                    *)

colIndex(cols, c) == SelectInSeq(cols, LAMBDA x : x = c)

typesOf(tdef, cols) == [i \in DOMAIN cols |-> tdef.Types[colIndex(tdef.Cols, cols[i])]]

\* getValues finds every column, with its type.
hasValues(tdef, rec, cols) ==
    \A i \in DOMAIN cols :
        LET j == colIndex(rec.Cols, cols[i])
        IN  j # 0 /\ rec.Vals[j].Type = tdef.Types[colIndex(tdef.Cols, cols[i])]

getValues(rec, cols) == [i \in DOMAIN cols |-> rec.Vals[colIndex(rec.Cols, cols[i])]]

nonPrimaryKeyCols(tdef) == SelectSeq(tdef.Cols, LAMBDA c : ~Contains(tdef.Indexes[1], c))

\* Rows are stored with the columns of the primary key first.
rowCols(tdef) == tdef.Indexes[1] \o nonPrimaryKeyCols(tdef)

\* A column of an index that the table does not have, or named twice.
badIndex(tdef, index) ==
    \/ index = <<>>
    \/ \E i \in DOMAIN index : ~Contains(tdef.Cols, index[i])
    \/ \E i, j \in DOMAIN index : i # j /\ index[i] = index[j]

badTableDef(tdef) ==
    \/ tdef.Name = <<>> \/ tdef.Cols = <<>> \/ tdef.Indexes = <<>>
    \/ Len(tdef.Cols) # Len(tdef.Types)
    \/ \E i \in DOMAIN tdef.Indexes : badIndex(tdef, tdef.Indexes[i])

\* Mutant: the columns of the primary key are not added to an index.
checkIndexColsOnly(tdef, index) == index

\* The primary key columns that are not in the index follow those that are:
\* this makes the keys of the index unique.
checkIndexCols(tdef, index) ==
    index \o SelectSeq(tdef.Indexes[1], LAMBDA c : ~Contains(index, c))

\* What makes a schema sound: no column occurs twice in a row, every index names
\* columns of the table and among them those of the primary key, the first index,
\* and each has a prefix of its own.
Columns(tdef) == Range(rowCols(tdef))

Places(tdef) == 1 .. Len(tdef.Indexes)

Distinct(cols) == \A i, j \in DOMAIN cols : cols[i] = cols[j] => i = j

SchemaOK(tdef) ==
    /\ Distinct(rowCols(tdef))
    /\ nonPrimaryKeyCols(tdef) \in Seq(Columns(tdef))
    /\ Len(tdef.Indexes) \in Nat /\ Len(tdef.Indexes) > 0
    /\ \A i \in Places(tdef) :
           /\ tdef.Indexes[i] \in Seq(Columns(tdef))
           /\ Range(tdef.Indexes[1]) \subseteq Range(tdef.Indexes[i])
           /\ tdef.Prefixes[i] \in Nat
    /\ \A i, j \in Places(tdef) : tdef.Prefixes[i] = tdef.Prefixes[j] => i = j

-----------------------------------------------------------------------------
(* Reading rows.                                                           *)

\* dbGet of a row whose key is known: a range read from the key on to +inf.
getKey(tx, key) ==
    Then(kvSeek(tx, key, "GE", Append(key, 255), "LE"), LAMBDA seek :
        [tx |-> seek.tx, ok |-> ~seek.panic /\ ciValid(seek.iter), panic |-> seek.panic,
         iter |-> seek.iter])

\* The row at an entry of the primary index.
rowAt(tdef, key, val) ==
    Then(decodeKey(key, typesOf(tdef, tdef.Indexes[1])), LAMBDA pk :
    Then(decodeValues(val, typesOf(tdef, nonPrimaryKeyCols(tdef))), LAMBDA rest :
        [ok  |-> pk.ok /\ rest.ok,
         rec |-> [Cols |-> rowCols(tdef), Vals |-> pk.vals \o rest.vals]]))

dbGet(tx, tdef, rec) ==
    IF ~hasValues(tdef, rec, tdef.Indexes[1]) THEN [tx |-> tx, out |-> "error", ok |-> FALSE]
    ELSE Then(getKey(tx, encodeKey(tdef.Prefixes[1], getValues(rec, tdef.Indexes[1]))), LAMBDA get :
         IF ~get.ok THEN [tx |-> get.tx, out |-> IF get.panic THEN "panic" ELSE "ok", ok |-> FALSE]
         ELSE Then(rowAt(tdef, CurKey(get.iter), CurVal(get.iter)), LAMBDA row :
              [tx |-> get.tx, out |-> IF row.ok THEN "ok" ELSE "panic",
               ok |-> row.ok, rec |-> row.rec]))

\* The first index that starts with the columns of both keys, or 0.
indexFor(tdef, key1, key2) ==
    SelectInSeq(tdef.Indexes, LAMBDA i : IsPrefix(key1, i) /\ IsPrefix(key2, i))

checkTypes(tdef, rec) ==
    /\ Len(rec.Cols) = Len(rec.Vals)
    /\ \A i \in DOMAIN rec.Cols : Contains(tdef.Cols, rec.Cols[i])
    /\ hasValues(tdef, rec, rec.Cols)

\* Range query: the transaction with the range as dependency, and the scanner.
dbScan(tx, tdef, req) ==
    LET bad   == \/ req.Cmp1 = "EQ" \/ req.Cmp2 = "EQ"
                 \/ Forward(req.Cmp1) = Forward(req.Cmp2)
                 \/ ~checkTypes(tdef, req.Key1) \/ ~checkTypes(tdef, req.Key2)
        bound(index, key, cmp) == encodeKeyPartial(tdef.Prefixes[index], key.Vals, cmp)
    IN  Then(IF bad THEN 0 ELSE indexFor(tdef, req.Key1.Cols, req.Key2.Cols), LAMBDA index :
            IF index = 0 THEN [tx |-> tx, out |-> "error"]
            ELSE Then(kvSeek(tx, bound(index, req.Key1, req.Cmp1), req.Cmp1,
                                 bound(index, req.Key2, req.Cmp2), req.Cmp2), LAMBDA seek :
                 [tx |-> seek.tx, out |-> IF seek.panic THEN "panic" ELSE "ok",
                  sc |-> [tdef |-> tdef, index |-> index, iter |-> seek.iter]]))

scValid(sc) == ciValid(sc.iter)
scNext(sc)  == [sc EXCEPT !.iter = ciNext(@)]

\* The current row; from an index, the row its entry points to.
scDeref(tx, sc) ==
    LET index == sc.tdef.Indexes[sc.index]
        panic == [tx |-> tx, out |-> "panic"]
    IN  IF sc.index = 1
        THEN Then(rowAt(sc.tdef, CurKey(sc.iter), CurVal(sc.iter)), LAMBDA row :
             IF ~row.ok THEN panic ELSE [tx |-> tx, out |-> "ok", rec |-> row.rec])
        ELSE Then(decodeKey(CurKey(sc.iter), typesOf(sc.tdef, index)), LAMBDA entry :
             IF CurVal(sc.iter) # <<>> \/ ~entry.ok THEN panic
             ELSE Then(dbGet(tx, sc.tdef, [Cols |-> index, Vals |-> entry.vals]), LAMBDA get :
                  IF ~get.ok THEN panic ELSE [tx |-> get.tx, out |-> "ok", rec |-> get.rec]))

-----------------------------------------------------------------------------
(* Writing rows.                                                           *)

\* Add or remove the entry of a row in index i: an add must be of a new key and
\* a delete of a key that is there.
indexOpAt(st, tdef, op, rec, i) ==
    IF st.out # "ok" THEN st
    ELSE IF ~hasValues(tdef, rec, tdef.Indexes[i]) THEN [st EXCEPT !.out = "panic"]
    ELSE Then(encodeKey(tdef.Prefixes[i], getValues(rec, tdef.Indexes[i])), LAMBDA key :
         IF op = "ADD"
         THEN Then(kvUpdate(st.tx, key, <<>>, "UPSERT"), LAMBDA add :
              [tx |-> add.tx, out |-> IF add.added THEN "ok" ELSE "panic"])
         ELSE Then(kvDel(st.tx, key), LAMBDA del :
              [tx |-> del.tx, out |-> IF del.deleted THEN "ok" ELSE "panic"]))

\* The entries of a row in all secondary indexes.
indexOp(tx, tdef, op, rec) ==
    LET done[i \in 1 .. Len(tdef.Indexes)] ==
            IF i = 1 THEN [tx |-> tx, out |-> "ok"]
            ELSE Then(done[i - 1], LAMBDA st : indexOpAt(st, tdef, op, rec, i))
    IN  done[Len(tdef.Indexes)]

\* Insert or update a row: the row, then the entries of the old row in the
\* indexes go and those of the new row come.
dbUpdate(tx, tdef, rec, mode) ==
    LET key == encodeKey(tdef.Prefixes[1], getValues(rec, tdef.Indexes[1]))
        val == encodeValues(getValues(rec, nonPrimaryKeyCols(tdef)))
        result(req, st) == [tx |-> st.tx, out |-> st.out,
                            updated |-> req.updated, added |-> req.added]
    IN  IF ~hasValues(tdef, rec, rowCols(tdef))
        THEN [tx |-> tx, out |-> "error", updated |-> FALSE, added |-> FALSE]
        ELSE Then(kvUpdate(tx, key, val, mode), LAMBDA req :
             IF ~req.updated THEN result(req, [tx |-> req.tx, out |-> IF req.err THEN "error" ELSE "ok"])
             ELSE Then(IF req.added THEN [tx |-> req.tx, out |-> "ok"]
                       ELSE indexOp(req.tx, tdef, "DEL", rowAt(tdef, key, req.old).rec), LAMBDA del :
                  result(req, IF del.out = "ok" THEN indexOp(del.tx, tdef, "ADD", rec) ELSE del)))

\* Mutant: the index entries of the row are left behind.
dbDeleteRowOnly(tx, tdef, rec) ==
    Then(kvDel(tx, encodeKey(tdef.Prefixes[1], getValues(rec, tdef.Indexes[1]))), LAMBDA del :
        [tx |-> del.tx, out |-> "ok", deleted |-> del.deleted])

\* Delete a row by primary key.  The old row is put together from the columns
\* in the order of the schema and the values in the order of rowCols.
dbDelete(tx, tdef, rec) ==
    LET vals == getValues(rec, tdef.Indexes[1])
        rest(old) == decodeValues(old, typesOf(tdef, nonPrimaryKeyCols(tdef))).vals
    IN  IF ~hasValues(tdef, rec, tdef.Indexes[1]) THEN [tx |-> tx, out |-> "ok", deleted |-> FALSE]
        ELSE Then(kvDel(tx, encodeKey(tdef.Prefixes[1], vals)), LAMBDA del :
             IF ~del.deleted THEN [tx |-> del.tx, out |-> "ok", deleted |-> FALSE]
             ELSE Then(indexOp(del.tx, tdef, "DEL",
                               [Cols |-> tdef.Cols, Vals |-> vals \o rest(del.old)]), LAMBDA st :
                  [tx |-> st.tx, out |-> st.out, deleted |-> TRUE]))

-----------------------------------------------------------------------------
(* Schemas.                                                                *)

nextPrefix(prefix, tdef) == prefix + Len(tdef.Indexes)

\* Create a table: its prefixes come from the counter in @meta, its schema
\* goes to @table.
TableNew(tx, def) ==
    LET tdef == [def EXCEPT !.Indexes = [i \in DOMAIN @ |-> checkIndexCols(def, @[i])]]
        full(prefix) == [tdef EXCEPT !.Prefixes = [i \in DOMAIN tdef.Indexes |-> prefix + i - 1]]
        count(t, prefix) == kvUpdate(t, metaKey, nextPrefix(prefix, tdef), "UPSERT").tx
    IN  IF badTableDef(def) THEN [tx |-> tx, out |-> "error"]
        ELSE Then(getKey(tx, tableKey(def.Name)), LAMBDA table :
             IF table.ok \/ table.panic
             THEN [tx |-> table.tx, out |-> IF table.panic THEN "panic" ELSE "error"]
             ELSE Then(getKey(table.tx, metaKey), LAMBDA meta :
                  Then(IF meta.ok THEN CurVal(meta.iter) ELSE TABLE_PREFIX_MIN, LAMBDA prefix :
                  IF meta.panic \/ (meta.ok /\ prefix <= TABLE_PREFIX_MIN)
                  THEN [tx |-> meta.tx, out |-> "panic"]
                  ELSE [tx  |-> kvUpdate(count(meta.tx, prefix), tableKey(def.Name), full(prefix),
                                         "UPSERT").tx,
                        out |-> "ok"])))

\* The schema of a table, from the cache or else from @table, as the
\* transaction sees it, and then into the cache.
getTableDef(tx, cache, name) ==
    LET found(t, tdef) == [tx |-> t, cache |-> Bind(cache, name, tdef), out |-> "ok", tdef |-> tdef]
    IN  IF name \in DOMAIN cache THEN found(tx, cache[name])
        ELSE Then(getKey(tx, tableKey(name)), LAMBDA table :
             IF table.ok THEN found(table.tx, CurVal(table.iter))
             ELSE [tx |-> table.tx, cache |-> cache, out |-> IF table.panic THEN "panic" ELSE "error"])
=============================================================================
