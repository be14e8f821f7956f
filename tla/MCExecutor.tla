----------------------------- MODULE MCExecutor -----------------------------
(***************************************************************************)
(* Two sessions on a table t (k, w) with primary key k and an index on w,  *)
(* and tables u and v, with one and three indexes, that do not exist yet.  *)
(***************************************************************************)
EXTENDS Executor

CONSTANTS s1, s2

SessionSymmetry == Permutations({s1, s2})

MCSpelling ==
    [c \in {"t", "u", "v", "k", "w", "a", "b", "string", "bytes", "int", "int64"} |->
        CASE c = "t" -> <<116>> [] c = "u" -> <<117>> [] c = "v" -> <<118>> [] c = "k" -> <<107>>
          [] c = "w" -> <<119>> [] c = "a" -> <<97>> [] c = "b" -> <<98>>
          [] c = "string" -> <<115, 116, 114, 105, 110, 103>>
          [] c = "bytes" -> <<98, 121, 116, 101, 115>>
          [] c = "int" -> <<105, 110, 116>>
          [] c = "int64" -> <<105, 110, 116, 54, 52>>]

\* The few keys of these databases fit in one node.
MCBackTo == <<>>

name(c) == Spelling[c]

DefT == [Name |-> name("t"), Cols |-> <<name("k"), name("w")>>, Types |-> <<TYPE_INT64, TYPE_INT64>>,
         Indexes |-> <<<<name("k")>>, <<name("w")>>>>, Prefixes |-> <<>>]

Row(k, w) == <<IntVal(k), IntVal(w)>>
Rows      == {Row(k, w) : k \in 1 .. 2, w \in 0 .. 1}

\* Statements: their text, and what they mean: the rows they insert (<<>> for one
\* that fails), or those they pick and what an update makes of them.
Stmt(label, kind, table, text) ==
    [Name |-> label, Kind |-> kind, Table |-> name(table), text |-> text]

Insert(label, how, table, rows, text) ==
    Stmt(label, "insert", table, text) @@ [Mode |-> how, rows |-> rows]

Scan(label, kind, picks, text) == Stmt(label, kind, "t", text) @@ [picks |-> picks]

\* (k, w) values (n1, n2), (n3, n4), with what may stand for n3.
IntoKW(n1, n2, n3, n4) ==
    <<"sp", "into", "sp", "t", "(", "k", ",", "w", ")", "values", "(", n1, ",", n2, ")", ",", "(">>
    \o n3 \o <<",", n4, ")", ";">>

MCStmts == {
    \* create table u (a string, primary key (a));
    Stmt("create u", "create", "u",
         <<"create", "sp", "table", "sp", "u", "(", "a", "sp", "string", ",", "primary", "sp", "key",
           "(", "a", ")", ")", ";">>),
    \* create table v (a bytes, index (b), b int64, primary key (a), index (b, a));
    Stmt("create v", "create", "v",
         <<"create", "sp", "table", "sp", "v", "(", "a", "sp", "bytes", ",", "index", "(", "b", ")",
           ",", "b", "sp", "int64", ",", "primary", "sp", "key", "(", "a", ")", ",", "index", "(",
           "b", ",", "a", ")", ")", ";">>),
    Insert("insert t", "INSERT_ONLY", "t", <<Row(2, 1), Row(1, 1)>>,
           <<"insert">> \o IntoKW("2", "1", <<"1">>, "1")),
    Insert("upsert t", "UPSERT", "t", <<Row(1, 1), Row(1, 0)>>,
           <<"upsert">> \o IntoKW("1", "1", <<"1">>, "0")),
    Insert("replace t", "UPDATE_ONLY", "t", <<Row(2, 0), <<>>>>,
           <<"replace">> \o IntoKW("2", "0", <<"1", "/", "0">>, "0")),
    \* upsert into u (a) values ('a');
    Insert("insert u", "UPSERT", "u", <<<<StrVal(<<97>>)>>>>,
           <<"upsert", "sp", "into", "sp", "u", "(", "a", ")", "values", "(", "'", "a", "'", ")", ";">>),
    \* insert into t (k) values (1, 2);
    Stmt("uneven", "bad", "t",
         <<"insert", "sp", "into", "sp", "t", "(", "k", ")", "values", "(", "1", ",", "2", ")", ";">>),
    \* update t set w = 1 - w index by w >= 0;
    Scan("flip t", "update", Rows,
         <<"update", "sp", "t", "sp", "set", "sp", "w", "=", "1", "-", "w", "sp", "index", "sp", "by",
           "sp", "w", ">", "=", "0", ";">>) @@ [to |-> [r \in Rows |-> Row(r[1].I64, 1 - r[2].I64)]],
    \* update t set w = 1 / w;
    Scan("invert t", "update", Rows,
         <<"update", "sp", "t", "sp", "set", "sp", "w", "=", "1", "/", "w", ";">>)
      @@ [to |-> [r \in Rows |-> IF r[2].I64 = 0 THEN <<>> ELSE r]],
    \* delete from t index by w = 1;
    Scan("delete w", "delete", {r \in Rows : r[2].I64 = 1},
         <<"delete", "sp", "from", "sp", "t", "sp", "index", "sp", "by", "sp", "w", "=", "1", ";">>),
    \* delete from t filter k = 1;
    Scan("delete k", "delete", {r \in Rows : r[1].I64 = 1},
         <<"delete", "sp", "from", "sp", "t", "sp", "filter", "sp", "k", "=", "1", ";">>),
    \* select * from t;
    Scan("select t", "select", {},
         <<"select", "sp", "*", "from", "sp", "t", ";">>)}

\* Table t with some rows.
storeWith(rows) ==
    LET new  == Result(TableNew(NewTx(<<>>), DefT).tx)
        tdef == new[tableKey(DefT.Name)]
    IN  Result(FoldLeft(LAMBDA tx, row : dbUpdate(tx, tdef, [Cols |-> DefT.Cols, Vals |-> row],
                                                  "UPSERT").tx,
                        NewTx(new), rows))

MCStores == {storeWith(<<>>), storeWith(<<Row(1, 0)>>), storeWith(<<Row(1, 1), Row(2, 1)>>)}

MCNames == {name("t"), name("u"), name("v")}

\* The definitions in the CREATE statements.
MCDefs == {[Name |-> name("u"), Cols |-> <<name("a")>>, Types |-> <<TYPE_BYTES>>,
            Indexes |-> <<<<name("a")>>>>, Prefixes |-> <<>>],
           [Name |-> name("v"), Cols |-> <<name("a"), name("b")>>,
            Types |-> <<TYPE_BYTES, TYPE_INT64>>,
            Indexes |-> <<<<name("a")>>, <<name("b")>>, <<name("b"), name("a")>>>>,
            Prefixes |-> <<>>]}
=============================================================================
