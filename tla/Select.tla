------------------------------- MODULE Select -------------------------------
(***************************************************************************)
(* One select, from its text to its last row, in an open transaction: the  *)
(* executor parses it (ExecStr in db/ql_exec.go), opens the scan           *)
(* (execSelect) and the prompt prints it row by row (printRecords in       *)
(* cmd/ql.go).  The transaction already has pending writes, so that every  *)
(* layer is passed: the parser, the merge of pending updates and snapshot, *)
(* the encoded keys, the detour from an index to its row, the filter, the  *)
(* offset and the limit.                                                   *)
(*                                                                         *)
(* Queries names the cases.  Text(q) and FilterText(q) are the text and    *)
(* the filter in it.  Case(q) is a record: the database empty after CREATE *)
(* TABLE and the schema tdef that is in it; the writes base that led to    *)
(* the snapshot and those that the transaction has pending; a set others   *)
(* of writes that concurrent transactions might make.  What the text means *)
(* is told without its syntax: the ends key1 and key2 of the range, the    *)
(* limit, the rows keep that the filter takes and bad that it fails on,    *)
(* and what is shown of a row (<<>> if the output fails on it).  An        *)
(* invalid request is refused.  Cases with told = FALSE are there for      *)
(* their text only.                                                        *)
(***************************************************************************)
EXTENDS QLScan

CONSTANTS Queries, Text(_), FilterText(_), Case(_)

VARIABLES query,     \* the name of the case
          stmt,      \* the statement, once parsed
          tx,        \* the transaction
          it,        \* the iterator, once open
          exprs,     \* what is printed of a row
          phase,     \* "typed", "parsed", "rows", "done", "failed" or "panic"
          printed    \* the rows printed

vars == <<query, stmt, tx, it, exprs, phase, printed>>

-----------------------------------------------------------------------------
(* The database before the select.                                         *)

record(def, row) == [Cols |-> def.Cols, Vals |-> row]

write(t, tdef, w) ==
    IF w.op = "delete" THEN dbDelete(t, tdef, record(tdef, w.row)).tx
    ELSE dbUpdate(t, tdef, record(tdef, w.row), "UPSERT").tx

snapshotOf(q) ==
    Result(FoldLeft(LAMBDA t, w : write(t, q.tdef, w), NewTx(q.empty), q.base))

startTx(q) == FoldLeft(LAMBDA t, w : write(t, q.tdef, w), NewTx(snapshotOf(q)), q.pending)

-----------------------------------------------------------------------------
Init ==
    /\ query \in Queries
    /\ stmt = NoNode
    /\ tx = startTx(Case(query))
    /\ it = NoRecord
    /\ exprs = <<>>
    /\ phase = "typed"
    /\ printed = <<>>

\* Parser.Parse.
Read ==
    /\ phase = "typed"
    /\ \E parse \in {Parse(Text(query))} :
           /\ stmt' = IF parse.err THEN NoNode ELSE parse.stmt
           /\ phase' = IF parse.err THEN "failed" ELSE "parsed"
    /\ UNCHANGED <<query, tx, it, exprs, printed>>

\* execStmt and execSelect; an error reverts what the transaction depends on.
Open ==
    /\ phase = "parsed"
    /\ \E scan \in {execScan(tx, <<>>, stmt)} :
           /\ tx' = IF scan.out = "error" THEN tx ELSE scan.tx
           /\ phase' = CASE scan.out = "panic" -> "panic"
                         [] scan.out = "error" -> "failed"
                         [] scan.out = "ok"    -> "rows"
           /\ it' = IF scan.out = "ok" THEN scan.it ELSE it
           /\ exprs' = IF scan.out = "ok" THEN selectExprs(scan.cache[stmt.Table], stmt.Output)
                       ELSE exprs
    /\ UNCHANGED <<query, stmt, printed>>

\* The loop of printRecords.
PrintRow ==
    /\ phase = "rows" /\ ~it.end /\ ~selectFails(it, exprs)
    /\ printed' = Append(printed, selectRow(it, exprs))
    /\ \E next \in {scanNext(tx, it)} :
           /\ tx' = next.tx
           /\ it' = next.it
           /\ phase' = IF next.out = "panic" THEN "panic" ELSE phase
    /\ UNCHANGED <<query, stmt, exprs>>

PrintError ==
    /\ phase = "rows" /\ ~it.end /\ selectFails(it, exprs)
    /\ phase' = "failed"
    /\ UNCHANGED <<query, stmt, tx, it, exprs, printed>>

PrintDone ==
    /\ phase = "rows" /\ it.end
    /\ phase' = "done"
    /\ UNCHANGED <<query, stmt, tx, it, exprs, printed>>

Stopped == phase \in {"done", "failed", "panic"}

Finished == Stopped /\ UNCHANGED vars

Next == Read \/ Open \/ PrintRow \/ PrintError \/ PrintDone \/ Finished

Spec == Init /\ [][Next]_vars

-----------------------------------------------------------------------------
(* What a select means, on rows instead of keys.                           *)

cell(def, row, c) == row[colIndex(def.Cols, c)]
cells(def, row, cols) == [i \in DOMAIN cols |-> cell(def, row, cols[i])]

\* The order of tuples of values, the shorter one being cut off.
tupleOrder(s, t) ==
    Then({i \in DOMAIN s \cap DOMAIN t : s[i] # t[i]}, LAMBDA differ :
        IF differ = {} THEN 0 ELSE valueCmp(s[Min(differ)], t[Min(differ)]))

overwrite(def, rows, w) ==
    LET pk(row) == cells(def, row, def.Indexes[1])
        others  == {r \in rows : pk(r) # pk(w.row)}
    IN  IF w.op = "delete" THEN others ELSE others \cup {w.row}

\* The rows that the transaction sees.
rowsOf(q) == FoldLeft(LAMBDA rows, w : overwrite(q.tdef, rows, w), {}, q.base \o q.pending)

inRange(def, row, key) ==
    key.cols = <<>> \/ cmp2bool(tupleOrder(cells(def, row, key.cols), key.vals), key.cmp)

\* The first index that starts with the columns of the conditions.
indexOf(q) ==
    LET fits(i) == /\ IsPrefix(q.key1.cols, q.tdef.Indexes[i])
                   /\ IsPrefix(q.key2.cols, q.tdef.Indexes[i])
    IN  Min({i \in DOMAIN q.tdef.Indexes : fits(i)})

\* The rows in range, in the order of the scan.
ordered(q, rows) ==
    LET cols    == q.tdef.Indexes[indexOf(q)]
        desc    == q.key1.cmp \in {"LE", "LT"}
        found   == {r \in rows : inRange(q.tdef, r, q.key1) /\ inRange(q.tdef, r, q.key2)}
        o(r, s) == tupleOrder(cells(q.tdef, r, cols), cells(q.tdef, s, cols))
    IN  SetToSortSeq(found, LAMBDA r, s : IF desc THEN o(r, s) > 0 ELSE o(r, s) < 0)

\* LIMIT offset, count: the rows from offset + 1 to count.  (Skipped rows use up
\* the count, and a count that is not above the offset limits nothing.)
offsetOf(q) == IF Len(q.limit) = 2 THEN q.limit[1] ELSE 0
limited(q)  == q.limit # <<>> /\ (Last(q.limit) = 0 \/ Last(q.limit) > offsetOf(q))

upTo(s, n) == SubSeq(s, 1, IF n < Len(s) THEN n ELSE Len(s))

\* What the select prints, and whether it then fails: it stops at the limit, or
\* at a row on which the filter or the output fails.
meaning(q, rows) ==
    LET before(s, i) == IF i = 0 THEN s ELSE upTo(s, i - 1)
        cut(taken)   == IF limited(q) THEN upTo(taken, Last(q.limit)) ELSE taken
        full(within) == limited(q) /\ Len(within) = Last(q.limit)
        shown(rs)    == [i \in 1 .. Len(rs) - offsetOf(q) |-> q.shown[rs[i + offsetOf(q)]]]
    IN  IF q.invalid THEN [out |-> <<>>, fails |-> TRUE]
        ELSE Then(ordered(q, rows), LAMBDA found :
             Then(SelectInSeq(found, LAMBDA r : r \in q.bad), LAMBDA bad :
             Then(cut(SelectSeq(before(found, bad), LAMBDA r : r \in q.keep)), LAMBDA within :
             Then(shown(within), LAMBDA out :
             Then(SelectInSeq(out, LAMBDA o : o = <<>>), LAMBDA hidden :
                [out   |-> before(out, hidden),
                 fails |-> hidden # 0 \/ (bad # 0 /\ ~full(within))])))))

-----------------------------------------------------------------------------
(* The grammar of expressions, on words.                                   *)

RECURSIVE words(_)

\* The words of a text: names and numbers as long as they go.
words(text) ==
    LET s == skipSpaces(text)
        n == IF isSym(s[1]) THEN symLen(s)
             ELSE IF Len(s) > 1 /\ s[1] \in {"!", "<", ">"} /\ s[2] = "=" THEN 2 ELSE 1
    IN  IF s = <<>> THEN <<>> ELSE <<SubSeq(s, 1, n)>> \o words(SubSeq(s, n + 1, Len(s)))

logicWords == {"and", "or", "not"}

\* From the weakest to the strongest binding; the third and the last one are unary.
precedence == <<
    {<<<<"or">>, "OR">>}, {<<<<"and">>, "AND">>}, {<<<<"not">>, "NOT">>},
    {<<<<"=">>, "EQ">>, <<<<"!", "=">>, "NE">>, <<<<">", "=">>, "GE">>, <<<<"<", "=">>, "LE">>,
     <<<<">">>, "GT">>, <<<<"<">>, "LT">>},
    {<<<<"+">>, "ADD">>, <<<<"-">>, "SUB">>},
    {<<<<"*">>, "MUL">>, <<<<"/">>, "DIV">>, <<<<"%">>, "MOD">>}, {<<<<"-">>, "NEG">>} >>

RECURSIVE trees(_, _), lists(_)

atoms(ws) ==
    LET w     == ws[1]
        name  == isSymStart(w[1]) /\ ~(Len(w) = 1 /\ w[1] \in keywordSet \cup logicWords)
        number == \A i \in DOMAIN w : isNumber(w[i])
        digits == [i \in DOMAIN w |-> SelectInSeq(Numbers, LAMBDA d : d = w[i]) - 1]
        value == FoldLeft(LAMBDA v, d : 10 * v + d, 0, digits)
        inner == SubSeq(ws, 2, Len(ws) - 1)
    IN  CASE Len(ws) = 1 -> (IF name THEN {Sym(bytes(w))} ELSE {})
                            \cup (IF number /\ value <= MaxInt64 THEN {Lit(IntVal(value))} ELSE {})
          [] Len(ws) > 1 /\ w = <<"(">> /\ Last(ws) = <<")">> ->
                {IF Len(l) = 1 THEN l[1] ELSE Tup(l) : l \in lists(inner)}
          [] OTHER -> {}

\* All the ways to read ws as an expression of a level of precedence.
trees(ws, level) ==
    LET left(i)  == SubSeq(ws, 1, i - 1)
        right(i) == SubSeq(ws, i + 1, Len(ws))
        unary(i, op)  == IF i > 1 THEN {} ELSE {Unary(op[2], t) : t \in trees(right(i), level + 1)}
        binary(i, op) == {Binary(op[2], l, r) : l \in trees(left(i), level),
                                                r \in trees(right(i), level + 1)}
        ops == {o \in (DOMAIN ws) \X precedence[level] : ws[o[1]] = o[2][1]}
    IN  IF ws = <<>> THEN {}
        ELSE IF level > Len(precedence) THEN atoms(ws)
        ELSE trees(ws, level + 1)
             \cup UNION {IF level \in {3, 7} THEN unary(o[1], o[2]) ELSE binary(o[1], o[2]) : o \in ops}

\* All the ways to read ws as expressions with commas between them.
lists(ws) ==
    LET commas == {i \in DOMAIN ws : ws[i] = <<",">>}
        more(i) == {<<t>> \o l : t \in trees(SubSeq(ws, 1, i - 1), 1),
                                 l \in lists(SubSeq(ws, i + 1, Len(ws))) \ {<<>>}}
    IN  IF ws = <<>> THEN {<<>>}
        ELSE {<<t>> : t \in trees(ws, 1)} \cup UNION {more(i) : i \in commas}

RECURSIVE namesIn(_)

namesIn(node) ==
    CASE node.Type = "SYM" -> {node.Str}
      [] node.Type = "LIT" -> {}
      [] OTHER -> UNION {namesIn(node.Kids[i]) : i \in DOMAIN node.Kids}

-----------------------------------------------------------------------------
(* Properties.                                                             *)

\* Has the transaction deleted entries of the index that q scans?
deletedBelow(q) ==
    \E k \in DOMAIN tx.pending : tx.pending[k].deleted /\ k[1] = q.tdef.Prefixes[indexOf(q)]

\* The select q has printed what it means.
printedRight(q) ==
    q.told /\ Stopped =>
        Then(meaning(q, rowsOf(q)), LAMBDA m :
             printed = m.out /\ phase = IF m.fails THEN "failed" ELSE "done")

\* A select prints the rows that its transaction sees, its own uncommitted writes
\* included: those in the range of INDEX BY, in the order of the index and the
\* direction of the first comparison, which the filter takes, within the limit;
\* it fails exactly where an expression does, after the rows before that one
\* (transaction.go CombinedIter, table.go Scanner, ql_exec.go qlScanIter).
ReadsOwnWrites == printedRight(Case(query))

\* The same, for a transaction that has not deleted entries of the scanned index,
\* by deleting a row or by changing an indexed column.
ScanCorrect == Then(Case(query), LAMBDA q : q.invalid \/ ~deletedBelow(q) => printedRight(q))

\* LIMIT offset, count prints count rows after the first offset ones that the filter
\* takes, if there are so many (src/README.md, the limit in qlScanIter.Next).
LimitIsSize ==
    Then(Case(query), LAMBDA q :
        q.told /\ ~q.invalid /\ ~deletedBelow(q) /\ phase = "done" /\ q.limit # <<>> =>
            Then(SelectSeq(ordered(q, rowsOf(q)), LAMBDA r : r \in q.keep), LAMBDA taken :
                Len(printed) = Len(upTo(SubSeq(taken, offsetOf(q) + 1, Len(taken)), Last(q.limit)))))

\* Is a name of the text one that begins with and, or or not?
logicName(text) ==
    \E i \in 1 .. Len(text) - 1 : text[i] \in logicWords /\ isSym(text[i + 1])

\* The parser reads a filter as the grammar does, with the precedence and the
\* left-associativity of the operators, and in one way only; it refuses what is no
\* expression.  Two things are left open, as and, or and not are no keywords: names
\* that begin with one of them, and their use as names (ql_parse.go pExprBinOp,
\* pExprUnOp, pExprTuple and pExprAtom).
FilterParsed ==
    /\ phase = "parsed" \/ (phase = "failed" /\ stmt = NoNode)
    /\ ~Case(query).told /\ ~logicName(FilterText(query))
    => LET plain == namesIn(stmt.Filter) \cap {Spelling[w] : w \in logicWords} = {}
       IN  Then(trees(words(FilterText(query)), 1), LAMBDA all :
                IF stmt = NoNode THEN all = {}
                ELSE (all # {} \/ plain) => all = {stmt.Filter})

\* The keys that differ after another transaction has made the write w.
touchedBy(w, tdef) ==
    LET before == tx.snapshot
        differs(k, after) == ~(k \in DOMAIN before /\ k \in DOMAIN after /\ before[k] = after[k])
    IN  Then(Result(write(NewTx(before), tdef, w)), LAMBDA after :
             {k \in DOMAIN before \cup DOMAIN after : differs(k, after)})

reading(k) == \E r \in tx.reads : Compare(r[1], k) <= 0 /\ Compare(k, r[2]) <= 0

\* A concurrent write that would have changed what the select printed, a row that
\* appears in its range included, touches a key range that the select left in the
\* dependencies of its transaction, where the commit looks for conflicts
\* (transaction.go Seek and Get, table.go dbGet).
PhantomsSeen ==
    Then(Case(query), LAMBDA q :
        q.told /\ phase \in {"done", "failed"} =>
            Then(meaning(q, rowsOf(q)), LAMBDA m :
                \A w \in q.others :
                    meaning(q, rowsOf([q EXCEPT !.base = Append(@, w)])) # m
                    => \E k \in touchedBy(w, q.tdef) : reading(k)))
=============================================================================
