------------------------------- MODULE QLParse -------------------------------
(***************************************************************************)
(* The parser of statements (db/ql_parse.go): recursive descent, from text *)
(* to the records that the executor takes.                                 *)
(*                                                                         *)
(* Text is a sequence of pieces, each a word, a part of a word, a digit, a *)
(* mark or white space ("sp"); a name is a run of pieces that are letters  *)
(* or digits.  Case does not matter, so all text is lower case.  Spelling  *)
(* gives the bytes of a piece, for names and string literals.              *)
(*                                                                         *)
(* A parser p is what is left of the text and whether there was an error.  *)
(* It goes on after an error, and the statement is dropped at the end.     *)
(* Parsing functions return the parser and the node they have read.        *)
(***************************************************************************)
EXTENDS QLEval

CONSTANT Spelling

keywordSet == {"create", "table", "primary", "key", "insert", "replace", "upsert", "into",
               "values", "update", "set", "delete", "select", "as", "from", "index", "by",
               "filter", "limit", "begin", "commit", "rollback"}

\* Pieces that are not part of a name; dq and bs are the double quote and the
\* backslash, nul and soh the bytes 0 and 1.
Marks == {"sp", "(", ")", ",", ";", "*", "/", "%", "+", "-", "=", "!", "<", ">", "'", "dq",
          "bs", "nul", "soh"}

Numbers == <<"0", "1", "2", "3", "4", "5", "6", "7", "8", "9">>

NoNode   == [Type |-> "NONE"]
NoKey    == NoNode
NoFilter == NoNode
Star     == [Type |-> "STAR"]
MaxInt64 == intRange \div 2 - 1

isNumber(c)   == Contains(Numbers, c)
isSym(c)      == c \notin Marks
isSymStart(c) == isSym(c) /\ ~isNumber(c)

-----------------------------------------------------------------------------
(* Tokens.                                                                 *)

skipSpaces(s) == LET others == {i \in DOMAIN s : s[i] # "sp"}
                 IN  IF others = {} THEN <<>> ELSE SubSeq(s, Min(others), Len(s))

pieces(tok) == CASE tok = ">=" -> <<">", "=">>
                 [] tok = "<=" -> <<"<", "=">>
                 [] tok = "!=" -> <<"!", "=">>
                 [] OTHER      -> <<tok>>

RECURSIVE matchFrom(_, _)

\* Do the tokens follow one another in the text, and what comes after them?  A
\* keyword is not matched by a longer name.
matchFrom(text, tokens) ==
    LET s    == skipSpaces(text)
        tok  == pieces(tokens[1])
        n    == Len(tok)
        name == tokens[1] \in keywordSet /\ Len(s) > n /\ isSym(s[n + 1])
    IN  IF tokens = <<>> THEN [ok |-> TRUE, rest |-> text]
        ELSE IF Len(s) < n \/ SubSeq(s, 1, n) # tok \/ name THEN [ok |-> FALSE, rest |-> text]
        ELSE matchFrom(SubSeq(s, n + 1, Len(s)), Tail(tokens))

match(p, tokens) == matchFrom(p.rest, tokens).ok
matched(p, tokens) == [p EXCEPT !.rest = matchFrom(@, tokens).rest]

pErr(p) == [p EXCEPT !.err = TRUE]

consume(p, tok) == IF match(p, <<tok>>) THEN matched(p, <<tok>>) ELSE pErr(p)

Parsed(p, node) == [p |-> p, node |-> node]
Nothing(p)      == Parsed(pErr(p), NoNode)

\* The length of the run at the front of s that ends at one of the positions ends.
runLen(s, ends) == IF ends = {} THEN Len(s) ELSE Min(ends) - 1

symLen(s) == runLen(s, {i \in DOMAIN s : ~isSym(s[i])})
numLen(s) == runLen(s, {i \in DOMAIN s : ~isNumber(s[i])})

bytes(s) == FlattenSeq([i \in DOMAIN s |-> Spelling[s[i]]])

\* A name, a number or a string at the front of s: its length (0 if there is none)
\* and the node.
trySym(s) ==
    Then(symLen(s), LAMBDA n :
        IF s = <<>> \/ ~isSymStart(s[1]) \/ (n = 1 /\ s[1] \in keywordSet) THEN [len |-> 0]
        ELSE [len |-> n, node |-> Sym(bytes(SubSeq(s, 1, n)))])

tryNum(s) ==
    LET digit(v, c) == 10 * v + SelectInSeq(Numbers, LAMBDA d : d = c) - 1
    IN  Then(numLen(s), LAMBDA n : Then(FoldLeft(digit, 0, SubSeq(s, 1, n)), LAMBDA val :
            IF n = 0 \/ (n < Len(s) /\ isSym(s[n + 1])) \/ val > MaxInt64 THEN [len |-> 0]
            ELSE [len |-> n, node |-> Lit(IntVal(val))]))

tryStr(s) ==
    LET quote == s[1]
        escaped(i) == i < Len(s) /\ s[i + 1] \in {"'", "dq", "bs"}
        \* from[i]: the literal from position i on, and its end, 0 without one
        from[i \in 2 .. Len(s) + 2] ==
            LET skip == IF s[i] = "bs" THEN 2 ELSE 1
                next == from[i + skip]
                this == IF s[i] = "bs" THEN s[i + 1] ELSE s[i]
            IN  CASE i > Len(s) -> [end |-> 0, str |-> <<>>]
                  [] i <= Len(s) /\ s[i] = quote -> [end |-> i, str |-> <<>>]
                  [] i <= Len(s) /\ s[i] = "bs" /\ ~escaped(i) -> [end |-> 0, str |-> <<>>]
                  [] OTHER -> [next EXCEPT !.str = <<this>> \o @]
    IN  IF s = <<>> \/ s[1] \notin {"'", "dq"} THEN [len |-> 0]
        ELSE Then(from[2], LAMBDA l : [len |-> l.end, node |-> Lit(StrVal(bytes(l.str)))])

\* The parser after a token found by one of these, and its node.
took(p, try) ==
    LET after(s) == SubSeq(s, try.len + 1, Len(s))
    IN  Parsed([p EXCEPT !.rest = after(skipSpaces(@))], try.node)

pSym(p) ==
    Then(trySym(skipSpaces(p.rest)), LAMBDA sym :
        IF sym.len = 0 THEN Parsed(pErr(p), <<>>) ELSE Parsed(took(p, sym).p, sym.node.Str))

-----------------------------------------------------------------------------
(* Expressions, by levels of precedence, the lowest first.                 *)

Op(tok, type) == [tok |-> tok, type |-> type]

Levels == <<
    <<Op("or", "OR")>>, <<Op("and", "AND")>>, <<Op("not", "NOT")>>,
    <<Op("=", "EQ"), Op("!=", "NE"), Op(">=", "GE"), Op("<=", "LE"), Op(">", "GT"), Op("<", "LT")>>,
    <<Op("+", "ADD"), Op("-", "SUB")>>,
    <<Op("*", "MUL"), Op("/", "DIV"), Op("%", "MOD")>>, <<Op("-", "NEG")>> >>

OrLevel    == 1
AndLevel   == 2
UnaryLevel == {3, 7}
AtomLevel  == 8

RECURSIVE pExpr(_, _)
RECURSIVE pGroupedCommaList(_, _, _)
RECURSIVE binOps(_, _)

\* The operators of the level that the text begins with.
opsAt(p, level) == {i \in DOMAIN Levels[level] : match(p, <<Levels[level][i].tok>>)}

\* Mutant: binary operators associate to the right.
binOpsRight(left, level) ==
    LET ops   == opsAt(left.p, level)
        op    == Levels[level][Min(ops)]
        right == pExpr(matched(left.p, <<op.tok>>), level)
    IN  IF ops = {} THEN left ELSE Parsed(right.p, Binary(op.type, left.node, right.node))

\* The loop of pExprBinOp: left-associative.
binOps(left, level) ==
    LET ops   == opsAt(left.p, level)
        op    == Levels[level][Min(ops)]
        right == pExpr(matched(left.p, <<op.tok>>), level + 1)
    IN  IF ops = {} THEN left
        ELSE binOps(Parsed(right.p, Binary(op.type, left.node, right.node)), level)

pExprUnOp(p, level) ==
    LET op == Levels[level][1]
        kid == pExpr(matched(p, <<op.tok>>), level + 1)
    IN  IF match(p, <<op.tok>>) THEN Parsed(kid.p, Unary(op.type, kid.node))
        ELSE pExpr(p, level + 1)

\* One expression in parentheses is that expression.
pExprTuple(p) ==
    LET kids == pGroupedCommaList(p, "expr", <<>>)
    IN  Parsed(kids.p, IF Len(kids.node) = 1 THEN kids.node[1] ELSE Tup(kids.node))

pExprAtom(p) ==
    LET s    == skipSpaces(p.rest)
        hits == {t \in {trySym(s), tryNum(s), tryStr(s)} : t.len > 0}
    IN  IF match(p, <<"(">>) THEN pExprTuple(matched(p, <<"(">>))
        ELSE IF hits = {} THEN Nothing(p) ELSE took(p, CHOOSE t \in hits : TRUE)

pExpr(p, level) ==
    CASE level = AtomLevel -> pExprAtom(p)
      [] level \in UnaryLevel -> pExprUnOp(p, level)
      [] OTHER -> binOps(pExpr(p, level + 1), level)

pExprOr(p) == pExpr(p, OrLevel)

-----------------------------------------------------------------------------
(* Lists.                                                                  *)

pColType(p) ==
    Then(pSym(p), LAMBDA sym :
        CASE sym.node \in {Spelling["string"], Spelling["bytes"]} -> Parsed(sym.p, TYPE_BYTES)
          [] sym.node \in {Spelling["int"], Spelling["int64"]} -> Parsed(sym.p, TYPE_INT64)
          [] OTHER -> Parsed(pErr(sym.p), 0))

\* The names or the values up to the closing parenthesis, with commas between them.
pGroupedCommaList(p, kind, items) ==
    LET q    == IF items = <<>> THEN p ELSE consume(p, ",")
        item == IF kind = "name" THEN pSym(q) ELSE pExprOr(q)
    IN  IF p.err THEN Parsed(p, items)
        ELSE IF match(p, <<")">>) THEN Parsed(matched(p, <<")">>), items)
        ELSE pGroupedCommaList(item.p, kind, Append(items, item.node))

pList(p, kind) == pGroupedCommaList(consume(p, "("), kind, <<>>)

\* An index, the primary key or a column of CREATE TABLE.
pTableItem(p) ==
    LET item(kind, r) == Parsed(r.p, [kind |-> kind, val |-> r.node])
    IN  IF match(p, <<"index">>) THEN item("index", pList(matched(p, <<"index">>), "name"))
        ELSE IF match(p, <<"primary", "key">>)
        THEN item("primary", pList(matched(p, <<"primary", "key">>), "name"))
        ELSE Then(pSym(p), LAMBDA name : Then(pColType(name.p), LAMBDA type :
             item("col", Parsed(type.p, <<name.node, type.node>>))))

RECURSIVE pTableItems(_, _)

\* pGroupedCommaList of such items.
pTableItems(p, items) ==
    IF p.err THEN Parsed(p, items)
    ELSE IF match(p, <<")">>) THEN Parsed(matched(p, <<")">>), items)
    ELSE Then(pTableItem(IF items = <<>> THEN p ELSE consume(p, ",")), LAMBDA item :
         pTableItems(item.p, Append(items, item.node)))

\* The output of a select; the names given with AS are not kept.
pSelectExpr(p) ==
    IF match(p, <<"*">>) THEN Parsed(matched(p, <<"*">>), Star)
    ELSE Then(pExprOr(p), LAMBDA expr :
         IF match(expr.p, <<"as">>) THEN Parsed(pSym(matched(expr.p, <<"as">>)).p, expr.node)
         ELSE expr)

pAssign(p) ==
    Then(pSym(p), LAMBDA name : Then(pExprOr(consume(name.p, "=")), LAMBDA expr :
        Parsed(expr.p, <<name.node, expr.node>>)))

RECURSIVE pCommaList(_, _, _)

\* The items as long as a comma follows.
pCommaList(p, kind, items) ==
    Then(CASE kind = "output" -> pSelectExpr(p)
           [] kind = "values" -> pList(p, "expr")
           [] kind = "assign" -> pAssign(p), LAMBDA item :
    Then(Append(items, item.node), LAMBDA all :
        IF match(item.p, <<",">>) THEN pCommaList(matched(item.p, <<",">>), kind, all)
        ELSE Parsed(item.p, all)))

-----------------------------------------------------------------------------
(* Conditions.                                                             *)

badScanKey(node) ==
    \/ node.Type \notin {"EQ", "GE", "GT", "LT", "LE"}
    \/ LET left  == node.Kids[1]
           right == node.Kids[2]
           tuple == left.Type = "TUP"
           Names(n) == \A i \in DOMAIN n.Kids : n.Kids[i].Type = "SYM"
       IN  \/ tuple # (right.Type = "TUP")
           \/ tuple /\ Len(left.Kids) # Len(right.Kids)
           \/ IF tuple THEN ~Names(left) ELSE left.Type # "SYM"

\* Both sides become tuples.
scanKey(node) ==
    IF node.Kids[1].Type = "TUP" THEN node
    ELSE Binary(node.Type, Tup(<<node.Kids[1]>>), Tup(<<node.Kids[2]>>))

\* One or two comparisons; = only alone.
pIndexBy(p) ==
    LET ends(node) == IF node.Type = "AND" THEN node.Kids ELSE <<node>>
        bad(keys) == \/ Len(keys) = 2 /\ keys[1].Type = "EQ"
                     \/ \E i \in DOMAIN keys : badScanKey(keys[i])
    IN  Then(pExpr(p, AndLevel), LAMBDA index : Then(ends(index.node), LAMBDA keys :
            IF bad(keys) THEN Parsed(pErr(index.p), <<NoKey, NoKey>>)
            ELSE Parsed(index.p, <<scanKey(keys[1]),
                                   IF Len(keys) = 2 THEN scanKey(keys[2]) ELSE NoKey>>)))

\* LIMIT count or LIMIT offset, count: the node is <<offset, count>>.
pLimit(p) ==
    LET number(q) == tryNum(skipSpaces(q.rest))
        none(q) == Parsed(pErr(q), <<0, MaxInt64>>)
    IN  Then(number(p), LAMBDA fst :
            IF fst.len = 0 THEN none(p)
            ELSE Then(took(p, fst).p, LAMBDA q :
                 IF ~match(q, <<",">>) THEN Parsed(q, <<0, fst.node.Val.I64>>)
                 ELSE Then(matched(q, <<",">>), LAMBDA r : Then(number(r), LAMBDA snd :
                      IF snd.len = 0 THEN none(r)
                      ELSE Parsed(took(r, snd).p, <<fst.node.Val.I64, snd.node.Val.I64>>)))))

pScan(p) ==
    LET index(q)  == IF match(q, <<"index", "by">>) THEN pIndexBy(matched(q, <<"index", "by">>))
                     ELSE Parsed(q, <<NoKey, NoKey>>)
        filter(q) == IF match(q, <<"filter">>) THEN pExprOr(matched(q, <<"filter">>))
                     ELSE Parsed(q, NoFilter)
        limit(q)  == IF match(q, <<"limit">>) THEN pLimit(matched(q, <<"limit">>))
                     ELSE Parsed(q, <<0, MaxInt64>>)
    IN  Then(index(p), LAMBDA k : Then(filter(k.p), LAMBDA f : Then(limit(f.p), LAMBDA l :
            Parsed(l.p, [Key1 |-> k.node[1], Key2 |-> k.node[2], Filter |-> f.node,
                         Offset |-> l.node[1], Limit |-> l.node[2]]))))

-----------------------------------------------------------------------------
(* Statements.                                                             *)

\* The same field of all items.
field(items, f) == [i \in DOMAIN items |-> items[i][f]]

pCreateTable(p) ==
    LET of(items, kind) == field(SelectSeq(items, LAMBDA i : i.kind = kind), "val")
        twice(keys) == \E i, j \in DOMAIN keys : i < j /\ keys[i] # <<>>
        def(name, cols, keys, indexes) ==
            [Name |-> name, Cols |-> field(cols, 1), Types |-> field(cols, 2), Prefixes |-> <<>>,
             Indexes |-> <<IF keys = <<>> THEN <<>> ELSE Last(keys)>> \o indexes]
    IN  Then(pSym(p), LAMBDA name : Then(pTableItems(consume(name.p, "("), <<>>), LAMBDA items :
            Parsed(IF twice(of(items.node, "primary")) THEN pErr(items.p) ELSE items.p,
                   [Kind |-> "create", Table |-> name.node,
                    Def  |-> def(name.node, of(items.node, "col"), of(items.node, "primary"),
                                 of(items.node, "index"))])))

\* The conditions end the statement.
withScan(node, scan) == Parsed(scan.p, node @@ scan.node)

pSelect(p) ==
    Then(pCommaList(p, "output", <<>>), LAMBDA output :
    Then(pSym(consume(output.p, "from")), LAMBDA table :
        withScan([Kind |-> "select", Table |-> table.node, Output |-> output.node],
                 pScan(table.p))))

pInsert(p, mode) ==
    LET uneven(names, rows) == \E i \in DOMAIN rows : Len(rows[i]) # Len(names)
    IN  Then(pSym(p), LAMBDA table : Then(pList(table.p, "name"), LAMBDA names :
        Then(pCommaList(consume(names.p, "values"), "values", <<>>), LAMBDA rows :
            Parsed(IF uneven(names.node, rows.node) THEN pErr(rows.p) ELSE rows.p,
                   [Kind |-> "insert", Table |-> table.node, Mode |-> mode, Names |-> names.node,
                    Values |-> rows.node]))))

pUpdate(p) ==
    Then(pSym(p), LAMBDA table :
    Then(pCommaList(consume(table.p, "set"), "assign", <<>>), LAMBDA set :
        withScan([Kind |-> "update", Table |-> table.node, Names |-> field(set.node, 1),
                  Values |-> field(set.node, 2)], pScan(set.p))))

pDelete(p) ==
    Then(pSym(p), LAMBDA table :
        withScan([Kind |-> "delete", Table |-> table.node], pScan(table.p)))

InsertModes == [insert |-> "INSERT_ONLY", replace |-> "UPDATE_ONLY", upsert |-> "UPSERT"]

\* A statement ends with a semicolon; what follows it is not looked at.
Parse(text) ==
    LET p == [rest |-> text, err |-> FALSE]
        control(word) == Parsed(matched(p, <<word>>), [Kind |-> word])
        is(words)   == match(p, words)
        from(words) == matched(p, words)
        modes == {m \in DOMAIN InsertModes : is(<<m, "into">>)}
        insert(word) == pInsert(from(<<word, "into">>), InsertModes[word])
    IN  Then(CASE is(<<"begin">>)           -> control("begin")
               [] is(<<"commit">>)          -> control("commit")
               [] is(<<"rollback">>)        -> control("rollback")
               [] is(<<"create", "table">>) -> pCreateTable(from(<<"create", "table">>))
               [] is(<<"select">>)          -> pSelect(from(<<"select">>))
               [] modes # {}                -> insert(CHOOSE m \in modes : TRUE)
               [] is(<<"delete", "from">>)  -> pDelete(from(<<"delete", "from">>))
               [] is(<<"update">>)          -> pUpdate(from(<<"update">>))
               [] OTHER                     -> Nothing(p), LAMBDA st :
            [err |-> consume(st.p, ";").err, stmt |-> st.node])
=============================================================================
