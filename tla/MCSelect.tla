------------------------------ MODULE MCSelect ------------------------------
(***************************************************************************)
(* Three families of cases.  Values: rows whose strings need escapes and   *)
(* whose integers have both signs, so that the order of the encoded keys   *)
(* decides, in a table that does not begin with its primary key.  Merges:  *)
(* small rows in every split between snapshot and pending writes, with     *)
(* ranges in both directions, filters, outputs and limits.  Texts: short   *)
(* filters of all kinds, most of which are no expressions.                 *)
(***************************************************************************)
EXTENDS Select

MCSpelling ==
    [c \in {"t", "k", "w", "s", "i", "e", "'", "dq", "and", "or", "not", "nul", "soh", "yuml"}
           \cup Range(Numbers) |->
        CASE c = "t" -> <<116>> [] c = "k" -> <<107>> [] c = "w" -> <<119>> [] c = "s" -> <<115>>
          [] c = "i" -> <<105>> [] c = "e" -> <<101>> [] c = "'" -> <<39>> [] c = "dq" -> <<34>>
          [] c = "nul" -> <<0>> [] c = "soh" -> <<1>> [] c = "yuml" -> <<255>>
          [] c = "and" -> <<97, 110, 100>> [] c = "or" -> <<111, 114>>
          [] c = "not" -> <<110, 111, 116>>
          [] OTHER -> <<47 + SelectInSeq(Numbers, LAMBDA d : d = c)>>]

\* The few keys of these databases fit in one node.
MCBackTo == <<>>

column(c) == Spelling[c]

-----------------------------------------------------------------------------
(* Texts.                                                                  *)

intText(n) == IF n < 0 THEN <<"-", Numbers[1 - n]>> ELSE <<Numbers[n + 1]>>

strText(s) == <<"'">> \o [i \in DOMAIN s |-> IF s[i] = 0 THEN "nul" ELSE IF s[i] = 1 THEN "soh"
                                             ELSE "yuml"] \o <<"'">>

valText(v) == IF v.Type = TYPE_INT64 THEN intText(v.I64) ELSE strText(v.Str)

\* One item, or several in parentheses.
group(items) ==
    LET tail(i) == <<",", "sp">> \o items[i]
    IN  IF Len(items) = 1 THEN items[1]
        ELSE <<"(">> \o items[1] \o FlattenSeq([i \in 1 .. Len(items) - 1 |-> tail(i + 1)]) \o <<")">>

Sign(cmp) == CASE cmp = "EQ" -> <<"=">> [] cmp = "NE" -> <<"!", "=">>
               [] cmp = "GE" -> <<">", "=">> [] cmp = "GT" -> <<">">>
               [] cmp = "LE" -> <<"<", "=">> [] cmp = "LT" -> <<"<">>

\* An end of a range: what it means and its text.
Key(cmp, cols, vals) ==
    [cmp  |-> cmp, cols |-> [i \in DOMAIN cols |-> column(cols[i])], vals |-> vals,
     text |-> group([i \in DOMAIN cols |-> <<cols[i]>>]) \o Sign(cmp)
              \o group([i \in DOMAIN vals |-> valText(vals[i])])]

NoEnd == [cmp |-> "NONE", cols |-> <<>>, vals |-> <<>>, text |-> <<>>]

rangeText(key1, key2) ==
    IF key1 = NoEnd THEN <<>>
    ELSE <<"sp", "index", "sp", "by", "sp">> \o key1.text
         \o IF key2 = NoEnd THEN <<>> ELSE <<"sp", "and", "sp">> \o key2.text

filterText(filter) == IF filter = <<>> THEN <<>> ELSE <<"sp", "filter", "sp">> \o filter

limitText(limit) ==
    IF limit = <<>> THEN <<>>
    ELSE <<"sp", "limit", "sp">> \o intText(limit[1])
         \o IF Len(limit) = 1 THEN <<>> ELSE <<",">> \o intText(limit[2])

-----------------------------------------------------------------------------
Upsert(row) == [op |-> "upsert", row |-> row]
Erase(row) == [op |-> "delete", row |-> row]

created(def) == Result(TableNew(NewTx(<<>>), def).tx)

\* The text of a select from table t, and what does not depend on rows.
textOf(output, key1, key2, filter, limit) ==
    <<"select", "sp">> \o output \o <<"sp", "from", "sp", "t">> \o rangeText(key1, key2)
    \o filterText(filter) \o limitText(limit) \o <<";">>

Query(empty, base, pending, others, key1, key2, limit) ==
    [empty |-> empty, tdef |-> empty[tableKey(column("t"))], base |-> base, pending |-> pending,
     others |-> others, key1 |-> key1, key2 |-> key2, limit |-> limit, invalid |-> FALSE,
     told |-> TRUE]

-----------------------------------------------------------------------------
(* Values.                                                                 *)

Strings  == {<<>>, <<0>>, <<1>>, <<0, 1>>, <<255>>}
Ints     == {-1, 1}

DefValues == [Name |-> column("t"), Cols |-> <<column("w"), column("s"), column("i")>>,
              Types |-> <<TYPE_INT64, TYPE_BYTES, TYPE_INT64>>,
              Indexes |-> <<<<column("s"), column("i")>>, <<column("i")>>>>, Prefixes |-> <<>>]

EmptyValues == created(DefValues)

RowsValues == {<<IntVal(7), StrVal(s), IntVal(i)>> : s \in Strings, i \in Ints}

KeysValues ==
    {Key(type, <<"s">>, <<StrVal(s)>>) : type \in {"EQ", "GE", "GT", "LE", "LT"}, s \in Strings}
    \cup {Key(type, <<"i">>, <<IntVal(i)>>) : type \in {"EQ", "GE", "GT", "LE", "LT"}, i \in Ints}
    \cup {Key(type, <<"s", "i">>, <<StrVal(s), IntVal(i)>>) :
            type \in {"GT", "LE"}, s \in Strings, i \in Ints}

ValuesCase(rows, key) ==
    Query(EmptyValues, SetToSeq({Upsert(row) : row \in rows}), <<>>, {}, key, NoEnd, <<>>)
      @@ [keep |-> RowsValues, bad |-> {}, shown |-> [r \in RowsValues |-> r]]

Values == {<<"values", rows, key>> : rows \in kSubset(2, RowsValues), key \in KeysValues}

-----------------------------------------------------------------------------
(* Merges.                                                                 *)

DefMerges == [Name |-> column("t"), Cols |-> <<column("k"), column("w")>>,
              Types |-> <<TYPE_INT64, TYPE_INT64>>,
              Indexes |-> <<<<column("k")>>, <<column("w")>>>>, Prefixes |-> <<>>]

EmptyMerges == created(DefMerges)

Row(k, w)  == <<IntVal(k), IntVal(w)>>
RowsMerges == {Row(k, w) : k \in 1 .. 3, w \in 0 .. 1}

Base(ks) == SetToSeq({Upsert(Row(k, k % 2)) : k \in ks})

Pendings ==
    {<<>>} \cup {<<Upsert(r)>> : r \in RowsMerges}
    \cup {<<Upsert(Row(1, 0)), Upsert(Row(3, 0))>>, <<Upsert(Row(2, 1)), Upsert(Row(2, 0))>>}

Deletes == {<<Erase(r)>> : r \in RowsMerges}

K(type, n) == Key(type, <<"k">>, <<IntVal(n)>>)
W(type, n) == Key(type, <<"w">>, <<IntVal(n)>>)

Ranges == <<
    <<NoEnd, NoEnd>>, <<K("GE", 2), NoEnd>>, <<K("LT", 3), NoEnd>>,
    <<K("GT", 1), K("LE", 3)>>, <<K("LE", 3), K("GT", 1)>>, <<K("GE", 3), K("LT", 2)>>,
    <<W("EQ", 1), NoEnd>>, <<W("LE", 1), W("GE", 0)>>,
    \* refused: one direction, = with another end, no common index, another type, !=,
    \* a value on the left, a name against a tuple, three ends
    <<K("GE", 1), K("GT", 1)>>, <<K("GE", 1), K("EQ", 1)>>, <<K("EQ", 1), K("GE", 1)>>,
    <<K("GE", 1), W("LE", 1)>>, <<Key("EQ", <<"k">>, <<StrVal(<<1>>)>>), NoEnd>>,
    <<K("NE", 1), NoEnd>>, <<[K("EQ", 1) EXCEPT !.text = <<"1", "=", "k">>], NoEnd>>,
    <<[K("EQ", 1) EXCEPT !.text = <<"k", "=", "(", "1", ",", "1", ")">>], NoEnd>>,
    <<[K("GE", 1) EXCEPT !.text = @ \o <<"sp", "and", "sp">> \o @], K("LE", 1)>> >>

Good    == 1 .. 8   \* the ranges that are not refused
Refused == DOMAIN Ranges \ Good

Limits == {<<>>, <<0>>, <<1>>, <<1, 2>>, <<2, 1>>}

\* A filter, the rows that it takes and those that it fails on.
Filter(text, keep, bad) == [text |-> text, keep |-> keep, bad |-> bad]

Filters == <<
    Filter(<<>>, RowsMerges, {}),
    Filter(<<"w", "=", "1">>, {r \in RowsMerges : r[2].I64 = 1}, {}),
    \* 1 / (k - 2)
    Filter(<<"1", "/", "(", "k", "-", "2", ")">>,
           {r \in RowsMerges : r[1].I64 # 2}, {r \in RowsMerges : r[1].I64 = 2}),
    \* k = 2 or 1 % (k - 2) = 0
    Filter(<<"k", "=", "2", "sp", "or", "sp", "1", "%", "(", "k", "-", "2", ")", "=", "0">>,
           RowsMerges, {}),
    \* k * 100 < 0
    Filter(<<"k", "*", "1", "0", "0", "<", "0">>, {r \in RowsMerges : r[1].I64 = 2}, {}),
    \* (k, w) <= (2, 0) and not -k % 2
    Filter(<<"(", "k", ",", "sp", "w", ")", "sp", "<", "=", "(", "2", ",", "0", ")", "sp", "and",
             "sp", "not", "-", "k", "sp", "%", "2">>, {Row(2, 0)}, {}),
    \* k + "\""
    Filter(<<"k", "+", "dq", "bs", "dq", "dq">>, {}, RowsMerges)>>

\* The outputs * and 6 / w as e, *, and what they show of a row.
Outputs == <<<<"*">>, <<"6", "/", "w", "sp", "as", "sp", "e", ",", "sp", "*">>>>
Shown == <<[r \in RowsMerges |-> r],
           [r \in RowsMerges |-> IF r[2].I64 = 0 THEN <<>> ELSE <<IntVal(6)>> \o r]>>

MergesCase(ks, pending, range, filter, limit, out) ==
    [Query(EmptyMerges, Base(ks), pending, {Upsert(r) : r \in RowsMerges},
           Ranges[range][1], Ranges[range][2], limit) EXCEPT !.invalid = range \in Refused]
      @@ [keep |-> Filters[filter].keep, bad |-> Filters[filter].bad, shown |-> Shown[out]]

Merge(pendings, ranges, filters, limits, outs) ==
    {<<"merges", ks, p, range, filter, limit, out>> :
        ks \in {{}, {2}, {1, 3}, 1 .. 3}, p \in pendings, range \in ranges, filter \in filters,
        limit \in limits, out \in outs}

Merges ==
    Merge(Pendings, Good, {1}, Limits, {1})
    \cup Merge(Deletes, Good, {1}, {<<>>}, {1})
    \cup Merge(Pendings, Good, {2, 3}, {<<1, 2>>}, {1})
    \cup Merge({<<>>}, Good, 2 .. 7, {<<>>}, {1})
    \cup Merge({<<>>}, Good, {1}, {<<>>}, {2})
    \cup Merge({<<>>}, Refused, {1}, {<<>>}, {1})

-----------------------------------------------------------------------------
(* Texts.                                                                  *)

textsOf(pcs, n) == UNION {[1 .. m -> pcs] : m \in 1 .. n}

TextsCase == [Query(EmptyMerges, <<>>, <<>>, {}, NoEnd, NoEnd, <<>>) EXCEPT !.told = FALSE]

Texts ==
    {<<"texts", t>> : t \in textsOf({"k", "1", "-", "*", "=", "(", ")", "not"}, 4)
                            \cup textsOf({"k", "-", "<", "+"}, 5)
                            \cup textsOf({"k", "(", ",", ")"}, 5)
                            \cup textsOf({"k", "sp", "and", "or", "not"}, 5)}

-----------------------------------------------------------------------------
MCQueries == Values \cup Merges \cup Texts

MCDeletes == Merge(Deletes, Good, {1}, {<<>>}, {1})

MCLimits == Merge({<<>>}, Good, {1}, Limits, {1})

MCFilterText(q) ==
    CASE q[1] = "values" -> <<>>
      [] q[1] = "merges" -> Filters[q[5]].text
      [] q[1] = "texts"  -> q[2]

MCText(q) ==
    CASE q[1] = "values" -> textOf(<<"*">>, q[3], NoEnd, <<>>, <<>>)
      [] q[1] = "merges" ->
            textOf(Outputs[q[7]], Ranges[q[4]][1], Ranges[q[4]][2], MCFilterText(q), q[6])
      [] q[1] = "texts"  -> textOf(<<"*">>, NoEnd, NoEnd, q[2], <<>>)

MCCase(q) ==
    CASE q[1] = "values" -> ValuesCase(q[2], q[3])
      [] q[1] = "merges" -> MergesCase(q[2], q[3], q[4], q[5], q[6], q[7])
      [] q[1] = "texts"  -> TextsCase
=============================================================================
