------------------------------- MODULE QLEval -------------------------------
(***************************************************************************)
(* Evaluation of expressions (db/ql_exec.go).  A node is a record with a   *)
(* Type and, by type, the name of a column, a literal or Kids.  An error   *)
(* stops the evaluation at once: its outcome is Failed.  Integers wrap     *)
(* around at IntBytes bytes.                                               *)
(***************************************************************************)
EXTENDS KeyEncoding

Failed == [Type |-> 0, I64 |-> 0, Str |-> <<>>]

\* Nodes.
Sym(col)       == [Type |-> "SYM", Str |-> col]
Lit(val)       == [Type |-> "LIT", Val |-> val]
Tup(kids)      == [Type |-> "TUP", Kids |-> kids]
Unary(op, a)   == [Type |-> op, Kids |-> <<a>>]
Binary(op, a, b) == [Type |-> op, Kids |-> <<a, b>>]

Comparisons == {"EQ", "NE", "GE", "GT", "LE", "LT"}

b2i(b) == IntVal(IF b THEN 1 ELSE 0)

\* An integer of IntBytes bytes, after overflow.
Wrap(n) == ((n + intRange \div 2) % intRange) - intRange \div 2

cmp2bool(result, cmp) ==
    CASE cmp = "EQ" -> result = 0
      [] cmp = "NE" -> result # 0
      [] cmp = "GE" -> result >= 0
      [] cmp = "GT" -> result > 0
      [] cmp = "LE" -> result <= 0
      [] cmp = "LT" -> result < 0

\* Two values of one type.
valueCmp(v1, v2) ==
    IF v1.Type = TYPE_BYTES THEN Compare(v1.Str, v2.Str)
    ELSE IF v1.I64 < v2.I64 THEN -1 ELSE IF v1.I64 = v2.I64 THEN 0 ELSE 1

\* Division truncates towards zero, and the remainder has the sign of i1.
Quotient(i1, i2) ==
    LET abs(n) == IF n < 0 THEN -n ELSE n
    IN  (IF (i1 < 0) = (i2 < 0) THEN 1 ELSE -1) * (abs(i1) \div abs(i2))

binOpI64(op, i1, i2) ==
    CASE op = "ADD" -> IntVal(Wrap(i1 + i2))
      [] op = "SUB" -> IntVal(Wrap(i1 - i2))
      [] op = "MUL" -> IntVal(Wrap(i1 * i2))
      [] op \in {"DIV", "MOD"} /\ i2 = 0 -> Failed
      [] op = "DIV" /\ i2 # 0 -> IntVal(Wrap(Quotient(i1, i2)))
      [] op = "MOD" /\ i2 # 0 -> IntVal(i1 - i2 * Quotient(i1, i2))

\* Strings are concatenated; they have no other operation.
binOpStr(op, s1, s2) == IF op = "ADD" THEN StrVal(s1 \o s2) ELSE Failed

binOp(op, v1, v2) ==
    CASE v1 = Failed \/ v2 = Failed \/ v1.Type # v2.Type -> Failed
      [] op \in Comparisons /\ v1.Type = v2.Type /\ v1 # Failed ->
            b2i(cmp2bool(valueCmp(v1, v2), op))
      [] op \notin Comparisons /\ v1.Type = v2.Type /\ v1.Type = TYPE_INT64 ->
            binOpI64(op, v1.I64, v2.I64)
      [] op \notin Comparisons /\ v1.Type = v2.Type /\ v1.Type = TYPE_BYTES ->
            binOpStr(op, v1.Str, v2.Str)

RECURSIVE evalExpr(_, _)

\* AND and OR: the second operand is evaluated only if the first one does not
\* decide.
evalLogic(node, env) ==
    LET truth(v) == IF v.Type = TYPE_INT64 THEN b2i(v.I64 # 0) ELSE Failed
    IN  Then(truth(evalExpr(node.Kids[1], env)), LAMBDA fst :
            IF fst \in {Failed, b2i(node.Type = "OR")} THEN fst
            ELSE truth(evalExpr(node.Kids[2], env)))

\* Tuples are compared up to the first pair that differs; what follows it is
\* not evaluated.
tupleCmp(op, kids1, kids2, env) ==
    LET cmpAt(i, cmp) == binOp(cmp, evalExpr(kids1[i], env), evalExpr(kids2[i], env))
    IN  IF Len(kids1) # Len(kids2) THEN Failed
        ELSE Then({i \in DOMAIN kids1 : cmpAt(i, "NE") # IntVal(0)}, LAMBDA differ :
             IF differ = {} THEN b2i(cmp2bool(0, op)) ELSE cmpAt(Min(differ), op))

evalExpr(node, env) ==
    LET kid(i) == evalExpr(node.Kids[i], env)
        op     == node.Type
    IN  CASE op = "SYM" -> Then(SelectInSeq(env.Cols, LAMBDA c : c = node.Str), LAMBDA col :
                                IF col = 0 THEN Failed ELSE env.Vals[col])
          [] op = "LIT" -> node.Val
          [] op = "TUP" -> Failed
          [] op \in {"NEG", "NOT"} -> Then(kid(1), LAMBDA v :
                CASE v.Type # TYPE_INT64 -> Failed
                  [] v.Type = TYPE_INT64 /\ op = "NEG" -> IntVal(Wrap(-v.I64))
                  [] v.Type = TYPE_INT64 /\ op = "NOT" -> b2i(v.I64 = 0))
          [] op \in {"AND", "OR"} -> evalLogic(node, env)
          [] op \in Comparisons \cup {"ADD", "SUB", "MUL", "DIV", "MOD"} ->
                IF op \in Comparisons /\ node.Kids[1].Type = "TUP" /\ node.Kids[2].Type = "TUP"
                THEN tupleCmp(op, node.Kids[1].Kids, node.Kids[2].Kids, env)
                ELSE binOp(op, kid(1), kid(2))

\* The values of several expressions; one that fails fails them all.
evalMulti(env, exprs) == [i \in DOMAIN exprs |-> evalExpr(exprs[i], env)]
evalFails(env, exprs) == \E i \in DOMAIN exprs : evalExpr(exprs[i], env) = Failed
=============================================================================
