------------------------------- MODULE Prompt -------------------------------
(***************************************************************************)
(* The prompt: repl in cmd/ql.go reads lines, the statement scanner of     *)
(* db/ql_parse.go cuts them into statements, and once the input ends with  *)
(* a complete statement the executor of db/ql_exec.go runs all of them, up *)
(* to the first error.                                                     *)
(*                                                                         *)
(* Text is a sequence of tokens: white space, semicolon, the two quotes,   *)
(* .quit, and words of which the statement is made.  What the parser makes *)
(* of a statement is its kind: BEGIN, COMMIT, ROLLBACK, another statement  *)
(* or a syntax error.  Lines are joined without a line break, as in the    *)
(* code.                                                                   *)
(***************************************************************************)
EXTENDS Integers, Sequences, SequencesExt, FiniteSets

CONSTANTS Lines,            \* lines that may be typed
          MaxText           \* bound on the length of the input buffer

ASSUME PromptAssumption ==
    /\ \A line \in Lines :
           \A i \in DOMAIN line : line[i] \in {"sp", ";", "'", "dq", "quit", "word",
                                               "begin", "commit", "rollback"}
    /\ MaxText \in Nat

VARIABLES pc,               \* "read", "scan", "exec" or "quit"
          input, idx,       \* of the scanner; idx tokens are consumed
          stmtStrsBuf,      \* statements to execute
          stmtIncomplete,
          inTransaction,    \* what the prompt shows
          activeTx,         \* does the executor have a transaction?
          ongoing           \* transactions begun and not ended in the store

vars == <<pc, input, idx, stmtStrsBuf, stmtIncomplete, inTransaction, activeTx, ongoing>>

Init ==
    /\ pc = "read"
    /\ input = <<>> /\ idx = 0
    /\ stmtStrsBuf = <<>>
    /\ stmtIncomplete = FALSE
    /\ inTransaction = FALSE
    /\ activeTx = FALSE
    /\ ongoing = 0

Quotes == {"'", "dq"}

trimSpace(s) == SelectSeq(s, LAMBDA t : t # "sp")

-----------------------------------------------------------------------------
(* What the text means: the statements between the semicolons that are not *)
(* in a string.                                                            *)

\* The quote that is open after the first i tokens, or "" outside of strings.
openQuote(text) ==
    LET q[i \in 0 .. Len(text)] ==
            IF i = 0 THEN ""
            ELSE IF q[i - 1] = "" THEN (IF text[i] \in Quotes THEN text[i] ELSE "")
            ELSE IF text[i] = q[i - 1] THEN "" ELSE q[i - 1]
    IN  q

\* The ends of the statements.
ends(text) == LET q == openQuote(text) IN {i \in DOMAIN text : text[i] = ";" /\ q[i] = ""}

dropSpaces(s) == LET at == SelectInSeq(s, LAMBDA t : t # "sp")
                 IN  IF at = 0 THEN <<>> ELSE SubSeq(s, at, Len(s))

statements(text) ==
    LET e == SetToSortSeq(ends(text), <)
    IN  [i \in DOMAIN e |-> dropSpaces(SubSeq(text, IF i = 1 THEN 1 ELSE e[i - 1] + 1, e[i]))]

\* Is there nothing but white space before some semicolon?
hasEmpty(text) == Contains(statements(text), <<";">>)

-----------------------------------------------------------------------------
(* Reading and scanning.                                                   *)

\* End of input, or .quit where a statement may begin.
Quit ==
    /\ pc = "read"
    /\ pc' = "quit"
    /\ UNCHANGED <<input, idx, stmtStrsBuf, stmtIncomplete, inTransaction, activeTx, ongoing>>

ReadLine(line) ==
    /\ pc = "read"
    /\ Len(input) + Len(line) <= MaxText
    /\ stmtIncomplete \/ trimSpace(line) # <<"quit">>
    /\ input' = input \o line
    /\ pc' = "scan"
    /\ UNCHANGED <<idx, stmtStrsBuf, stmtIncomplete, inTransaction, activeTx, ongoing>>

\* The first token from idx on that is not white space.
skipSpaces ==
    CHOOSE i \in idx .. Len(input) :
        /\ \A j \in idx + 1 .. i : input[j] = "sp"
        /\ i = Len(input) \/ input[i + 1] # "sp"

\* Mutant: quotes are not looked at.
scanEndPlain(from) ==
    LET semis == {i \in from .. Len(input) - 1 : input[i + 1] = ";"}
    IN  [end |-> IF semis = {} THEN Len(input) ELSE Min(semis), quote |-> ""]

\* The scan for the terminator from a position outside of any string: where it
\* ends, and the quote that is open there.
scanEnd(from) ==
    LET rest == SubSeq(input, from + 1, Len(input))
        q    == openQuote(rest)
        semis == {i \in DOMAIN rest : rest[i] = ";" /\ q[i] = ""}
        len   == IF semis = {} THEN Len(rest) ELSE Min(semis) - 1
    IN  [end |-> from + len, quote |-> q[len]]

\* Mutant: the loop asks for the next statement again.
ScanIncompleteContinue ==
    LET from == skipSpaces
        scan == scanEnd(from)
    IN  /\ pc = "scan" /\ from < Len(input)
        /\ scan.quote # "" \/ (scan.end = Len(input) /\ scan.end # from)
        /\ idx' = from
        /\ stmtIncomplete' = TRUE
        /\ UNCHANGED <<pc, input, stmtStrsBuf, inTransaction, activeTx, ongoing>>

\* One call of NextStmtStr and what the loop around it does.
ScanIncomplete ==
    LET from == skipSpaces
        scan == scanEnd(from)
    IN  /\ pc = "scan" /\ from < Len(input)
        /\ scan.quote # "" \/ (scan.end = Len(input) /\ scan.end # from)
        /\ idx' = from
        /\ stmtIncomplete' = TRUE
        /\ pc' = "read"
        /\ UNCHANGED <<input, stmtStrsBuf, inTransaction, activeTx, ongoing>>

\* An empty statement is reported and not consumed; the loop continues.
ScanEmpty ==
    LET from == skipSpaces
        scan == scanEnd(from)
    IN  /\ pc = "scan" /\ from < Len(input)
        /\ scan.quote = "" /\ scan.end = from
        /\ idx' = from
        /\ UNCHANGED <<pc, input, stmtStrsBuf, stmtIncomplete, inTransaction, activeTx, ongoing>>

ScanStmt ==
    LET from == skipSpaces
        scan == scanEnd(from)
    IN  /\ pc = "scan" /\ from < Len(input)
        /\ scan.quote = "" /\ scan.end # from /\ scan.end < Len(input)
        /\ stmtStrsBuf' = Append(stmtStrsBuf, SubSeq(input, from + 1, scan.end + 1))
        /\ idx' = scan.end + 1
        /\ UNCHANGED <<pc, input, stmtIncomplete, inTransaction, activeTx, ongoing>>

ScanDone ==
    /\ pc = "scan" /\ skipSpaces = Len(input)
    /\ idx' = Len(input)
    /\ stmtIncomplete' = FALSE
    /\ pc' = "exec"
    /\ UNCHANGED <<input, stmtStrsBuf, inTransaction, activeTx, ongoing>>

-----------------------------------------------------------------------------
(* Executing.                                                              *)

\* What the parser makes of a statement string.
kind(str) ==
    LET body == trimSpace(Front(str))
    IN  CASE body \in {<<"begin">>, <<"commit">>, <<"rollback">>} -> Head(body)
          [] body # <<>> /\ Head(body) = "word" -> "other"
          [] OTHER -> "bad"

\* The transaction of the executor and those in the store after a statement, what
\* the executor says of the former, and whether the statement failed.
Result(active, n, inTX, err) == [active |-> active, ongoing |-> n, inTX |-> inTX, err |-> err]

\* Mutant: a statement that fails in auto-commit mode is not aborted.
ExecStrNoAbort(str) ==
    LET k == kind(str)
        other == IF activeTx THEN {Result(TRUE, ongoing, TRUE, err) : err \in BOOLEAN}
                 ELSE {Result(FALSE, ongoing, FALSE, FALSE), Result(FALSE, ongoing + 1, FALSE, TRUE)}
    IN  CASE k = "bad"      -> {Result(activeTx, ongoing, activeTx, TRUE)}
          [] k = "begin"    -> {IF activeTx THEN Result(TRUE, ongoing, TRUE, TRUE)
                                ELSE Result(TRUE, ongoing + 1, TRUE, FALSE)}
          [] k = "commit"   -> IF activeTx THEN {Result(FALSE, ongoing - 1, FALSE, err) : err \in BOOLEAN}
                               ELSE {Result(FALSE, ongoing, FALSE, TRUE)}
          [] k = "rollback" -> {IF activeTx THEN Result(FALSE, ongoing - 1, FALSE, FALSE)
                                ELSE Result(FALSE, ongoing, FALSE, TRUE)}
          [] k = "other"    -> other

\* The possible outcomes.  Outside of a transaction another statement begins and
\* ends one of its own; it, and every commit, may fail.
ExecStr(str) ==
    LET k == kind(str)
        other == IF activeTx THEN {Result(TRUE, ongoing, TRUE, err) : err \in BOOLEAN}
                 ELSE {Result(FALSE, ongoing, FALSE, err) : err \in BOOLEAN}
    IN  CASE k = "bad"      -> {Result(activeTx, ongoing, activeTx, TRUE)}
          [] k = "begin"    -> {IF activeTx THEN Result(TRUE, ongoing, TRUE, TRUE)
                                ELSE Result(TRUE, ongoing + 1, TRUE, FALSE)}
          [] k = "commit"   -> IF activeTx THEN {Result(FALSE, ongoing - 1, FALSE, err) : err \in BOOLEAN}
                               ELSE {Result(FALSE, ongoing, FALSE, TRUE)}
          [] k = "rollback" -> {IF activeTx THEN Result(FALSE, ongoing - 1, FALSE, FALSE)
                                ELSE Result(FALSE, ongoing, FALSE, TRUE)}
          [] k = "other"    -> other

\* The first statement of the buffer.  Its result may fail to print, too; after an
\* error the other statements are dropped.
Exec ==
    /\ pc = "exec" /\ stmtStrsBuf # <<>>
    /\ \E res \in ExecStr(Head(stmtStrsBuf)), printed \in BOOLEAN :
           /\ activeTx' = res.active
           /\ inTransaction' = res.inTX
           /\ ongoing' = res.ongoing
           /\ stmtStrsBuf' = IF res.err \/ ~printed THEN <<>> ELSE Tail(stmtStrsBuf)
    /\ UNCHANGED <<pc, input, idx, stmtIncomplete>>

\* All executed or dropped: the scanner starts again.
Reset ==
    /\ pc = "exec" /\ stmtStrsBuf = <<>>
    /\ input' = <<>> /\ idx' = 0
    /\ pc' = "read"
    /\ UNCHANGED <<stmtStrsBuf, stmtIncomplete, inTransaction, activeTx, ongoing>>

Ended == pc = "quit" /\ UNCHANGED vars

Step == ScanIncomplete \/ ScanEmpty \/ ScanStmt \/ ScanDone \/ Exec \/ Reset

Next == Quit \/ (\E line \in Lines : ReadLine(line)) \/ Step \/ Ended

\* The program goes on by itself until it reads again; nobody has to type.
Spec == Init /\ [][Next]_vars /\ WF_vars(Step)

-----------------------------------------------------------------------------
(* Properties.                                                             *)

\* Statements are executed only when the text ends with a complete one, and then
\* they are all statements of the text, each once and in order, however it was
\* spread over lines; otherwise more input is asked for and no statement is lost
\* (ql_parse.go NextStmtStr called again and again by the loop of repl).
BatchComplete ==
    [][pc = "scan" /\ pc' # "scan" =>
        LET last == IF ends(input) = {} THEN 0 ELSE Max(ends(input))
            rest == dropSpaces(SubSeq(input, last + 1, Len(input)))
        IN  /\ stmtStrsBuf' = statements(input)
            /\ (pc' = "exec") = (rest = <<>>)]_vars

\* When the prompt is shown it tells truly whether a transaction is open, and the
\* store has exactly that one: every statement outside of a transaction has ended
\* its own, after errors, dropped statements and failed commits too (ql_exec.go
\* ExecStr, cmd/ql.go getPrompt).
PromptTrue ==
    pc = "read" => inTransaction = activeTx /\ ongoing = IF activeTx THEN 1 ELSE 0

\* After every line the prompt comes back (cmd/ql.go repl).
BackToPrompt == pc \in {"scan", "exec"} ~> pc = "read"

\* The same for text without an empty statement.
PromptReturns == pc \in {"scan", "exec"} /\ ~hasEmpty(input) ~> pc = "read"
=============================================================================
