--------------------------- MODULE Prompt_proofs ---------------------------
(* Proofs about the prompt. *)
EXTENDS Prompt, TLAPS

\* The parser gives every statement string one of five kinds.
LEMMA KindsOfStatements ==
    ASSUME NEW str
    PROVE  kind(str) \in {"begin", "commit", "rollback", "other", "bad"}
<1> DEFINE body == trimSpace(Front(str))
<1> HIDE DEF body
<1>1. \A t : Head(<<t>>) = t
  OBVIOUS
<1>2. CASE body \in {<<"begin">>, <<"commit">>, <<"rollback">>}
  <2>1. Head(body) \in {"begin", "commit", "rollback"}
    BY <1>1, <1>2
  <2>2. kind(str) = Head(body) \/ (body # <<>> /\ Head(body) = "word")
    BY <1>2, Zenon DEF kind, body
  <2> QED BY <2>1, <2>2
<1>3. CASE body \notin {<<"begin">>, <<"commit">>, <<"rollback">>}
  BY <1>3, Zenon DEF kind, body
<1> QED BY <1>2, <1>3

\* Statement by statement: the executor's transaction, what it tells the prompt and
\* the transactions in the store agree, also while statements are being executed.
PromptInv ==
    /\ activeTx \in BOOLEAN
    /\ inTransaction = activeTx
    /\ ongoing = IF activeTx THEN 1 ELSE 0

\* Every outcome of a statement leaves them in agreement (ExecStr).
LEMMA OutcomesAgree ==
    ASSUME PromptInv, NEW str, NEW res \in ExecStr(str)
    PROVE  /\ res.active \in BOOLEAN
           /\ res.inTX = res.active
           /\ res.ongoing = IF res.active THEN 1 ELSE 0
<1>0. activeTx = TRUE \/ activeTx = FALSE
  BY DEF PromptInv
<1>1. CASE activeTx = TRUE
  <2>1. inTransaction = TRUE /\ ongoing = 1
    BY <1>1 DEF PromptInv
  <2>2. ongoing - 1 = 0
    BY <2>1
  <2>3. \E err \in BOOLEAN : res = Result(TRUE, ongoing, TRUE, err) \/ res = Result(FALSE, ongoing - 1, FALSE, err)
    <3>1. CASE kind(str) = "bad"
      BY <1>1, <3>1 DEF ExecStr
    <3>2. CASE kind(str) = "begin"
      BY <1>1, <3>2 DEF ExecStr
    <3>3. CASE kind(str) = "commit"
      BY <1>1, <3>3 DEF ExecStr
    <3>4. CASE kind(str) = "rollback"
      BY <1>1, <3>4 DEF ExecStr
    <3>5. CASE kind(str) = "other"
      BY <1>1, <3>5 DEF ExecStr
    <3> QED BY <3>1, <3>2, <3>3, <3>4, <3>5, KindsOfStatements
  <2>4. CASE res.active = TRUE /\ res.inTX = TRUE /\ res.ongoing = ongoing
    BY <2>1, <2>4
  <2>5. CASE res.active = FALSE /\ res.inTX = FALSE /\ res.ongoing = ongoing - 1
    BY <2>2, <2>5
  <2>6. PICK err \in BOOLEAN : res = Result(TRUE, ongoing, TRUE, err) \/ res = Result(FALSE, ongoing - 1, FALSE, err)
    BY <2>3
  <2>7. CASE res = Result(TRUE, ongoing, TRUE, err)
    BY <2>4, <2>7, Zenon DEF Result
  <2>8. CASE res = Result(FALSE, ongoing - 1, FALSE, err)
    BY <2>5, <2>8, Zenon DEF Result
  <2> QED BY <2>6, <2>7, <2>8
<1>2. CASE activeTx = FALSE
  <2>1. inTransaction = FALSE /\ ongoing = 0
    BY <1>2 DEF PromptInv
  <2>2. ongoing + 1 = 1
    BY <2>1
  <2>3. \E err \in BOOLEAN : res = Result(FALSE, ongoing, FALSE, err) \/ res = Result(TRUE, ongoing + 1, TRUE, err)
    <3>1. CASE kind(str) = "bad"
      BY <1>2, <3>1 DEF ExecStr
    <3>2. CASE kind(str) = "begin"
      BY <1>2, <3>2 DEF ExecStr
    <3>3. CASE kind(str) = "commit"
      BY <1>2, <3>3 DEF ExecStr
    <3>4. CASE kind(str) = "rollback"
      BY <1>2, <3>4 DEF ExecStr
    <3>5. CASE kind(str) = "other"
      BY <1>2, <3>5 DEF ExecStr
    <3> QED BY <3>1, <3>2, <3>3, <3>4, <3>5, KindsOfStatements
  <2>4. CASE res.active = FALSE /\ res.inTX = FALSE /\ res.ongoing = ongoing
    BY <2>1, <2>4
  <2>5. CASE res.active = TRUE /\ res.inTX = TRUE /\ res.ongoing = ongoing + 1
    BY <2>2, <2>5
  <2>6. PICK err \in BOOLEAN : res = Result(FALSE, ongoing, FALSE, err) \/ res = Result(TRUE, ongoing + 1, TRUE, err)
    BY <2>3
  <2>7. CASE res = Result(FALSE, ongoing, FALSE, err)
    BY <2>4, <2>7, Zenon DEF Result
  <2>8. CASE res = Result(TRUE, ongoing + 1, TRUE, err)
    BY <2>5, <2>8, Zenon DEF Result
  <2> QED BY <2>6, <2>7, <2>8
<1> QED BY <1>0, <1>1, <1>2

\* The agreement holds in every state, not only at the prompt.
THEOREM PromptAgrees == Spec => []PromptInv
<1>1. Init => PromptInv
  BY DEF Init, PromptInv
<1>2. PromptInv /\ [Next]_vars => PromptInv'
  <2> SUFFICES ASSUME PromptInv, [Next]_vars PROVE PromptInv'
    OBVIOUS
  <2>1. CASE UNCHANGED <<inTransaction, activeTx, ongoing>>
    BY <2>1 DEF PromptInv
  <2>2. CASE Exec
    <3>1. PICK res \in ExecStr(Head(stmtStrsBuf)) :
              activeTx' = res.active /\ inTransaction' = res.inTX /\ ongoing' = res.ongoing
      BY <2>2 DEF Exec
    <3> QED BY <3>1, OutcomesAgree DEF PromptInv
  <2> QED BY <2>1, <2>2 DEF Next, Step, vars, Quit, ReadLine, ScanIncomplete, ScanEmpty, ScanStmt,
                            ScanDone, Reset, Ended
<1> QED BY <1>1, <1>2, PTL DEF Spec

\* When the prompt is shown it tells truly whether a transaction is open, and the
\* store has exactly that one, for all lines that may be typed (repl, ExecStr).
THEOREM PromptIsTrue == Spec => []PromptTrue
<1>1. PromptInv => PromptTrue
  BY DEF PromptInv, PromptTrue
<1> QED BY <1>1, PromptAgrees, PTL
=============================================================================
