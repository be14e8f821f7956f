-------------------------- MODULE KVTX_refinement --------------------------
(***************************************************************************)
(* The transactions of KVTX implement the serial store of SerialKV, as     *)
(* long as no second fault hits the rewrite of the meta page.              *)
(***************************************************************************)
EXTENDS KVTX_proofs

\* A transaction object outside a transaction is as Commit or Abort left it:
\* nothing of the last transaction reaches the next one.
ClosedClean == \A t \in Tx \ Active : tx[t] = Closed(tx[t].status)

RefinementInv == DataInv /\ ClosedClean

-----------------------------------------------------------------------------
(* The mapping, field by field.                                            *)

LEMMA MapInit == Init => Serial!Init
<1> SUFFICES ASSUME Init PROVE Serial!Init
  OBVIOUS
<1>1. tx = [t \in Tx |-> Closed("idle")] /\ store \in Maps
  BY DEF Init
<1>2. \A t \in Tx : /\ tx[t].status = "idle" /\ tx[t].snapshot = NoKeys /\ tx[t].pending = NoKeys
                    /\ tx[t].reads = {} /\ tx[t].updateAttempted = FALSE
  BY <1>1 DEF Closed
<1>3. \A t \in Tx : Dirty(t) = {}
  BY <1>2 DEF Dirty, Active
<1> QED BY <1>1, <1>2, <1>3 DEF Serial!Init, Serial!Unwritten, NoKeys, Maps

\* Begin is the abstract one: the new transaction has missed nothing.
LEMMA MapBegin ==
    ASSUME RefinementInv, NEW t \in Tx, Begin(t)
    PROVE  Serial!Begin(t) /\ ClosedClean'
<1>1. BookkeepingInv /\ TypeOK /\ HistoryAscending /\ ~unwritten /\ ClosedClean
  BY DEF RefinementInv, DataInv, BookkeepingInv
<1>2. /\ BookkeepingInv'
      /\ t \notin Active /\ Active' = Active \cup {t}
      /\ \A u \in Tx \ {t} : tx'[u] = tx[u]
      /\ tx'[t] = Opened(store)
  BY <1>1, BeginKeeps
<1>3. TypeOK' /\ HistoryAscending'
  BY <1>2 DEF BookkeepingInv
<1>4. store' = store /\ history' = history /\ version' = version
  BY DEF Begin
<1>5. /\ tx[t].status # "active" /\ tx[t].reads = {} /\ tx[t].updateAttempted = FALSE
      /\ tx[t].pending = NoKeys
  <2>1. tx[t] = Closed(tx[t].status)
    BY <1>1, <1>2 DEF ClosedClean
  <2> QED BY <1>2, <2>1 DEF Closed, Active
<1>6. /\ tx'[t].status = "active" /\ tx'[t].snapshot = store /\ tx'[t].reads = {}
      /\ tx'[t].updateAttempted = FALSE /\ tx'[t].pending = NoKeys /\ tx'[t].version = version
  BY <1>2 DEF Opened, Closed
<1>7. \A u \in Tx : Dirty(u)' = Dirty(u)
  <2> TAKE u \in Tx
  <2>1. CASE u = t
    <3>1. Newer(t)' = {i \in DOMAIN history' : tx'[t].version < history'[i].version}
      BY <1>3, NewerAllNext
    <3>2. \A i \in DOMAIN history : history[i].version \in Nat /\ history[i].version <= version
      <4>1. history \in [1 .. Len(history) -> Entries] /\ DOMAIN history = 1 .. Len(history)
        BY <1>1, LenProperties DEF TypeOK, Entries
      <4> QED BY <1>1, <4>1 DEF HistoryAscending, Entries
    <3>3. Newer(t)' = {}
      BY <1>1, <1>4, <1>6, <3>1, <3>2 DEF TypeOK
    <3>4. Dirty(t)' = UNION {history'[i].writes : i \in Newer(t)'} /\ Dirty(t) = {}
      BY <1>2 DEF Dirty
    <3> QED BY <2>1, <3>3, <3>4
  <2>2. CASE u # t
    <3>1. Newer(u)' = Newer(u)
      BY <1>2, <1>4, <2>2 DEF Newer, versionBefore
    <3>2. u \in Active' <=> u \in Active
      BY <1>2, <2>2
    <3> QED BY <1>4, <3>1, <3>2 DEF Dirty
  <2> QED BY <2>1, <2>2
<1>8. Serial!Begin(t)
  <2>1. [u \in Tx |-> tx'[u].status] = [[u \in Tx |-> tx[u].status] EXCEPT ![t] = "active"]
    BY <1>2, <1>6
  <2>2. [u \in Tx |-> tx'[u].snapshot] = [[u \in Tx |-> tx[u].snapshot] EXCEPT ![t] = store]
    BY <1>2, <1>6
  <2>3. /\ [u \in Tx |-> tx'[u].reads] = [u \in Tx |-> tx[u].reads]
        /\ [u \in Tx |-> tx'[u].updateAttempted] = [u \in Tx |-> tx[u].updateAttempted]
        /\ [u \in Tx |-> tx'[u].pending] = [u \in Tx |-> tx[u].pending]
    BY <1>2, <1>5, <1>6
  <2>4. [u \in Tx |-> Dirty(u)]' = [u \in Tx |-> Dirty(u)]
    BY <1>7
  <2>5. [u \in Tx |-> tx[u].status][t] # "active"
    BY <1>5
  <2> QED BY <1>4, <2>1, <2>2, <2>3, <2>4, <2>5 DEF Serial!Begin
<1>9. ClosedClean'
  BY <1>1, <1>2 DEF ClosedClean
<1> QED BY <1>8, <1>9

\* A step of a statement is abstract work: it never takes back that the
\* transaction has attempted an update.
LEMMA StmtKeepsUpdater ==
    ASSUME TypeOK, NEW t \in Tx, StmtStep(t)
    PROVE  tx[t].updateAttempted => tx'[t].updateAttempted
<1>1. tx \in [Tx -> TxRecord]
  BY DEF TypeOK
<1>2. ASSUME Save(t) \/ EndStmt(t) \/ Revert(t)
      PROVE  tx'[t].updateAttempted = tx[t].updateAttempted
  BY <1>1, <1>2 DEF Save, EndStmt, Revert, TxRecord
<1>3. ASSUME NEW k \in Keys, Get(t, k) PROVE tx'[t].updateAttempted = tx[t].updateAttempted
  BY <1>1, <1>3 DEF Get, TxRecord
<1>4. ASSUME NEW k \in Keys, Del(t, k) PROVE tx'[t].updateAttempted = TRUE
  BY <1>1, <1>4 DEF Del, TxRecord
<1>5. ASSUME NEW low \in Keys, NEW high \in Keys, Seek(t, low, high)
      PROVE  tx'[t].updateAttempted = tx[t].updateAttempted
  BY <1>1, <1>5 DEF Seek, TxRecord
<1>6. ASSUME NEW k \in Keys, NEW v \in Vals,
             NEW mode \in {"UPSERT", "UPDATE_ONLY", "INSERT_ONLY"}, Update(t, k, v, mode)
      PROVE  tx'[t].updateAttempted = TRUE
  BY <1>1, <1>6 DEF Update, TxRecord
<1> QED BY <1>2, <1>3, <1>4, <1>5, <1>6 DEF StmtStep

LEMMA MapWork ==
    ASSUME RefinementInv, NEW t \in Tx, StmtStep(t)
    PROVE  Serial!Work(t) /\ ClosedClean'
<1>1. BookkeepingInv /\ TypeOK /\ PendingDepends /\ ClosedClean
  BY DEF RefinementInv, DataInv, BookkeepingInv
<1>2. Local /\ t \in Active /\ \A u \in Tx \ {t} : tx'[u] = tx[u]
  BY <1>1, StmtLocal
<1>3. BookkeepingInv' /\ Active' = Active
  BY <1>1, <1>2, LocalKeeps
<1>4. PendingDepends' /\ (tx[t].updateAttempted => tx'[t].updateAttempted)
  BY <1>1, StmtDepends, StmtKeepsUpdater
<1>5. /\ UNCHANGED kvVars /\ tx' \in [Tx -> TxRecord]
      /\ \A u \in Tx : /\ tx'[u].status = tx[u].status /\ tx'[u].version = tx[u].version
                       /\ tx'[u].snapshot = tx[u].snapshot
  BY <1>2 DEF Local
<1>6. store' = store /\ history' = history
  BY <1>5 DEF kvVars
<1>7. \A u \in Tx : Dirty(u)' = Dirty(u)
  <2> TAKE u \in Tx
  <2>1. Newer(u)' = Newer(u)
    BY <1>5, <1>6 DEF Newer, versionBefore
  <2> QED BY <1>3, <1>6, <2>1 DEF Dirty
<1>8. Serial!Work(t)
  <2>1. [u \in Tx |-> tx[u].status][t] = "active"
    BY <1>2 DEF Active
  <2>2. \A u \in Tx : /\ tx'[u].reads \in SUBSET Keys /\ tx'[u].updateAttempted \in BOOLEAN
                      /\ tx'[u].pending \in [Keys -> Vals \cup {NONE, DELETED}]
    BY <1>5 DEF TxRecord, Pending
  <2>3. /\ [u \in Tx |-> tx'[u].reads] \in [Tx -> SUBSET Keys]
        /\ [u \in Tx |-> tx'[u].updateAttempted] \in [Tx -> BOOLEAN]
        /\ [u \in Tx |-> tx'[u].pending] \in [Tx -> [Keys -> Vals \cup {NONE, DELETED}]]
    BY <2>2
  <2>4. \A u \in Tx \ {t} :
          /\ [v \in Tx |-> tx'[v].reads][u] = [v \in Tx |-> tx[v].reads][u]
          /\ [v \in Tx |-> tx'[v].updateAttempted][u] = [v \in Tx |-> tx[v].updateAttempted][u]
          /\ [v \in Tx |-> tx'[v].pending][u] = [v \in Tx |-> tx[v].pending][u]
    BY <1>2
  <2>5. [v \in Tx |-> tx[v].updateAttempted][t] => [v \in Tx |-> tx'[v].updateAttempted][t]
    BY <1>4
  <2>6. ASSUME NEW k \in Keys, [v \in Tx |-> tx'[v].pending][t][k] # NONE
        PROVE  k \in [v \in Tx |-> tx'[v].reads][t] /\ [v \in Tx |-> tx'[v].updateAttempted][t]
    BY <1>4, <2>6 DEF PendingDepends
  <2>7. /\ [u \in Tx |-> tx'[u].status] = [u \in Tx |-> tx[u].status]
        /\ [u \in Tx |-> tx'[u].snapshot] = [u \in Tx |-> tx[u].snapshot]
    BY <1>5
  <2>8. [u \in Tx |-> Dirty(u)]' = [u \in Tx |-> Dirty(u)]
    BY <1>7
  <2> QED BY <1>6, <2>1, <2>3, <2>4, <2>5, <2>6, <2>7, <2>8, Zenon DEF Serial!Work
<1>9. ClosedClean'
  BY <1>1, <1>2, <1>3 DEF ClosedClean
<1> QED BY <1>8, <1>9

-----------------------------------------------------------------------------
(* The end of a transaction.                                               *)

\* Entries of h that are newer than the transaction with version v.
WritesSince(h, v) == UNION {h[i].writes : i \in {j \in DOMAIN h : v < h[j].version}}

\* The keys changed behind a transaction, in an ascending history.
LEMMA DirtyIsWritesSince ==
    ASSUME TypeOK, HistoryAscending, NEW u \in Active
    PROVE  Dirty(u) = WritesSince(history, tx[u].version)
<1>1. u \in Tx
  BY DEF Active
<1>2. Newer(u) = {i \in DOMAIN history : tx[u].version < history[i].version}
  BY <1>1, NewerAll
<1> QED BY <1>2 DEF Dirty, WritesSince

\* txFinalize leaves every other transaction with what hist says it missed,
\* although it trims the history.
LEMMA FinalizeDirty ==
    ASSUME BookkeepingInv, NEW t \in Active, NEW outcome \in Outcomes,
           NEW ver \in Nat, version <= ver, version' = ver,
           NEW hist \in Seq(Entries), Ascending(hist, ver),
           store' \in Maps, failed' \in BOOLEAN, unwritten' \in BOOLEAN,
           txFinalize(t, outcome, ver, hist)
    PROVE  \A u \in Tx : Dirty(u)' = IF u \in Active \ {t} THEN WritesSince(hist, tx[u].version)
                                     ELSE {}
<1>1. /\ BookkeepingInv'
      /\ Active' = Active \ {t}
      /\ \A u \in Tx \ {t} : tx'[u] = tx[u]
      /\ \A i \in DOMAIN hist, u \in Active' :
            tx[u].version < hist[i].version => \E j \in DOMAIN history' : history'[j] = hist[i]
  BY FinalizeKeeps
<1>2. TypeOK' /\ HistoryAscending'
  BY <1>1 DEF BookkeepingInv
<1>3. \A j \in DOMAIN history' : \E i \in DOMAIN hist : history'[j] = hist[i]
  <2> DEFINE min == MinVersion(ver, ongoing')
             x   == TrimIndex(hist, min)
             n   == Len(hist)
  <2>1. history' = SubSeq(hist, x, n)
    BY DEF txFinalize
  <2>2. min \in Nat
    BY <1>2, MinVersionLeast DEF TypeOK
  <2>3. x \in 1 .. n + 1
    BY <2>2, TrimIndexFound
  <2>4. n \in Nat /\ DOMAIN hist = 1 .. n /\ \A i \in 1 .. n : hist[i] \in Entries
    BY LenProperties
  <2> HIDE DEF x, n, min
  <2>5. /\ Len(SubSeq(hist, x, n)) = IF x <= n THEN n - x + 1 ELSE 0
        /\ \A j \in 1 .. n - x + 1 : SubSeq(hist, x, n)[j] = hist[x + j - 1]
    <3>1. \A i \in x .. n : hist[i] \in Entries
      BY <2>3, <2>4
    <3>2. x \in Int /\ n \in Int
      BY <2>3, <2>4
    <3> QED BY <3>1, <3>2, SubSeqProperties
  <2>6. DOMAIN history' = 1 .. Len(history')
    BY <1>2, LenProperties DEF TypeOK
  <2>7. ASSUME NEW j \in DOMAIN history' PROVE history'[j] = hist[x + j - 1] /\ x + j - 1 \in DOMAIN hist
    BY <2>1, <2>3, <2>4, <2>5, <2>6
  <2> QED BY <2>7
<1> SUFFICES ASSUME NEW u \in Tx
             PROVE  Dirty(u)' = IF u \in Active \ {t} THEN WritesSince(hist, tx[u].version) ELSE {}
  OBVIOUS
<1>4. CASE u \in Active \ {t}
  <2>1. tx'[u] = tx[u] /\ u \in Active'
    BY <1>1, <1>4
  <2>2. Newer(u)' = {i \in DOMAIN history' : tx'[u].version < history'[i].version}
    BY <1>2, NewerAllNext
  <2>3. Dirty(u)' = UNION {history'[i].writes : i \in {j \in DOMAIN history' :
                                                        tx[u].version < history'[j].version}}
    BY <2>1, <2>2 DEF Dirty
  <2>4. \A k : k \in Dirty(u)' <=> k \in WritesSince(hist, tx[u].version)
    BY <1>1, <1>3, <2>1, <2>3 DEF WritesSince
  <2> QED BY <1>4, <2>4
<1>5. CASE u \notin Active \ {t}
  BY <1>1, <1>5 DEF Dirty
<1> QED BY <1>4, <1>5

\* txFinalize maps to the abstract Finish with the store it leaves, if hist
\* tells every other open transaction what changed.
LEMMA MapFinish ==
    ASSUME RefinementInv, NEW t \in Active, NEW outcome \in Outcomes,
           NEW ver \in Nat, version <= ver, version' = ver,
           NEW hist \in Seq(Entries), Ascending(hist, ver),
           NEW new \in Maps, store' = new, failed' \in BOOLEAN, unwritten' \in BOOLEAN,
           txFinalize(t, outcome, ver, hist),
           \A u \in Active \ {t} : WritesSince(hist, tx[u].version)
                = WritesSince(history, tx[u].version) \cup {k \in Keys : new[k] # store[k]}
    PROVE  Serial!Finish(t, outcome, new) /\ ClosedClean'
<1>1. BookkeepingInv /\ TypeOK /\ HistoryAscending /\ ClosedClean /\ t \in Tx
  BY DEF RefinementInv, DataInv, BookkeepingInv, Active
<1>2. /\ Active' = Active \ {t}
      /\ tx'[t] = Closed(outcome)
      /\ \A u \in Tx \ {t} : tx'[u] = tx[u]
  BY <1>1, FinalizeKeeps
<1>3. \A u \in Tx : Dirty(u)' = IF u \in Active \ {t} THEN WritesSince(hist, tx[u].version) ELSE {}
  BY <1>1, FinalizeDirty
<1>4. \A u \in Active : Dirty(u) = WritesSince(history, tx[u].version)
  BY <1>1, DirtyIsWritesSince
<1>5. /\ tx'[t].status = outcome /\ tx'[t].snapshot = NoKeys /\ tx'[t].pending = NoKeys
      /\ tx'[t].reads = {} /\ tx'[t].updateAttempted = FALSE
  BY <1>2 DEF Closed
<1>6. Serial!Finish(t, outcome, new)
  <2>1. [u \in Tx |-> tx[u].status][t] = "active"
    BY <1>1 DEF Active
  <2>2. [u \in Tx |-> tx'[u].status] = [[u \in Tx |-> tx[u].status] EXCEPT ![t] = outcome]
    BY <1>2, <1>5
  <2>3. [u \in Tx |-> tx'[u].snapshot] = [[u \in Tx |-> tx[u].snapshot] EXCEPT ![t] = NoKeys]
    BY <1>2, <1>5
  <2>4. [u \in Tx |-> tx'[u].reads] = [[u \in Tx |-> tx[u].reads] EXCEPT ![t] = {}]
    BY <1>2, <1>5
  <2>5. [u \in Tx |-> tx'[u].updateAttempted]
          = [[u \in Tx |-> tx[u].updateAttempted] EXCEPT ![t] = FALSE]
    BY <1>2, <1>5
  <2>6. [u \in Tx |-> tx'[u].pending] = [[u \in Tx |-> tx[u].pending] EXCEPT ![t] = NoKeys]
    BY <1>2, <1>5
  <2>7. [u \in Tx |-> Dirty(u)]'
          = [u \in Tx |-> IF u # t /\ [v \in Tx |-> tx[v].status][u] = "active"
                          THEN [v \in Tx |-> Dirty(v)][u] \cup {k \in Keys : new[k] # store[k]}
                          ELSE {}]
    <3>1. ASSUME NEW u \in Tx
          PROVE  Dirty(u)' = IF u # t /\ [v \in Tx |-> tx[v].status][u] = "active"
                             THEN [v \in Tx |-> Dirty(v)][u] \cup {k \in Keys : new[k] # store[k]}
                             ELSE {}
      <4>1. u \in Active <=> [v \in Tx |-> tx[v].status][u] = "active"
        BY DEF Active
      <4> QED BY <1>3, <1>4, <4>1
    <3> QED BY <3>1
  <2> QED BY <2>1, <2>2, <2>3, <2>4, <2>5, <2>6, <2>7, Zenon
          DEF Serial!Finish, Serial!Changed, Serial!Unwritten, NoKeys
<1>7. ClosedClean'
  <2>1. tx'[t] = Closed(tx'[t].status)
    BY <1>2, <1>5
  <2> QED BY <1>1, <1>2, <2>1 DEF ClosedClean
<1> QED BY <1>6, <1>7

\* An end that leaves the store and the history as they are.
LEMMA MapUnchanged ==
    ASSUME RefinementInv, NEW t \in Active, NEW outcome \in Outcomes,
           txFinalize(t, outcome, version, history), store' = store, version' = version,
           failed' \in BOOLEAN, unwritten' \in BOOLEAN
    PROVE  Serial!Finish(t, outcome, store) /\ ClosedClean'
<1>1. /\ version \in Nat /\ version <= version /\ store \in Maps
      /\ BookkeepingInv /\ t \in Tx
  BY DEF RefinementInv, DataInv, BookkeepingInv, TypeOK, Active
<1>2. history \in Seq(Entries) /\ Ascending(history, version)
  BY <1>1, CommitHistoryAscending
<1>3. PICK new \in Maps : new = store
  BY <1>1
<1>4. {k \in Keys : new[k] # store[k]} = {}
  BY <1>3
<1>5. Serial!Finish(t, outcome, new) /\ ClosedClean'
  BY <1>1, <1>2, <1>3, <1>4, MapFinish
<1> QED BY <1>3, <1>5 DEF Serial!Finish, Serial!Changed

\* Validation, in the words of the abstraction.
LEMMA MapValidation ==
    ASSUME RefinementInv, NEW t \in Active
    PROVE  /\ Serial!Stale(t) <=> detectConflicts(t)
           /\ ~detectConflicts(t) => Serial!Current(t)
<1>1. HistoryCovers /\ TypeOK /\ t \in Tx
  BY DEF RefinementInv, DataInv, BookkeepingInv, Active
<1>2. Dirty(t) = UNION {history[i].writes : i \in Newer(t)}
  BY DEF Dirty
<1>3. Serial!Stale(t) <=> detectConflicts(t)
  BY <1>1, <1>2 DEF Serial!Stale, detectConflicts
<1>4. ASSUME ~detectConflicts(t) PROVE Serial!Current(t)
  <2>1. tx[t].reads \subseteq Keys
    BY <1>1 DEF TypeOK, TxRecord
  <2>2. \A k \in tx[t].reads : tx[t].snapshot[k] = store[k]
    BY <1>1, <1>4, <2>1, ValidatedReadsCurrent
  <2> QED BY <1>1, <2>2 DEF Serial!Current
<1> QED BY <1>3, <1>4

\* A commit that writes: the entry appended tells the others what changed, and
\* it is left out only when there are no others.
LEMMA MapCommitOk ==
    ASSUME RefinementInv, NEW t \in Active, CommitOk(t)
    PROVE  Serial!Finish(t, "committed", Transfer(t)) /\ ClosedClean'
<1>1. BookkeepingInv /\ TypeOK /\ HistoryAscending /\ VersionsOrdered /\ t \in Tx
  BY DEF RefinementInv, DataInv, BookkeepingInv, Active
<1>2. /\ store' = Transfer(t) /\ version' = version + 1 /\ failed' = FALSE /\ unwritten' = FALSE
      /\ CommitAsserts(t) /\ txFinalize(t, "committed", version + 1, CommitHistory(t))
  BY DEF CommitOk, CommitHistory, Writing, Valid
<1>3. /\ version \in Nat /\ version + 1 \in Nat /\ version <= version + 1
  BY <1>1 DEF TypeOK
<1>4. Transfer(t) \in Maps
  <2>1. \A k \in Keys : store[k] \in Vals \cup {NONE}
                       /\ tx[t].pending[k] \in Vals \cup {NONE, DELETED}
    BY <1>1 DEF TypeOK, TxRecord, Maps, Pending
  <2> QED BY <2>1 DEF Transfer, Maps
<1>5. /\ history \in Seq(Entries)
      /\ CommitHistory(t) \in Seq(Entries) /\ Ascending(CommitHistory(t), version + 1)
  BY <1>1, CommitHistoryAscending
<1> DEFINE changed == {k \in Keys : Transfer(t)[k] # store[k]}
<1>6. changed = Modified(t)
  BY <1>2 DEF CommitAsserts, TreeChanged
<1>7. ASSUME NEW u \in Active \ {t}
      PROVE  WritesSince(CommitHistory(t), tx[u].version)
                = WritesSince(history, tx[u].version) \cup changed
  <2> HIDE DEF changed
  <2>1. Writes(t) = changed
    <3> DEFINE base == [x \in Tx |-> tx[x].version]
    <3>1. ongoing \in Seq(Nat) /\ Owned(ongoing, Active, base)
      BY <1>1 DEF TypeOK, BookkeepingInv, OngoingMatches
    <3> HIDE DEF base
    <3>2. Len(ongoing) > 1
      BY <1>7, <3>1, OwnedMembers
    <3> QED BY <1>6, <3>2 DEF Writes
  <2>2. CASE Writes(t) = {}
    BY <2>1, <2>2 DEF CommitHistory
  <2>3. CASE Writes(t) # {}
    <3> DEFINE n == Len(history)
               e == [version |-> version + 1, writes |-> Writes(t)]
    <3>1. n \in Nat /\ DOMAIN history = 1 .. n
      BY <1>5, LenProperties
    <3>2. e \in Entries
      BY <1>3 DEF Entries, Writes, Modified
    <3>3. e.version = version + 1 /\ e.writes = changed
      BY <2>1
    <3> HIDE DEF e, n
    <3>4. CommitHistory(t) = Append(history, e)
      BY <2>3 DEF CommitHistory, e
    <3>5. /\ Append(history, e) \in Seq(Entries) /\ Len(Append(history, e)) = n + 1
          /\ \A i \in 1 .. n : Append(history, e)[i] = history[i]
          /\ Append(history, e)[n + 1] = e
      BY <1>5, <3>2, AppendProperties DEF n
    <3>6. DOMAIN Append(history, e) = 1 .. n + 1
      BY <3>5, LenProperties
    <3>7. tx[u].version \in Nat /\ tx[u].version < e.version
      BY <1>1, <1>3, <3>3 DEF VersionsOrdered, Active, TypeOK, TxRecord
    <3> DEFINE g == Append(history, e)
    <3>8. {j \in DOMAIN g : tx[u].version < g[j].version}
             = {j \in DOMAIN history : tx[u].version < history[j].version} \cup {n + 1}
      <4> HIDE DEF g
      <4>1. DOMAIN g = (1 .. n) \cup {n + 1}
        BY <3>1, <3>6 DEF g
      <4>2. \A i \in 1 .. n : g[i] = history[i]
        BY <3>5 DEF g
      <4>3. g[n + 1] = e
        BY <3>5 DEF g
      <4> QED BY <3>1, <3>7, <4>1, <4>2, <4>3
    <3>9. \A k : k \in WritesSince(g, tx[u].version)
                    <=> k \in WritesSince(history, tx[u].version) \cup changed
      <4>1. \A i \in DOMAIN history : g[i] = history[i]
        BY <3>1, <3>5
      <4>2. g[n + 1].writes = changed
        BY <3>3, <3>5
      <4> HIDE DEF g
      <4> QED BY <3>8, <4>1, <4>2 DEF WritesSince
    <3> QED BY <3>4, <3>9
  <2> QED BY <2>2, <2>3
<1>8. failed' \in BOOLEAN /\ unwritten' \in BOOLEAN /\ "committed" \in Outcomes
  BY <1>2, Zenon DEF Outcomes
<1>9. PICK new \in Maps : new = Transfer(t)
  BY <1>4
<1>10. Serial!Finish(t, "committed", new) /\ ClosedClean'
  BY <1>2, <1>3, <1>5, <1>7, <1>8, <1>9, MapFinish
<1> QED BY <1>9, <1>10 DEF Serial!Finish, Serial!Changed

\* Commit and Abort, by outcome.
LEMMA MapEnd ==
    ASSUME "rewrite" \notin IOFaults, RefinementInv, NEW t \in Tx, Commit(t) \/ Abort(t)
    PROVE  (Serial!Commit(t) \/ Serial!Conflict(t) \/ Serial!Rollback(t)) /\ ClosedClean'
<1>1. TypeOK /\ ~unwritten /\ DataInv
  BY DEF RefinementInv, DataInv, BookkeepingInv
<1>2. t \in Active
  BY DEF Commit, Abort, CommitConflict, CommitPanic, CommitNoChange, CommitOk,
         CommitUpdateError, CommitRewriteError, Writing, InCommit
<1>3. /\ Serial!Stale(t) <=> detectConflicts(t)
      /\ ~detectConflicts(t) => Serial!Current(t)
  BY <1>2, MapValidation
<1>4. [u \in Tx |-> tx[u].updateAttempted][t] = tx[t].updateAttempted
  OBVIOUS
<1>5. failed \in BOOLEAN /\ unwritten \in BOOLEAN
      /\ {"committed", "conflict", "error", "aborted"} \subseteq Outcomes
  BY <1>1 DEF TypeOK, Outcomes
<1>6. Serial!Applied(t) = Transfer(t)
  BY DEF Serial!Applied, Transfer
<1>7. CASE CommitConflict(t)
  <2>1. /\ txFinalize(t, "conflict", version, history) /\ store' = store /\ version' = version
        /\ failed' = failed /\ unwritten' = unwritten /\ Conflicts(t)
    BY <1>7 DEF CommitConflict
  <2>2. Serial!Finish(t, "conflict", store) /\ ClosedClean'
    BY <1>2, <1>5, <2>1, MapUnchanged
  <2> QED BY <1>3, <1>4, <2>1, <2>2 DEF Conflicts, Serial!Conflict
<1>8. CASE CommitPanic(t)
  <2>1. AssertsHold
    BY <1>1, CoverImpliesAsserts DEF DataInv, BookkeepingInv
  <2> QED BY <1>2, <1>8, <2>1 DEF CommitPanic, AssertsHold
<1>9. CASE CommitNoChange(t)
  <2>1. /\ txFinalize(t, "committed", version, history) /\ store' = store /\ version' = version
        /\ failed' = failed /\ unwritten' = unwritten /\ ~Conflicts(t) /\ TreeChanged(t) = {}
    BY <1>9 DEF CommitNoChange, Valid
  <2>2. Serial!Finish(t, "committed", store) /\ ClosedClean'
    BY <1>2, <1>5, <2>1, MapUnchanged
  <2>3. Transfer(t) = store
    <3>1. \A k \in Keys : Transfer(t)[k] = store[k]
      BY <2>1 DEF TreeChanged
    <3> QED BY <1>1, <3>1 DEF Transfer, TypeOK, Maps
  <2> QED BY <1>3, <1>4, <1>6, <2>1, <2>2, <2>3
         DEF Conflicts, Serial!Commit, Serial!Finish, Serial!Changed
<1>10. CASE CommitOk(t)
  <2>1. Serial!Finish(t, "committed", Transfer(t)) /\ ClosedClean' /\ ~Conflicts(t)
    BY <1>2, <1>10, MapCommitOk DEF CommitOk, Writing, Valid
  <2> QED BY <1>3, <1>4, <1>6, <2>1 DEF Conflicts, Serial!Commit, Serial!Finish, Serial!Changed
<1>11. CASE CommitUpdateError(t)
  <2>1. /\ txFinalize(t, "error", version, history) /\ store' = store /\ version' = version
        /\ failed' = TRUE /\ unwritten' = FALSE
    BY <1>1, <1>11 DEF CommitUpdateError
  <2>2. Serial!Finish(t, "error", store) /\ ClosedClean'
    BY <1>2, <1>5, <2>1, MapUnchanged
  <2> QED BY <2>2 DEF Serial!Rollback
<1>12. CASE CommitRewriteError(t)
  BY <1>12 DEF CommitRewriteError
<1>13. CASE Abort(t)
  <2>1. /\ txFinalize(t, "aborted", version, history) /\ store' = store /\ version' = version
        /\ failed' = failed /\ unwritten' = unwritten
    BY <1>13 DEF Abort
  <2>2. Serial!Finish(t, "aborted", store) /\ ClosedClean'
    BY <1>2, <1>5, <2>1, MapUnchanged
  <2> QED BY <2>2 DEF Serial!Rollback
<1> QED BY <1>7, <1>8, <1>9, <1>10, <1>11, <1>12, <1>13 DEF Commit

-----------------------------------------------------------------------------
(* Every step maps to a step or leaves the mapped state alone.             *)

LEMMA RefinementStep ==
    ASSUME "rewrite" \notin IOFaults, RefinementInv, [Next]_vars
    PROVE  RefinementInv' /\ [Serial!Next]_(Serial!avars)
<1>1. DataInv'
  BY DataStep DEF RefinementInv
<1>2. CASE UNCHANGED vars
  <2>1. UNCHANGED <<store, tx, history>>
    BY <1>2 DEF vars
  <2>2. \A t \in Tx : Dirty(t)' = Dirty(t)
    BY <2>1 DEF Dirty, Active, Newer
  <2>3. UNCHANGED Serial!avars
    BY <2>1, <2>2 DEF Serial!avars
  <2>4. ClosedClean'
    BY <2>1 DEF RefinementInv, ClosedClean, Active
  <2> QED BY <1>1, <2>3, <2>4 DEF RefinementInv
<1>3. CASE Next
  <2>1. PICK t \in Tx : Begin(t) \/ StmtStep(t) \/ Commit(t) \/ Abort(t)
    BY <1>3, NextCases
  <2>2. /\ ClosedClean'
        /\ \/ Serial!Begin(t) \/ Serial!Work(t)
           \/ Serial!Commit(t) \/ Serial!Conflict(t) \/ Serial!Rollback(t)
    BY <2>1, MapBegin, MapWork, MapEnd
  <2> QED BY <1>1, <2>2 DEF RefinementInv, Serial!Next
<1> QED BY <1>2, <1>3

\* Without a second fault while the meta page is rewritten the transactions
\* are serializable, for any number of transactions, keys, values and commits:
\* Commit succeeds on current data only, refuses exactly the updaters whose
\* data has changed, and everything else leaves the store as it was.
THEOREM TransactionsSerializable ==
    ASSUME "rewrite" \notin IOFaults
    PROVE  Spec => Serializable
<1>1. Init => RefinementInv
  <2>1. Init => ClosedClean
    BY DEF Init, ClosedClean, Closed
  <2> QED BY <2>1, InitData DEF RefinementInv
<1>2. RefinementInv /\ [Next]_vars => RefinementInv' /\ [Serial!Next]_(Serial!avars)
  BY RefinementStep
<1> QED BY MapInit, <1>1, <1>2, PTL DEF Spec, Serializable, Serial!Spec
=============================================================================
