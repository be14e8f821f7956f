------------------------------- MODULE KVTX -------------------------------
(***************************************************************************)
(* Transactions of the key-value store (db/transaction.go): a transaction  *)
(* reads from a snapshot taken by Begin, buffers its updates in an         *)
(* in-memory tree (pending), records the key ranges it depends on (reads), *)
(* and Commit validates those ranges against the writes of the             *)
(* transactions committed since (history) before it transfers the updates  *)
(* to the tree.  Begin, Commit and Abort hold KV.mutex from start to end,  *)
(* so each is one action; the other operations touch only their own        *)
(* transaction.                                                            *)
(*                                                                         *)
(* Data abstraction: a tree is a function from keys to values (NONE where  *)
(* absent) and the list of read ranges is the set of keys they contain     *)
(* (module KeyRanges checks the interval algorithm itself).  free.curVer   *)
(* is version + 1 whenever the free list uses it and is not kept here.     *)
(***************************************************************************)
EXTENDS Integers, FiniteSets, Sequences, SequencesExt

CONSTANTS
    Keys,        \* the keys in use; integers stand for the byte order of keys
    Vals,        \* the values of keys
    NONE,        \* no value
    DELETED,     \* FLAG_DELETED entry of the pending tree
    Tx,          \* KVTX objects (a finished one may be reused for a new one)
    IOFaults,    \* which steps of updateOrRevert may fail
    MaxVersion   \* bound: no commit moves KV.version past it

ASSUME KeysAssumption == Keys \subseteq Int /\ IsFiniteSet(Keys)
ASSUME ValsAssumption == NONE \notin Vals /\ DELETED \notin Vals /\ NONE # DELETED
ASSUME TxAssumption   == IsFiniteSet(Tx)
ASSUME BoundAssumption == MaxVersion \in Nat /\ IOFaults \subseteq {"update", "rewrite"}

VARIABLES
    store,      \* KV.tree as the writer reads it, through page.updates
    version,    \* KV.version
    ongoing,    \* KV.ongoing: snapshot versions of the open transactions
    history,    \* KV.history: <<[version, writes], ...>>, version ascending
    maxVer,     \* KV.free.maxVer: pages freed up to it may be reused
    failed,     \* KV.failed: did the last update fail?
    unwritten,  \* the tree has pages only page.updates holds
    tx          \* the KVTX objects, with the statement each one executes

vars == <<store, version, ongoing, history, maxVer, failed, unwritten, tx>>

Maps    == [Keys -> Vals \cup {NONE}]
Pending == [Keys -> Vals \cup {NONE, DELETED}]
NoKeys  == [k \in Keys |-> NONE]

\* Where a transaction is: "active" until Commit or Abort set KVTX.done, then
\* the outcome.  "panic" is an assertion failure inside Commit.
Outcomes == {"idle", "committed", "conflict", "error", "aborted", "panic"}

\* stmt is where execStmt is: "none" between statements, "open" after Save,
\* "error" when an operation of the statement has returned an error.
TxRecord == [status: Outcomes \cup {"active"}, version: Nat, snapshot: Maps,
             pending: Pending, reads: SUBSET Keys, updateAttempted: BOOLEAN,
             stmt: {"none", "open", "error"},
             saved: [pending: Pending, reads: SUBSET Keys]]

NotSaved == [pending |-> NoKeys, reads |-> {}]

\* A transaction object outside a transaction.
Closed(outcome) ==
    [status |-> outcome, version |-> 0, snapshot |-> NoKeys,
     pending |-> NoKeys, reads |-> {}, updateAttempted |-> FALSE,
     stmt |-> "none", saved |-> NotSaved]

\* The KVTX that Begin fills in.
Opened(snap) ==
    [Closed("active") EXCEPT !.version = version, !.snapshot = snap]

Active   == {t \in Tx : tx[t].status = "active"}
Running  == \A t \in Tx : tx[t].status # "panic"

Init ==
    \* a new file has version 0 and no tree, an existing one any content
    /\ store \in Maps
    /\ version \in {0, 1}
    /\ version = 0 => store = NoKeys
    /\ ongoing = <<>>
    /\ history = <<>>
    /\ maxVer = version
    /\ failed = FALSE
    /\ unwritten = FALSE
    /\ tx = [t \in Tx |-> Closed("idle")]

-----------------------------------------------------------------------------
(* Operators of the code.                                                  *)

versionBefore(a, b) == a < b

\* The value tx.Get returns: the pending update, else the snapshot.
GetVal(t, k) ==
    CASE tx[t].pending[k] = NONE    -> tx[t].snapshot[k]
      [] tx[t].pending[k] = DELETED -> NONE
      [] OTHER                      -> tx[t].pending[k]

\* Mutant: the flag byte of a pending value is not looked at.
TransferRaw(t) ==
    [k \in Keys |-> IF tx[t].pending[k] = NONE THEN store[k] ELSE tx[t].pending[k]]

\* The tree after Commit's loop has transferred the pending entries to it.
Transfer(t) ==
    [k \in Keys |-> CASE tx[t].pending[k] = NONE    -> store[k]
                      [] tx[t].pending[k] = DELETED -> NONE
                      [] OTHER                      -> tx[t].pending[k]]

\* Keys Commit's loop finds modified, which it decides from the snapshot...
Modified(t) == {k \in Keys : tx[t].pending[k] # NONE /\ GetVal(t, k) # tx[t].snapshot[k]}
\* ...and keys for which tree.Delete or tree.Update report a change.
TreeChanged(t) == {k \in Keys : Transfer(t)[k] # store[k]}

\* Both asserts of Commit's loop (deleted == modified, updated == modified).
CommitAsserts(t) == Modified(t) = TreeChanged(t)

\* Mutant: off by one, two open transactions count as one.
WritesUnlessTwo(t) == IF Len(ongoing) > 2 THEN Modified(t) ELSE {}

\* KeyRanges collected for history: only when another transaction is open.
Writes(t) == IF Len(ongoing) > 1 THEN Modified(t) ELSE {}

\* detectConflicts walks history from its end and stops at the first entry
\* that is not newer than the transaction.
Newer(t) == {i \in DOMAIN history :
                \A j \in i .. Len(history) : versionBefore(tx[t].version, history[j].version)}

\* Mutant: the walk starts one entry too early.
detectConflictsButNewest(t) ==
    \E i \in Newer(t) \ {Len(history)} : tx[t].reads \cap history[i].writes # {}

detectConflicts(t) == \E i \in Newer(t) : tx[t].reads \cap history[i].writes # {}

\* Mutants: the oldest entry is removed; the current version is released
\* whoever is reading; no open transaction releases nothing; history is kept
\* from the oldest version in use on, that version included.
FirstIndexOldest(s, v) == 1

MinVersionCurrent(ver, open) == ver

MinVersionOfOpen(ver, open) ==
    IF open = <<>> THEN 0
    ELSE CHOOSE v \in ToSet(open) : \A i \in DOMAIN open : v <= open[i]

TrimIndexInclusive(h, min) ==
    CHOOSE i \in 1 .. Len(h) + 1 :
        /\ \A j \in 1 .. i - 1 : h[j].version < min
        /\ i <= Len(h) => min <= h[i].version

\* txFinalize with the version and history that Commit or Abort leaves:
\* forget one occurrence of the transaction's version, release the free list
\* up to the oldest version in use, drop history not newer than it.
FirstIndex(s, v) == CHOOSE i \in DOMAIN s : s[i] = v /\ \A j \in 1 .. i - 1 : s[j] # v

MinVersion(ver, open) ==
    CHOOSE v \in {ver} \cup {open[i] : i \in DOMAIN open} :
        v <= ver /\ \A i \in DOMAIN open : v <= open[i]

TrimIndex(h, min) ==
    CHOOSE i \in 1 .. Len(h) + 1 :
        /\ \A j \in 1 .. i - 1 : ~versionBefore(min, h[j].version)
        /\ i <= Len(h) => versionBefore(min, h[i].version)

txFinalize(t, outcome, ver, hist) ==
    LET open == RemoveAt(ongoing, FirstIndex(ongoing, tx[t].version))
        min  == MinVersion(ver, open)
    IN  /\ ongoing' = open
        /\ maxVer' = min
        /\ history' = SubSeq(hist, TrimIndex(hist, min), Len(hist))
        /\ tx' = [tx EXCEPT ![t] = Closed(outcome)]

-----------------------------------------------------------------------------
(* Begin, and the statements of a transaction.                             *)

\* Snapshots read through the mmap only: pages that exist in page.updates
\* alone read as whatever the file holds at that place.
Begin(t) ==
    /\ Running /\ t \notin Active
    /\ \E snap \in IF unwritten THEN Maps ELSE {store} :
            tx' = [tx EXCEPT ![t] = Opened(snap)]
    /\ ongoing' = Append(ongoing, version)
    /\ UNCHANGED <<store, version, history, maxVer, failed, unwritten>>

\* The transaction may take a step of the statement it executes.
InStmt(t) == Running /\ t \in Active /\ tx[t].stmt = "open"

kvVars == <<store, version, ongoing, history, maxVer, failed, unwritten>>

\* execStmt starts: remember pending and reads.
Save(t) ==
    /\ Running /\ t \in Active /\ tx[t].stmt = "none"
    /\ tx' = [tx EXCEPT ![t].stmt = "open",
                        ![t].saved = [pending |-> tx[t].pending, reads |-> tx[t].reads]]
    /\ UNCHANGED kvVars

\* execStmt ends without error.
EndStmt(t) ==
    /\ InStmt(t)
    /\ tx' = [tx EXCEPT ![t].stmt = "none", ![t].saved = NotSaved]
    /\ UNCHANGED kvVars

\* execStmt ends with an error: of the store (a duplicate, or a key or value
\* over the limits), or of the statement itself.
Revert(t) ==
    /\ Running /\ t \in Active /\ tx[t].stmt # "none"
    /\ tx' = [tx EXCEPT ![t].stmt = "none", ![t].saved = NotSaved,
                        ![t].pending = tx[t].saved.pending,
                        ![t].reads = tx[t].saved.reads]
    /\ UNCHANGED kvVars

Get(t, k) ==
    /\ InStmt(t)
    /\ tx' = [tx EXCEPT ![t].reads = @ \cup {k}]
    /\ UNCHANGED kvVars

\* Both ends go into the range whatever the comparison is; an inverted range
\* contains nothing.
Seek(t, low, high) ==
    /\ InStmt(t)
    /\ tx' = [tx EXCEPT ![t].reads = @ \cup (Keys \cap (low .. high))]
    /\ UNCHANGED kvVars

\* KVTX.Update: an error for a duplicate insert, nothing where the value is
\* already there or there is nothing to update, else a pending entry.
Update(t, k, v, mode) ==
    LET old    == GetVal(t, k)
        dup    == mode = "INSERT_ONLY" /\ old # NONE
        noop   == (mode = "UPDATE_ONLY" /\ old = NONE) \/ old = v
    IN  /\ InStmt(t)
        /\ tx' = [tx EXCEPT ![t].updateAttempted = TRUE,
                            ![t].reads = @ \cup {k},
                            ![t].stmt = IF dup THEN "error" ELSE @,
                            ![t].pending[k] = IF dup \/ noop THEN @ ELSE v]
        /\ UNCHANGED kvVars

Del(t, k) ==
    /\ InStmt(t)
    /\ tx' = [tx EXCEPT ![t].updateAttempted = TRUE,
                        ![t].reads = @ \cup {k},
                        ![t].pending[k] = IF GetVal(t, k) = NONE THEN @ ELSE DELETED]
    /\ UNCHANGED kvVars

-----------------------------------------------------------------------------
(* Commit, by the way it ends, and Abort.                                  *)

InCommit(t) == Running /\ t \in Active /\ tx[t].stmt = "none"

\* Mutant: validation does not ask whether an update was attempted.
ConflictsReadersToo(t) == detectConflicts(t)

Conflicts(t) == tx[t].updateAttempted /\ detectConflicts(t)

\* The commit passes validation and its loop runs through.
Valid(t) == ~Conflicts(t) /\ CommitAsserts(t)

CommitConflict(t) ==
    /\ InCommit(t) /\ Conflicts(t)
    /\ txFinalize(t, "conflict", version, history)
    /\ UNCHANGED <<store, version, failed, unwritten>>

\* An assert fails: the deferred calls run and the program ends.
CommitPanic(t) ==
    /\ InCommit(t) /\ ~Conflicts(t) /\ ~CommitAsserts(t)
    /\ txFinalize(t, "panic", version, history)
    /\ UNCHANGED <<store, version, failed, unwritten>>

\* The root did not change: nothing is written.
CommitNoChange(t) ==
    /\ InCommit(t) /\ Valid(t) /\ TreeChanged(t) = {}
    /\ txFinalize(t, "committed", version, history)
    /\ UNCHANGED <<store, version, failed, unwritten>>

\* The root changed: updateOrRevert is called with the next version.
Writing(t) == InCommit(t) /\ Valid(t) /\ TreeChanged(t) # {} /\ version < MaxVersion

CommitOk(t) ==
    /\ Writing(t)
    /\ store' = Transfer(t)
    /\ version' = version + 1
    /\ failed' = FALSE
    /\ unwritten' = FALSE
    /\ txFinalize(t, "committed", version + 1,
                  IF Writes(t) = {} THEN history
                  ELSE Append(history, [version |-> version + 1, writes |-> Writes(t)]))

\* updateFile fails: the meta data saved before the loop is loaded again and
\* page.updates is discarded.  A tree that still had unwritten pages loses them.
CommitUpdateError(t) ==
    /\ Writing(t) /\ "update" \in IOFaults
    /\ store' \in IF unwritten THEN Maps ELSE {store}
    /\ failed' = TRUE
    /\ unwritten' = FALSE
    /\ txFinalize(t, "error", version, history)
    /\ UNCHANGED version

\* Rewriting the meta page after an earlier failure fails: the early return
\* skips the revert, so the tree, the version and page.updates stay changed.
CommitRewriteError(t) ==
    /\ Writing(t) /\ failed /\ "rewrite" \in IOFaults
    /\ store' = Transfer(t)
    /\ version' = version + 1
    /\ unwritten' = TRUE
    /\ txFinalize(t, "error", version + 1, history)
    /\ UNCHANGED failed

Abort(t) ==
    /\ InCommit(t)
    /\ txFinalize(t, "aborted", version, history)
    /\ UNCHANGED <<store, version, failed, unwritten>>

Commit(t) ==
    \/ CommitConflict(t)
    \/ CommitPanic(t)
    \/ CommitNoChange(t)
    \/ CommitOk(t)
    \/ CommitUpdateError(t)
    \/ CommitRewriteError(t)

Next ==
    \E t \in Tx :
        \/ Begin(t) \/ Save(t) \/ EndStmt(t) \/ Revert(t)
        \/ \E k \in Keys : Get(t, k) \/ Del(t, k)
        \/ \E low, high \in Keys : Seek(t, low, high)
        \/ \E k \in Keys, v \in Vals, mode \in {"UPSERT", "UPDATE_ONLY", "INSERT_ONLY"} :
                Update(t, k, v, mode)
        \/ Commit(t) \/ Abort(t)

Spec == Init /\ [][Next]_vars

-----------------------------------------------------------------------------
(* Properties.                                                             *)

\* Every variable has its type: the shape of the KV and KVTX structs.
TypeOK ==
    /\ store \in Maps
    /\ version \in Nat
    /\ ongoing \in Seq(Nat)
    /\ history \in Seq([version: Nat, writes: SUBSET Keys])
    /\ maxVer \in Nat
    /\ failed \in BOOLEAN
    /\ unwritten \in BOOLEAN
    /\ tx \in [Tx -> TxRecord]

\* Whatever an open transaction's snapshot no longer shows is in a history
\* entry that detectConflicts looks at: neither the shortcut that records no
\* writes while a single transaction is open, nor the trimming of history in
\* txFinalize, nor a failed update loses a change somebody must validate
\* against.
HistoryCovers ==
    \A t \in Active, k \in Keys :
        tx[t].snapshot[k] # store[k] => \E i \in Newer(t) : k \in history[i].writes

\* The asserts in Commit's loop cannot fail: for a transaction that passes
\* validation, what its snapshot says is modified is what the current tree
\* reports as changed, although the two trees differ elsewhere.
AssertsHold == \A t \in Active : ~Conflicts(t) => CommitAsserts(t)

\* The entries of s belong to the members of A, one each.
Owned(s, A, base) ==
    \E pos \in Bijection(A, DOMAIN s) : \A t \in A : s[pos[t]] = base[t]

\* KV.ongoing holds the version of each open transaction once per
\* transaction and nothing else, although txFinalize removes the first equal
\* version and not its own entry: slices.Index never returns -1.
OngoingMatches == Owned(ongoing, Active, [t \in Tx |-> tx[t].version])

\* History is bounded by the open transactions: every entry is newer than
\* the snapshot of one of them, so nothing is kept that nobody can conflict
\* with and all of it is gone when the last transaction ends.
HistoryNeeded ==
    \A i \in DOMAIN history : \E t \in Active : tx[t].version < history[i].version

\* Pages that an open snapshot may still read are not released: a page freed
\* by the commit of version v is in every snapshot older than v, so the free
\* list must not be released past the version of any open transaction.
SnapshotPagesKept == \A t \in Active : maxVer <= tx[t].version

\* The versions of the open transactions lie between maxVer and version.
VersionsOrdered ==
    /\ maxVer <= version
    /\ \A t \in Active : maxVer <= tx[t].version /\ tx[t].version <= version

\* 'kv.history' is sorted in 'version ASC' order, up to the current version.
HistoryAscending ==
    /\ \A i \in DOMAIN history : history[i].version <= version
    /\ \A i, j \in DOMAIN history : i < j => history[i].version < history[j].version

\* An entry of the pending tree, now or when the statement began, is covered
\* by a read range, and the transaction is subject to validation.
PendingDepends ==
    \A t \in Tx, k \in Keys :
        /\ tx[t].pending[k] # NONE => k \in tx[t].reads /\ tx[t].updateAttempted
        /\ tx[t].saved.pending[k] # NONE
              => k \in tx[t].saved.reads /\ tx[t].updateAttempted

\* The bookkeeping invariant holds whatever fails; the data invariant rests
\* on the tree always being on file.
BookkeepingInv == TypeOK /\ OngoingMatches /\ VersionsOrdered /\ HistoryAscending /\ HistoryNeeded

DataInv == BookkeepingInv /\ ~unwritten /\ Running /\ PendingDepends /\ HistoryCovers

\* The limit given to free.SetMaxVer never moves back, over commits, aborts
\* and failed updates that revert KV.version.
ReleaseMonotone == [][maxVer <= maxVer']_vars

\* The transactions implement the serial store.  Of the versions and the
\* history the abstraction only keeps which keys changed behind a
\* transaction's back.
Dirty(t) == IF t \in Active THEN UNION {history[i].writes : i \in Newer(t)} ELSE {}

Serial == INSTANCE SerialKV WITH
    state   <- [t \in Tx |-> tx[t].status],
    snap    <- [t \in Tx |-> tx[t].snapshot],
    view    <- [t \in Tx |-> tx[t].reads],
    updater <- [t \in Tx |-> tx[t].updateAttempted],
    writes  <- [t \in Tx |-> tx[t].pending],
    dirty   <- [t \in Tx |-> Dirty(t)]

\* Refinement: an updating transaction commits if and only if nothing it
\* depends on was changed by a commit since Begin, on data that is current,
\* and every other way out leaves the store as it was.
Serializable == Serial!Spec
=============================================================================
