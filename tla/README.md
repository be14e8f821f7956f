# Verification of mini-database

TLA+ models of the whole program, from the prompt to the database file: the
statement scanner and the parser, the executor, tables and indexes as encoded
keys, optimistic transactions, the commit protocol, the free list, the B+tree
and its iterators. TLC checks them on small instances; TLAPS proves the core
results about transactions, the free list, the file, encoded keys, range reads,
the catalogue of tables and the prompt for every number of keys, transactions,
pages, columns, tables, commits, faults and crashes.
`PROJECT.json` lists runs, mutants, hazards, findings, and for each definition
the source lines it stands for.

## The system

`[QL] -> [QL Parser] -> [QL Executor] -> [Table & Index] -> [KV Store] -> [B+Tree]`,
each layer calling the next.

| Part | State | Operations | What is hard |
|---|---|---|---|
| `transaction.go` KVTX | `KV.version`, `ongoing`, `history`, `free.maxVer`; per transaction `snapshot`, `version`, `pending`, `reads`, `updateAttempted`, `done` | Begin, Get, Seek, Update, Set, Del, Save, Revert, Commit, Abort | goroutines interleave between the mutex-protected Begin, Commit and Abort; validation against a trimmed history; commits that fail |
| `transaction.go` key ranges | two sorted lists, two indices | detectConflicts, sortedRangesOverlap | ranges nest, repeat, may be inverted |
| `transaction.go` CombinedIter | two tree iterators | Deref, Next, Valid | deleted keys of the pending tree |
| `kv.go` pages and meta page | `page.flushed`, `nappend`, `updates`, `failed`, the file | pageRead/Alloc/Append/Write, updateFile, updateOrRevert, Open | order of writes and syncs, failing writes and syncs, crashes |
| `free_list.go` | `headPage/Seq`, `tailPage/Seq`, `maxSeq`, `maxVer`, `curVer`, list nodes | PopHead, PushTail, SetMaxVer | stored in the pages it manages; readers, failed commits and crashes limit reuse |
| `btree.go` | `root`, nodes in pages | Update, Delete, Get | copy-on-write, splits and merges at every level, nodes that must fit a page |
| `btree_iter.go` | path and positions | SeekLE, Seek, Next, Prev | moving over node ends |
| `table.go` | schema cache, rows and indexes as keys | Get, Set, Delete, Scan, TableNew | several keys per row; cache shared by transactions |
| `ql_exec.go` | executor's active transaction, scan position | ExecStr, execStmt, scans | statement atomicity, auto-commit, offset and limit |
| `ql_parse.go`, `cmd/ql.go` | parser and scanner positions, line buffer | Parse, NextStmtStr, the prompt loop | incomplete input |
| `file.go` | none | createFileSync | none beyond the directory sync |

What makes each part correct: transactions are serializable and never fail an
assert; readers keep every page of their snapshot; each page is in the tree, in
the free list or a node of it, and in one place only; after a crash the file
holds a whole tree no older than the last acknowledged commit; the B+tree is a
map whose nodes fit their pages; iterators visit keys in order, each once.

The rows of a select are those of its table as the transaction sees it, in the
order of the index; a statement does all that it means or nothing; rows and
index entries agree in every state that a transaction can see; concurrent
creates never share key prefixes; the schema cache holds committed schemas
only; filters are parsed as the grammar says; the prompt executes exactly the
complete statements and tells the truth about the transaction.

## Modules

Which module builds on which:

```
KeyRanges          SerialKV <- KVTX             FreeList <- PageStore
OrderedMap <- BTree <- BIter
KeyEncoding <- CombinedIter <- Tables <-+
KeyEncoding <- QLEval <- QLParse <------+- QLScan <- Select
                                                  <- Statements <-+- Executor
                               Tables <- Catalog <----------------+
Prompt
```

`MC...` modules give constants their values. A layer that another one relies on
appears there by what it promises: `PageStore` has a tree without keys,
`CombinedIter` has maps where the code has trees (`BTree`, `BIter`), `Executor`
commits as `SerialKV` does, `Prompt` has the outcomes that `Executor` allows.
Theorems are in modules of their own: `KVTX_proofs` and, on it,
`KVTX_refinement`; `KeyRanges_proofs`; `FreeList_proofs` and, on it,
`PageStore_proofs`; `Tables_proofs` and, on it, `Catalog_proofs`; `Prompt_proofs`.

### Transactions: `KVTX`, `SerialKV`

One variable per field of `KV` that transactions use, and `tx`, the `KVTX`
objects. Begin, Commit and Abort hold `KV.mutex` from start to end, so each is
atomic; `Commit` is split by the way it ends (`CommitConflict`, `CommitPanic`,
`CommitNoChange`, `CommitOk`, `CommitUpdateError`, `CommitRewriteError`), and
all of them include the deferred `txFinalize`. `Save`, `EndStmt` and `Revert`
are the frame that `execStmt` puts around a statement. `Revert` may happen at
any point of a statement: statements also fail on their own, and the limits on
key and value size that `pending.Update` enforces lead to the same states.

A tree is a function from keys to values and the read ranges are the set of
keys in them; the interval algorithm is checked separately in `KeyRanges`.
`unwritten` says that the tree has pages that only `page.updates` holds, which
happens only after `updateOrRevert` left through an early return. The mmap then
does not show these pages and a snapshot may read anything.

`SerialKV` is the promise: an updating transaction commits exactly when none of
the keys it depends on was changed since it began, hence on data that is
current; any other end leaves the store unchanged. `Serializable` states that
`KVTX` implements it under the mapping `Serial`. Read-only transactions are not
validated: they see one committed state, the one at their Begin.

### Key ranges: `KeyRanges`

The sort of the read ranges and the loop of `sortedRangesOverlap`, one action
per branch, on one history entry. Writes of a commit are single keys, as
`Commit` makes them. `Sort` takes any sorted arrangement, because
`slices.SortFunc` is not stable.

### Pages: `FreeList`, `PageStore`

`FreeList` holds `free_list.go` and the page callbacks of `kv.go` as operators
on a record; `PageStore` has the actions: transactions that read (`BeginRead`,
`EndRead`), the commit in memory (`StartCommit`, `TreeOp`, `RootOp`,
`EndTree`), and the steps of `updateOrRevert` on the file, one action per write
and sync. `file` is what reads see; `disk` gives for each page the contents a
crash may leave: a write adds one, a sync leaves only the written one, and a
failed sync settles nothing although the kernel considers the pages clean.
Writes of one page are atomic (the meta data has 72 bytes).

A B+tree is its root and the set of its pages; an update replaces, adds or
removes pages below the root in any way and ends with the root. `BTree` has the
details. The transaction that commits is not a reader of its own: to hold an
old snapshot while it commits it is a reader that ends right after.

`Cap` is `FREE_LIST_CAP`, 255 in the code and 2 in the runs, so that list nodes
fill up, link, empty and are recycled within a few commits. The list as a whole
is read off by sequence number: `NodeAt` follows `next` from the head to the
tail, `Items` is what lies in the slots.

### B+tree: `BTree`, `OrderedMap`, `BIter`

`BTree` transcribes Update and Delete with splits, merges and page callbacks;
bytes are counted exactly, key and value lengths are parameters. Keys are
integers, the sentinel is 0. `OrderedMap` is the abstract map with the answers
that requests get; `ImplementsMap` is the refinement. `BIter` defines iterators
as functions of the tree; its properties are evaluated in each state of `BTree`.
`Modes` is the set of modes callers use: both `Commit` and the pending tree call
`tree.Update` with `MODE_UPSERT` only. (With `UPDATE_ONLY` an empty tree would
get a key; no caller does that.)

### Keys, rows and scans: `KeyEncoding`, `CombinedIter`, `Tables`, `QLEval`, `QLParse`, `QLScan`, `Select`

Pure code, as operators that return what they change; `Then(result, LAMBDA r :
...)` names the result of one call for the next one. `KeyEncoding` is the
encoding of keys and values byte by byte (integers have `IntBytes` bytes, 8 in
the code; the four bytes of a prefix are one element). `CombinedIter` is one
transaction on such keys, with the iterator over pending updates and snapshot. In a
tree of three or more levels `Next` from the last key goes back to an earlier one
and `Seek` past it panics (see the known limits); `CombinedIter`, which has no pages,
takes from the constant `BackTo` which maps are held in such trees and where `Next`
goes then, and follows the panic up to the statement. The few rows of the runs fit in
one node, so there `BackTo` is empty; the theorems are for every `BackTo`.
`Tables` is `table.go`. `QLEval` evaluates expressions, wrapping around at the
width of an integer. `QLParse` is the recursive descent parser, on text made of
words, digits and marks; `Spelling` gives the bytes of a word. `QLScan` turns
conditions into a scan and runs it.

`Select` follows one select through all of them: `Read` parses the text, `Open`
is `execSelect`, `PrintRow`, `PrintError` and `PrintDone` are the loop of
`printRecords`. What is printed is compared with what the request means on sets
of rows, without keys, iterators or counters (`meaning`). The grammar of
expressions is stated a second time as the set of all trees that a sequence of
words can have (`trees`), and the parser has to find the only one.

### Statements and sessions: `Statements`, `Catalog`, `Executor`

`Statements` has execCreateTable, execInsert, execUpdate and execStmt; a delete,
and a select that is read to its end, are `scanRows`. The loop over the rows
writes through the iterator made at the start, as the code does.

`Catalog` has the sessions on one database: they begin, commit and roll back
transactions, share the committed keys and the cache of schemas, create tables and
look schemas up, by the code's own `TableNew` and `getTableDef`. Of every other
statement it says only what that may do to the tables `@meta` and `@table`: depend
on more, write rows and indexes, leave the catalogue alone (`rowsOnly`), put one
schema into the cache (`lookedUp`). It is small enough to be reasoned about.
`Executor` has all the statements, and implements `Catalog` (`ImplementsCatalog`):
an insert, update, delete or select, whatever it does to its rows, is one of these
statements. Begin and Commit are atomic and a statement works on
its snapshot, so one statement is one step; the cache is the only thing that it
shares. In auto-commit mode the commit is a step of its own (`mode = "auto"`).
Every text is parsed once, at the start. The meaning of a statement on the rows
of its table is given with it.

### The prompt: `Prompt`

The loop of `repl`: `ReadLine`, then one action per result of `NextStmtStr`
(`ScanStmt`, `ScanIncomplete`, `ScanEmpty`, `ScanDone`), then `Exec` for each
statement and `Reset`. A statement is what the parser makes of it: BEGIN,
COMMIT, ROLLBACK, another one, or an error; outcomes are nondeterministic where
they depend on data.

## Runs

| Run | Shows | Bounds |
|---|---|---|
| `transactions` | `HistoryCovers`, `AssertsHold`, `Serializable` | 2 transactions, 2 keys, 1 value, versions up to 2, failing commits |
| `bookkeeping` | `TypeOK`, `OngoingMatches`, `SnapshotPagesKept`, `HistoryNeeded`, `ReleaseMonotone` | 3 transactions, 1 key, versions up to 2, every fault |
| `key_ranges` | `OverlapCorrect`, `Answers` | all lists of up to 3 ranges and 2 writes over 4 keys |
| `pages` | `TreeIntact`, `PagePartition`, `ReaderPagesKept` | 4 commits, 1 reader, 2 faults, the rewrite of the meta page included |
| `crash` | `AllocFresh`, `TypeOK`, `ReaderPagesIntact`, `CrashSafe`, `AckedDurable` | 3 commits, 2 readers, 1 fault, 1 crash after the first commit |
| `btree` | `TypeOK`, `NoPanic`, `PagesAccounted`, `Balanced`, `ImplementsMap`; in each tree `NextIsSuccessor`, `PrevIsPredecessor`, `SeekCorrect` | 6 keys of 1000 bytes, values of 0 and 3000 bytes, three levels |
| `scans` | `ScanCorrect`, `PhantomsSeen`, `FilterParsed` | all pairs of rows over 5 strings and 2 integers with 55 ranges; up to 3 rows in snapshot and pending writes with 17 ranges, 7 filters, 5 limits, 2 outputs; 11000 filter texts of up to 5 words |
| `tables` | `IndexesAgree`, `SchemasSound`, `PrefixesDisjoint`, `CacheTrue`, `StatementCorrect`, `ImplementsCatalog`, `TablesKept` | 2 sessions, 3 statements out of 12 on 3 tables, 3 databases to start with |
| `prompt` | `PromptTrue`, `BatchComplete`, `PromptReturns` | all lines of up to 3 pieces, 5 tokens of input at a time |

Why the bounds are enough to be of interest. Two transactions conflict, three
are needed for an old one to keep history alive while others come and go with
equal versions. Two keys let a transaction read one and write the other. Four
commits fill and recycle list nodes of capacity 2 several times. Four keys of
1000 bytes fill a page, so six keys with values of 0 or 3000 bytes give trees
of three levels, all merges in both directions and the split into three. The
page bounds (`MaxPages`) are never met: without the guard `Room` of `TreeOp` and
`RootOp` the runs reach the same states. The
strings of `scans` have the bytes that are escaped, the greatest byte, and
prefixes of one another, the integers both signs, and integers of one byte make
overflow happen; the table of these rows does not begin with its primary key.
Three statements are enough for a create in each session, for an error in the
second statement of a transaction that then goes on and commits, and for a
change between the read and the commit of another transaction. Five tokens hold
two statements, or one in three lines, with quotes.

Reductions. `TxSymmetry` and `ReaderSymmetry`: transaction objects and readers
are interchangeable and no liveness is checked with them. `OneStatement`:
operations inside a statement touch only their own transaction, so overlapping
statements reach the states of statements run one after the other. `VIEW Shape`
identifies trees that differ in page numbers and in the last request only: both
have no influence on what an operation does.

Deadlock checking is off where the program really stops: after a panic
(`bookkeeping`) and when the walk has its answer (`key_ranges`). `Executor`,
`Select` and `Prompt` have a step that stands for having ended.

Fairness is assumed for `KeyRanges` and `Prompt`: both are sequential code in
one goroutine, so weak fairness of the next step is what Go's scheduler gives.
In `Prompt` it covers the steps of the program only, not `ReadLine` and `Quit`:
nobody has to type. The other models claim safety only.

### Disagreements found

Each of these runs checks one property that a comment, an assert or the
README states, and TLC finds a counterexample.

| Run | What the code does |
|---|---|
| `rewrite_fault_then_crash` | a commit fails, then the rewrite of the meta page fails (`kv.go:307`): nothing is reverted, the next commit writes a meta page that points to pages not on file, and a crash finds no tree |
| `deleted_rows` | an iterator over pending updates and snapshot does not look at the flag of an entry (`transaction.go:300`): after a delete in the same transaction a scan meets the deleted row and an assert fails, and after an update of an indexed column it meets the row twice |
| `limit_size` | rows skipped by the offset use up the count (`ql_exec.go:430`): `limit 1, 2` prints one row, `limit 2, 1` all after the second |

Without a crash the same early return at `kv.go:307` leaves updates in the tree
that no history entry has, and a later commit fails an assert: this is how
`CommitPanic` happens in the run `bookkeeping`.

`CrashSafe`, `AckedDurable` and `AllocFresh` are checked with
`RewriteFaults = FALSE`, the first two from the first successful commit on, for
the reasons given here and below; `HistoryCovers`, `AssertsHold` and
`Serializable` are checked for faults in `updateFile` only. The proofs assume the
same.

### Known limits

Configurations that are not among the runs and reproduce a counterexample each
(`tlc -config <file> <module>`):

| Configuration | Property | What the code does |
|---|---|---|
| `MCPageStoreFirst.cfg` (`MCPageStore`) | `Reopens` | a crash in the first commit, pages written and meta page not: the file can no longer be opened (`kv.go:235`) |
| `MCBIterEnd.cfg` (`MCBTree`) | `NextPastLast` | in a tree of three levels `Next` never gets past the last key (`btree_iter.go:84`); a commit that walks such a pending tree, and a forward scan up to the last key, do not end |
| `MCBSeekEnd.cfg` (`MCBTree`) | `SeekPastLast` | for the same reason a `Seek` with `>=` or `>` past the last key ends at a key that is not in the relation and its assert fails (`btree_iter.go:158`); a point read of a row is such a Seek (`table.go:393`) |
| `MCExecutorOwn.cfg` (`MCExecutor`) | `KeysAgree` | BEGIN, CREATE u and INSERT into u leave the schema of u in the cache (`table.go:360`); before the commit or after a rollback an INSERT into u of its own commits keys under a prefix that no committed table has, and the next CREATE takes this prefix again |
| `MCBTreeSplit.cfg` (`MCBTree`) | `NoPanic` | a long key among short ones makes a split whose left part still does not fit (`btree.go:282`) |
| `MCBTreeDelete.cfg` (`MCBTree`) | `DeleteFits` | a delete replaces the first key of a kid by a longer one and the parent outgrows its page (`btree.go:471`) |
| `MCPromptEmpty.cfg` (`MCPrompt`) | `BackToPrompt` | an empty statement is reported and not consumed (`ql_parse.go:893`); the loop, which calls this a no-op (`cmd/ql.go:80`), asks for it again for ever |

Conditions under which properties are checked, because they fail otherwise:

* `AllocFresh`: after a failed rewrite of the meta page, pages that the failed
  commit has taken are taken again.
* `TreeIntact`, `PagePartition` and `ReaderPagesKept`: with two faults, of which one
  may be in the rewrite of the meta page. After a commit that failed, one whose
  rewrite failed and a third one that fails on the pages, `updateOrRevert` returns
  to meta data whose pages were in `page.updates` only, and discards these
  (`MaxFaults = 3`). Without faults in the rewrite they are proved for any number.
* `CacheTrue`: with `UseOwnTable = TRUE` a transaction that uses the table it has
  created leaves its schema in the cache, also when it is rolled back
  (`table.go:360`). (The other direction is harmless: a transaction may use, by
  the cache, a table committed after it began, and finds it empty.)
* `IndexesAgree`: only as long as every cached schema is that of a committed table,
  which the formula says (`CacheTrue => KeysAgree`) and `UseOwnTable = FALSE` ensures
  in the run. Without the condition `MCExecutorOwn.cfg` refutes it. The other
  properties of `tables` but `CacheTrue`, and `IndexesAgree` as it is stated, also hold
  with `UseOwnTable = TRUE` at the same bounds.
* `SeekCorrect`: not for `>=` and `>` past the last key of a tree of three or more
  levels (`PastLast`, see the table).
* `ScanCorrect` and `StatementCorrect`: for scans in a transaction that has
  deleted nothing (the run `deleted_rows`). Their limit is the code's, from
  offset + 1 to count.
* Tables that are written to in `tables` begin with their primary key. `execUpdate`
  puts values of a stored row, which begins with the primary key, at the positions
  of the schema (`ql_exec.go:629`), and `dbDelete` pairs columns and values the same
  way (`table.go:665`): with other tables the wrong column is updated or an assert
  fails.
* A column named twice in CREATE TABLE is refused within an index only (`table.go:418`);
  no definition of the runs has one.
* UPDATE of a table that does not exist reads a nil schema (`ql_exec.go:601`):
  `execUpdate` has the panic, no statement of the run does it.
* `FilterParsed`: `and`, `or` and `not` are not in `keywordSet`, so a column `notes`
  is read as NOT es, against the comment at `ql_parse.go:223`.
* `Prompt` joins lines without a separator, as `cmd/ql.go:68` does, and its text
  has no backslash: the scanner does not know escaped quotes, the parser does.

## Proofs

`KVTX_proofs`, for any finite sets of integer keys and of transactions, any
values, any bound on versions:

* `Bookkeeping`: `Spec => []BookkeepingInv`, with every fault. `BookkeepingInv`
  adds to `TypeOK`, `OngoingMatches` and `HistoryNeeded` that versions lie
  between `maxVer` and `version` and that the history ascends. `OngoingMatches`
  says that some bijection assigns the entries of `ongoing` to the open
  transactions; it is what makes "remove the first equal version" harmless and
  it cannot be dropped, as the minimum computed by `txFinalize` ranges over
  `ongoing` while the properties speak of transactions. Every action is either
  local to a transaction (`LocalKeeps`), a Begin (`BeginKeeps`), or an end of a
  transaction (`EndIsFinalize`, `FinalizeKeeps`).
* From it: `TypeCorrect`, `SnapshotSafety`, `OngoingTrue`, `HistoryTrimmed`, and
  `ReleaseNeverMovesBack`, whose step uses that the old `maxVer` is a lower bound
  of all versions.
* `ValidationSound` and `CommitNeverPanics`, assuming that the rewrite of the
  meta page does not fail (`"rewrite" \notin IOFaults`; without the assumption
  `CommitPanic` does happen). `DataInv` adds that
  the tree is always on file, that a pending entry is always covered by a read
  range (`PendingDepends`, the reason why validated transactions write on current
  data), and `HistoryCovers`. `CommitAsserts` follows from the last two for a
  transaction without conflict (`CoverImpliesAsserts`).

`KeyRanges_proofs`: `OverlapDecided`, for lists of any length over any integer
keys. `WalkInv` adds that all pairs the two indices have passed are apart; this
holds although the ends of the read ranges are not sorted, because a write is
skipped only when it lies before the start of the current range, hence before
the starts of all later ones.

`KVTX_refinement`: `TransactionsSerializable`, `Spec => Serializable`, with the same
assumption on the rewrite. Under the mapping `Serial` Begin, the operations and
the ends of a transaction are each a step of `SerialKV` or leave it unchanged.
`DataInv` is what the commit needs: without conflict nothing that the transaction
depends on has changed (`HistoryCovers`), so what it writes, it writes on current
data, and a commit that finds no change in the tree has none to make.

`FreeList_proofs` and `PageStore_proofs`, for any set of readers, any number of
pages, commits, replaced pages, faults and crashes, and any capacity of a list node
above 1 (`BoundsAssumption`, `CapAssumption`: the code has 255; with a capacity of 1
the first item of a new tail node would fill it at once). All theorems assume
`~RewriteFaults`: the exit at `kv.go:307` breaks them (see above). The bound on
pages enters by `Room` only, so the results say nothing of a file that cannot grow.

`TreeIntact` alone is not inductive: whether a page that is allocated now was in use
depends on the whole list, and what a crash or a revert brings back is an older
list in the same pages. The invariant therefore describes the list by two functions
on sequence numbers, `L[q]` the node that holds slot `q` and `I[q]` the item in it.
One pair covers the list from the head that Commit saved to the tail in memory, so
that the saved list and the one in memory are two windows on it.

* `Stored(m, C, L, I)`: the meta data `m` lead to a whole store if each page has any
  of the contents `C` allows: `Chain` (the nodes are linked), `Filled` (the slots
  hold the items), `TreeOn` (the tree's pages are its own), and `Parts`, the
  partition of all pages among tree, nodes and items.
* `Mem`: the same of the store in memory, read through `page.updates` (`View`),
  while the saved store stays `Stored` for every mixture of old and new pages
  (`Mix`), because each page written is `Writable`: the saved tail node, a page
  taken from the head, or one appended. `Moved` relates the two windows: items taken
  have a version up to `maxVer`, items added are of `curVer`, no page of the saved
  tree has been lost. Two sets stand for the pages an operator holds in its hands.
  Each operator of `free_list.go` is a lemma on `Mem` (`PopMem`, `PushMem`,
  `LinkMem`, `NewTailMem`, `PushTailMem`, `PopHeadMem`, `AllocMem`).
* `Serves`: a page of a snapshot is one of the tree, or on the list with a version
  above that of the snapshot, which `flPop` does not take.
* `Metas`: every meta page on disk leads to a whole store, for all contents that its
  pages may have on disk, and while `failed` is not set no other is left than that
  of the last commit and, before the last sync, of this one. This is why a failed
  commit has to rewrite the meta page before it reuses pages.

`StoreIsWhole` proves `StoreInv`, the conjunction of these with types, versions and
what has been written at each step, with one lemma per action. (TLC cannot evaluate
it, since `L` and `I` are functions on all naturals; its consequences are in the
runs.) From it follow
`StoreTypes`, `TreeStaysIntact`, `SnapshotsIntact`, `SnapshotsKept`,
`CrashLeavesTree`, `CommitsDurable`, `AllocationsFresh`, and `NoPageLost`. For the
last one `ListRead` shows that `NodeAt` and `Items` read `L` and `I` back from the
pages. `CrashLeavesTree` and `CommitsDurable` also hold before the first commit has
succeeded; only that the file can be opened (`Reopens`) does not.

`Tables_proofs`, about the operators that the tables are made of:

* `ScanInOrder` and `ScanStarts`: the iterator that merges pending tree and snapshot
  (`CombinedIter`) starts on the first key of the range in the direction of the scan,
  and Next moves it to the next key of the two together, the pending entry hiding the
  one below. `Stands` is the invariant: which of the two positions, at the top and at
  the bottom, is the current one, and that the other is not behind it. (Deleted entries
  are among these keys: see `deleted_rows`.) The trees may have any height, with the
  exceptions that the code makes at three levels: `ScanInOrder` leaves out the forward
  step from the last key of such a tree (`GoesOn`), and `ScanStarts` says that Seek
  fails its assert exactly when it asks for keys past the last one of such a tree
  (`Stuck`). Both follow from the definition of iterators over maps; that the trees do
  what it says is checked in `btree`.
* `GetKeyFinds`: the range from a key to the key with `ff` after it, which a point
  read scans, holds this key only, as every encoded key is `Terminated`; the read
  panics exactly when one of the two trees is `Stuck`.
* `KeysOrdered`: for rows of the same column types `Compare` on the encoded keys is
  the order of the rows, column by column, and the encoding is injective. `Decides`
  is the relation under it: two strings differ at a place, or one ends where the
  other goes on, in a way that nothing put behind them changes. Each encoded column
  decides against any other value of its type (`StringOrder`, `IntOrder`), hence so
  does the concatenation at the first column that differs (`FlattenDecides`).
* `RangeExact`: a key lies in the range that `encodeKeyPartial` makes of two ends,
  of some first columns or of all, if and only if it is of this table or index and
  its row is `Within` both ends.
* `KeysDecoded`: `decodeKey` of an encoded key gives the columns of the row, in
  order, and leaves nothing over.
* `RowUpdated` and `RowDeleted`: rows and indexes stay in agreement. `Holds(tdef, tx, S)`
  says that a transaction sees exactly the rows `S` in a table: every row has its key
  and one entry in each index, with the right values, and no other key has a prefix of
  the table. From such a transaction `dbUpdate` leads to `Holds` of the set in which the
  new row replaces the one with its primary key, in all three modes, with the counts
  `updated` and `added` that belong to it, and `dbDelete` to `Holds` of the set without
  the row; nothing changes where they report no change, and the assertions in `indexOp`
  do not fail. `DoneTo` is the invariant of the loop over the indexes: those done have
  their entry, or have lost it, and no other key is touched. That an entry to be
  added is not there rests on the old entries having gone before (an index column may
  be unchanged) and on entries of rows with different keys being different, which is
  `KeysOrdered` with the primary key in every index; that the old entries are found
  rests on `KeysDecoded` and `ValuesDecoded`.
* `OthersKept`: what `dbUpdate` and `dbDelete` leave `Apart` keeps `Holds` of any table
  without a common prefix, and `PrefixesStayDisjoint` says that there are no others.

These take a schema that is `SchemaOK`. That TableNew makes such schemas is the
invariant `SchemasSound` of the run `tables` and not proved: `SelectSeq` is opaque to
the prover. `RowDeleted` takes one whose columns start with the primary key, the limit
of the code described above. A table of which a column is named twice, which
`tableDefChecK` does not refuse, is not `SchemaOK`.

`IntBytes` is any number above 0 and integers are those of so many bytes (`Int64`),
so the results hold for the 8 bytes of the code; strings and rows have any length.
The operators are recursive functions. Where induction is needed it is done on the
set of counterexamples up to the length at hand: if it is not empty it has a least
element (`LeastNat`), which the step rules out. No theorem with an operator parameter
is used.

`Catalog_proofs`, for any finite set of sessions, any names, any definitions, any
databases with a catalogue to start with (`CatalogAssumption`) and any statements:

* `CatalogInvariant`: `CatalogSpec => []CatalogInv`. `PrefixesDisjoint` alone is not
  inductive: a commit adds tables that a transaction has created on its snapshot, and
  one that it did not see may have been committed since. The invariant says of an open
  transaction that what it has created is new to its snapshot and has prefixes between
  the counter it found and the one it leaves (`NewTable`), that for each key of the
  catalogue it writes, the key itself is in its dependencies (`Noticed`), and that its
  snapshot differs from the database in `dirty` keys only (`Follows`). A commit without
  conflict therefore finds the counter and the keys of its new tables untouched, and
  its prefixes follow all committed ones. `Noticed` rests on `GetKeyFinds`, on
  the keys of two names being different and neither being that of the counter
  (`CatalogKeys`), and on `Revert` keeping what earlier statements of the transaction
  have read (the mutant `RevertReads` drops it).
* From it: `PrefixesStayDisjoint`; `CacheStaysTrue`, with `~UseOwnTable`, the condition
  under which the run checks `CacheTrue` (it fails otherwise, see above); and
  `TablesNeverChange`, the reason why the cache needs no invalidation.

The theorems are about `CatalogSpec`. That the executor with all its statements
implements it is checked by TLC in the run `tables`, not proved.

`Prompt_proofs`: `PromptIsTrue`. `PromptInv` ties `inTransaction`, `activeTx` and
`ongoing` together at every step, also while statements are being executed.

Only model-checked:

* `Answers`, `PromptReturns`: liveness is out of the prover's reach.
* `BatchComplete`: the quotes of a text from its start and from the end of a statement
  agree by induction over the text, and `statements` sorts with operators of the
  community modules that take an operator.
* `TypeOK` ... `ImplementsMap` of `BTree`, the properties of `BIter` and of `Select`:
  they go through RECURSIVE operators (descent in the tree, the parser), and the SMT
  backend is not available in modules that reach one.
* `IndexesAgree`, `StatementCorrect` and `ImplementsCatalog` of `Executor`: statements
  contain expressions and their evaluation, for which the same holds. What they rest
  on is proved in `Tables_proofs`: a scan meets exactly the rows in its range, in
  order (with the exception above), and reads back what was written, and each row written or deleted leaves rows
  and indexes in agreement.
* `SchemasSound`: it is about sequences made by `SelectSeq`.
* The failing rewrite: what does hold with it is in the runs `bookkeeping` (proved
  too) and `pages`.

## Not modelled

* `extendMmap` and `Close`: address space only. A failing mmap is a failing
  `writePages`.
* `checkLimit` appears as the assumption on lengths in `BTree`. In `Commit`
  these errors cannot occur, since the pending tree has accepted the key, and
  the value with one byte more.
* Versions and sequence numbers are natural numbers; 64 bits are not exceeded.
* Torn writes within a page, and errors of the device that fsync does not
  report.
* Whether a statement that failed leaves dependencies: `Revert` drops its reads
  (`transaction.go:42`), so a transaction commits although the error it saw
  came from stale data. README.md:65 counts a result without changes as a
  dependency; `Serializable` takes the reads that `Revert` leaves.
* `Display` of values and expressions, names of output columns, `printStats`,
  messages: no state depends on them.
* The internal tables `@meta` and `@table` by name: `@` begins no name, so no
  statement reaches them. Their rows hold the number and the schema themselves,
  not their encodings.
* Limits on the size of keys, values and tuples as errors of a statement; `Revert`
  treats all errors alike.
* `file.go`: pure I/O, see `PROJECT.json`.
* A select in auto-commit mode is read after its transaction has ended
  (`ql_exec.go:747`). With one executor nothing is committed in between.
* `main` goes on after `Open` has failed (`cmd/ql.go:22`).

## Plan

The model covers every part but `file.go`, and the properties of transactions,
pages, catalogue and prompt are proved, with those of the encoding, of range reads
and of the updates of rows and indexes. Left to prove: the B+tree, which would need
its recursive operators written as functions on the depth of a node, and statements,
which would need the same of expressions.
