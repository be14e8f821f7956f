----------------------------- MODULE PageStore -----------------------------
(***************************************************************************)
(* The file under the key-value store (db/kv.go): a commit replaces B+tree *)
(* pages by copy-on-write through the free list, then updateOrRevert       *)
(* writes the changed pages, syncs, writes the meta page and syncs again,  *)
(* while snapshots of open transactions read the same file through the     *)
(* mmap.  Any write or sync may fail, and the machine may crash at any     *)
(* step.                                                                   *)
(*                                                                         *)
(* Data abstraction: a B+tree is its root and the set of its pages, each   *)
(* with the tag of the commit that wrote it; which pages an update of the  *)
(* tree replaces, adds or removes is left open, but it ends at the root.   *)
(* KV.mutex is held from StartCommit to the end of the commit, so          *)
(* transactions begin and end only in between, but those already open keep *)
(* reading.  A write of a page is atomic.  After a failed sync the pages   *)
(* it was for are in an unknown state until they are written again.        *)
(***************************************************************************)
EXTENDS Integers, FiniteSets, FreeList

CONSTANTS
    Readers,       \* open transactions, by their snapshot
    MaxPages,      \* bound: pages of the file
    MaxAttempts,   \* bound: commits that are started
    MaxOps,        \* bound: pages below the root replaced in one commit
    MaxFaults,     \* bound: failing writes and syncs
    MaxCrashes,    \* bound: crashes
    RewriteFaults, \* may the rewrite of the meta page fail?
    CrashFrom      \* crashes happen once this many commits have succeeded

ASSUME BoundsAssumption ==
    /\ MaxPages \in Nat /\ MaxPages > 1
    /\ MaxAttempts \in Nat /\ MaxOps \in Nat /\ MaxFaults \in Nat /\ MaxCrashes \in Nat
    /\ RewriteFaults \in BOOLEAN
    /\ CrashFrom \in Nat

VARIABLES
    kv,       \* the KV struct: meta data, free list, page.updates, failed
    file,     \* pages as reads of the file see them (the page cache)
    disk,     \* for each page, the contents it may have after a crash
    dirty,    \* pages the next sync writes out
    snap,     \* of each reader: snapshot and version of its transaction, or none
    pc,       \* where the commit is
    saved,    \* meta data saved by Commit
    todo,     \* pages writePages has not written yet
    acked,    \* version of the last commit that succeeded
    attempt,  \* commits started, the tag of the pages written
    ops,      \* pages the running commit has replaced, added or removed
    faults,
    crashes

vars == <<kv, file, disk, dirty, snap, pc, saved, todo, acked, attempt, ops, faults, crashes>>

Pages == 0 .. MaxPages - 1

NoSnap == [open |-> FALSE, version |-> 0, tree |-> <<>>]

-----------------------------------------------------------------------------
(* Meta data.                                                              *)

saveMeta(s) == [root |-> s.root, tree |-> s.tree, flushed |-> s.flushed, version |-> s.version,
                headPage |-> s.headPage, headSeq |-> s.headSeq,
                tailPage |-> s.tailPage, tailSeq |-> s.tailSeq]

loadMeta(s, m) ==
    [s EXCEPT !.root = m.root, !.tree = m.tree, !.flushed = m.flushed, !.version = m.version,
              !.headPage = m.headPage, !.headSeq = m.headSeq,
              !.tailPage = m.tailPage, !.tailSeq = m.tailSeq]

\* The meta page: page 0 with a signature.
MetaPage(m) == [tag |-> -2, next |-> Junk, items |-> TreePage(0).items, meta |-> m]

HasSig(page) == page.tag = -2

\* The KV struct of Open before it reads the meta page.
Blank == [root |-> 0, tree |-> <<>>, flushed |-> 0, version |-> 0, headPage |-> 0, headSeq |-> 0,
          tailPage |-> 0, tailSeq |-> 0, maxSeq |-> 0, maxVer |-> 0, curVer |-> 0,
          nappend |-> 0, updates |-> <<>>, failed |-> FALSE]

fileSize(f) == IF \A p \in Pages : f[p] = Absent THEN 0
               ELSE 1 + CHOOSE p \in Pages : f[p] # Absent /\ \A q \in p + 1 .. MaxPages - 1 : f[q] = Absent

\* readRoot accepts a file whose last page is whole (the meta data alone is
\* shorter than a page) and whose meta page is in range.
metaOK(f) ==
    /\ fileSize(f) > 1
    /\ HasSig(f[0])
    /\ LET m == f[0].meta
       IN  /\ m.flushed <= fileSize(f)
           /\ m.root \in 1 .. m.flushed - 1
           /\ m.headPage \in 1 .. m.flushed - 1
           /\ m.tailPage \in 1 .. m.flushed - 1

readRoot(f) ==
    IF fileSize(f) = 0
    THEN [Blank EXCEPT !.flushed = 2, !.headPage = 1, !.tailPage = 1]
    ELSE SetMaxVer(loadMeta(Blank, f[0].meta), f[0].meta.version)

Init ==
    /\ kv = readRoot([p \in Pages |-> Absent])
    /\ file = [p \in Pages |-> Absent]
    /\ disk = [p \in Pages |-> {Absent}]
    /\ dirty = {}
    /\ snap = [r \in Readers |-> NoSnap]
    /\ pc = "idle"
    /\ saved = saveMeta(kv)
    /\ todo = {}
    /\ acked = 0
    /\ attempt = 0
    /\ ops = 0
    /\ faults = 0
    /\ crashes = 0

-----------------------------------------------------------------------------
(* Transactions that only read.                                            *)

fileVars   == <<file, disk, dirty>>
commitVars == <<pc, saved, todo, acked, attempt, ops>>
boundVars  == <<faults, crashes>>

\* Oldest version in use when the transactions of R are open.
minVersion(ver, R) ==
    CHOOSE v \in {ver} \cup {snap[r].version : r \in R} :
        v <= ver /\ \A r \in R : v <= snap[r].version

OpenReaders == {r \in Readers : snap[r].open}

BeginRead(r) ==
    /\ pc = "idle" /\ ~snap[r].open
    /\ snap' = [snap EXCEPT ![r] = [open |-> TRUE, version |-> kv.version, tree |-> kv.tree]]
    /\ UNCHANGED <<kv, fileVars, commitVars, boundVars>>

EndRead(r) ==
    /\ pc = "idle" /\ snap[r].open
    /\ snap' = [snap EXCEPT ![r] = NoSnap]
    /\ kv' = SetMaxVer(kv, minVersion(kv.version, OpenReaders \ {r}))
    /\ UNCHANGED <<fileVars, commitVars, boundVars>>

-----------------------------------------------------------------------------
(* The commit in memory.                                                   *)

StartCommit ==
    /\ pc = "idle" /\ attempt < MaxAttempts
    /\ saved' = saveMeta(kv)
    /\ kv' = [kv EXCEPT !.curVer = kv.version + 1]
    /\ attempt' = attempt + 1
    /\ pc' = "mem"
    /\ ops' = 0
    /\ UNCHANGED <<fileVars, snap, todo, acked, boundVars>>

Without(tree, p) == [q \in DOMAIN tree \ {p} |-> tree[q]]

\* tree.del of page p and tree.new, of the tree in memory.
Del(s, p) == [PushTail(s, file, p) EXCEPT !.tree = Without(@, p)]
New(s)    == LET a == pageAlloc(s, file, TreePage(attempt))
             IN  [s |-> [a.s EXCEPT !.tree = With(@, a.ptr, attempt)], ptr |-> a.ptr]

\* Bound: there is room for the pages an update may append, one that new takes and
\* one for a list node that del fills.
Room == kv.flushed + kv.nappend + 2 <= MaxPages

\* A page below the root is replaced by a copy, split off or merged away.
TreeOp ==
    /\ pc \in {"mem", "updated"} /\ ops < MaxOps /\ Room /\ kv.root # 0
    /\ \/ \E p \in DOMAIN kv.tree \ {kv.root} : kv' = New(Del(kv, p)).s
       \/ kv' = New(kv).s
       \/ \E p \in DOMAIN kv.tree \ {kv.root} : kv' = Del(kv, p)
    /\ ops' = ops + 1
    /\ pc' = "mem"
    /\ UNCHANGED <<fileVars, snap, saved, todo, acked, attempt, boundVars>>

\* The update of a key ends with the root: made, replaced or removed.
RootOp ==
    /\ pc \in {"mem", "updated"} /\ ops <= MaxOps /\ Room
    /\ \/ LET new == New(IF kv.root = 0 THEN kv ELSE Del(kv, kv.root))
          IN  kv' = [new.s EXCEPT !.root = new.ptr]
       \/ /\ kv.root # 0
          /\ \E p \in DOMAIN kv.tree \ {kv.root} :
                kv' = [Del(kv, kv.root) EXCEPT !.root = p]
    /\ ops' = ops + 1
    /\ pc' = "updated"
    /\ UNCHANGED <<fileVars, snap, saved, todo, acked, attempt, boundVars>>

\* The root has changed: the version moves on and updateOrRevert starts.
EndTree ==
    /\ pc = "updated" /\ kv.root # saved.root
    /\ kv' = [kv EXCEPT !.version = @ + 1]
    /\ pc' = IF kv.failed THEN "rewrite" ELSE "pages"
    /\ todo' = DOMAIN kv.updates
    /\ UNCHANGED <<fileVars, snap, saved, acked, attempt, ops, boundVars>>

-----------------------------------------------------------------------------
(* Writing and syncing the file.                                           *)

pwrite(p, page) ==
    /\ file' = [file EXCEPT ![p] = page]
    /\ disk' = [disk EXCEPT ![p] = @ \cup {page}]
    /\ dirty' = dirty \cup {p}

fsync ==
    /\ disk' = [p \in Pages |-> IF p \in dirty THEN {file[p]} ELSE disk[p]]
    /\ dirty' = {}
    /\ UNCHANGED file

fsyncFails == dirty' = {} /\ UNCHANGED <<file, disk>>

Finalize(s) == SetMaxVer(s, minVersion(s.version, OpenReaders))

\* A write or, at the steps of syncs, a sync fails.
Fault(syncs) ==
    /\ faults < MaxFaults
    /\ faults' = faults + 1
    /\ IF pc \in syncs THEN fsyncFails ELSE UNCHANGED fileVars

RewriteMeta ==
    /\ pc = "rewrite"
    /\ pwrite(0, MetaPage(saved))
    /\ pc' = "resync"
    /\ UNCHANGED <<kv, snap, saved, todo, acked, attempt, ops, boundVars>>

SyncRewrite ==
    /\ pc = "resync"
    /\ fsync
    /\ kv' = [kv EXCEPT !.failed = FALSE]
    /\ pc' = "pages"
    /\ UNCHANGED <<snap, saved, todo, acked, attempt, ops, boundVars>>

\* Mutant: the early returns discard the temporaries but keep the new root.
RewriteFailsDiscard ==
    /\ pc \in {"rewrite", "resync"} /\ RewriteFaults /\ Fault({"resync"})
    /\ kv' = Finalize([kv EXCEPT !.nappend = 0, !.updates = <<>>])
    /\ pc' = "idle"
    /\ todo' = {}
    /\ UNCHANGED <<snap, saved, acked, attempt, ops, crashes>>

\* The early returns of updateOrRevert: nothing is reverted.
RewriteFails ==
    /\ pc \in {"rewrite", "resync"} /\ RewriteFaults /\ Fault({"resync"})
    /\ kv' = Finalize(kv)
    /\ pc' = "idle"
    /\ todo' = {}
    /\ UNCHANGED <<snap, saved, acked, attempt, ops, crashes>>

\* page.updates is a map: its pages are written in any order.
WritePage ==
    /\ pc = "pages"
    /\ \E p \in todo :
        /\ pwrite(p, kv.updates[p])
        /\ todo' = todo \ {p}
    /\ UNCHANGED <<kv, snap, pc, saved, acked, attempt, ops, boundVars>>

\* Mutant: the appended pages are counted but not reset.
PagesWrittenCounted ==
    /\ pc = "pages" /\ todo = {}
    /\ kv' = [kv EXCEPT !.flushed = @ + kv.nappend, !.updates = <<>>]
    /\ pc' = "sync1"
    /\ UNCHANGED <<fileVars, snap, saved, todo, acked, attempt, ops, boundVars>>

PagesWritten ==
    /\ pc = "pages" /\ todo = {}
    /\ kv' = [kv EXCEPT !.flushed = @ + kv.nappend, !.nappend = 0, !.updates = <<>>]
    /\ pc' = "sync1"
    /\ UNCHANGED <<fileVars, snap, saved, todo, acked, attempt, ops, boundVars>>

\* Mutant: no sync between the pages and the meta page.
SyncPagesSkipped ==
    /\ pc = "sync1"
    /\ pc' = "root"
    /\ UNCHANGED <<kv, fileVars, snap, saved, todo, acked, attempt, ops, boundVars>>

SyncPages ==
    /\ pc = "sync1"
    /\ fsync
    /\ pc' = "root"
    /\ UNCHANGED <<kv, snap, saved, todo, acked, attempt, ops, boundVars>>

updateRoot ==
    /\ pc = "root"
    /\ pwrite(0, MetaPage(saveMeta(kv)))
    /\ pc' = "sync2"
    /\ UNCHANGED <<kv, snap, saved, todo, acked, attempt, ops, boundVars>>

\* Mutant: no sync after the meta page.
SyncRootSkipped ==
    /\ pc = "sync2"
    /\ kv' = Finalize(kv)
    /\ acked' = kv.version
    /\ pc' = "idle"
    /\ UNCHANGED <<fileVars, snap, saved, todo, attempt, ops, boundVars>>

\* The commit succeeds.
SyncRoot ==
    /\ pc = "sync2"
    /\ fsync
    /\ kv' = Finalize(kv)
    /\ acked' = kv.version
    /\ pc' = "idle"
    /\ UNCHANGED <<snap, saved, todo, attempt, ops, boundVars>>

\* updateFile fails at any of its steps: updateOrRevert restores the saved
\* meta data and discards the temporaries.
UpdateFails ==
    /\ pc \in {"pages", "sync1", "root", "sync2"} /\ Fault({"sync1", "sync2"})
    /\ kv' = Finalize([loadMeta(kv, saved) EXCEPT !.failed = TRUE, !.nappend = 0,
                                                 !.updates = <<>>])
    /\ pc' = "idle"
    /\ todo' = {}
    /\ UNCHANGED <<snap, saved, acked, attempt, ops, crashes>>

\* The first n pages of the files a crash may leave: each page has one of its
\* possible contents.
SurvivorsUpTo[n \in 0 .. MaxPages] ==
    IF n = 0 THEN {<<>>}
    ELSE {With(f, n - 1, page) : page \in disk[n - 1], f \in SurvivorsUpTo[n - 1]}

Survivors == SurvivorsUpTo[MaxPages]

\* The machine crashes: each page keeps one of the contents it may have, and
\* the program opens the file again, if readRoot accepts it.
Crash ==
    /\ crashes < MaxCrashes /\ acked >= CrashFrom /\ pc # "dead"
    /\ \E f \in Survivors :
        /\ file' = f
        /\ disk' = [p \in Pages |-> {f[p]}]
        /\ IF fileSize(f) = 0 \/ metaOK(f)
           THEN kv' = readRoot(f) /\ pc' = "idle"
           ELSE kv' = Blank /\ pc' = "dead"
    /\ dirty' = {}
    /\ snap' = [r \in Readers |-> NoSnap]
    /\ saved' = saveMeta(Blank)
    /\ todo' = {}
    /\ ops' = 0
    /\ crashes' = crashes + 1
    /\ UNCHANGED <<acked, attempt, faults>>

Next ==
    \/ \E r \in Readers : BeginRead(r) \/ EndRead(r)
    \/ StartCommit \/ TreeOp \/ RootOp \/ EndTree
    \/ RewriteMeta \/ SyncRewrite \/ RewriteFails
    \/ WritePage \/ PagesWritten \/ SyncPages \/ updateRoot \/ SyncRoot \/ UpdateFails
    \/ Crash

Spec == Init /\ [][Next]_vars

-----------------------------------------------------------------------------
(* Properties.                                                             *)

IsPage(page) ==
    /\ page.tag \in -2 .. MaxAttempts
    /\ page.next \in {Junk} \cup Pages
    /\ \A i \in Slots : page.items[i].ptr \in {Junk} \cup Pages
    /\ HasSig(page) => page.meta.root \in Pages /\ page.meta.version \in 0 .. MaxAttempts

\* Types: the head of the free list does not overrun its tail, and no update
\* outgrows the room it was given.
TypeOK ==
    /\ kv.root \in Pages /\ DOMAIN kv.tree \subseteq Pages
    /\ kv.version \in 0 .. MaxAttempts /\ kv.curVer \in 0 .. MaxAttempts
    /\ kv.headSeq \in Nat /\ kv.tailSeq \in Nat /\ kv.headSeq <= kv.tailSeq
    /\ kv.flushed + kv.nappend <= MaxPages
    /\ kv.failed \in BOOLEAN
    /\ DOMAIN kv.updates \subseteq Pages \ {0}
    /\ \A p \in Pages : IsPage(file[p]) /\ file[p] \in disk[p]
    /\ dirty \subseteq Pages
    /\ pc \in {"idle", "mem", "updated", "rewrite", "resync", "pages", "sync1", "root",
               "sync2", "dead"}
    /\ todo \subseteq DOMAIN kv.updates

\* Whatever commits write, fail or revert, an open transaction finds in the
\* file every page of its snapshot as it was when it began (Begin, flPop).
ReaderPagesIntact ==
    \A r \in OpenReaders : \A p \in DOMAIN snap[r].tree : file[p].tag = snap[r].tree[p]

\* The same step by step: no step changes a page on file that an open transaction
\* can read (writePages).  With two faults this holds even when one of them is in
\* the rewrite of the meta page, with more only when none is.
ReaderPagesKept ==
    [][\A r \in Readers : snap[r].open /\ snap'[r].open =>
        \A p \in DOMAIN snap[r].tree :
            file[p].tag = snap[r].tree[p] => file'[p].tag = snap[r].tree[p]]_vars

\* The pages of the current tree are readable to the writer with the contents
\* the last update gave them, from memory or from the file (pageRead).  With two
\* faults, or with any number of them outside the rewrite of the meta page.
TreeIntact ==
    pc # "dead" => \A p \in DOMAIN kv.tree : pageRead(kv, file, p).tag = kv.tree[p]

\* Every meta page a crash may leave leads to a tree all of whose pages the
\* same crash leaves whole: pages are synced before the meta page that points
\* to them is written, and not overwritten while it may come back (updateFile).
CrashSafe ==
    \A page \in disk[0] : HasSig(page) =>
        \A p \in DOMAIN page.meta.tree :
            \A left \in disk[p] : left.tag = page.meta.tree[p]

\* A commit that returned no error is never lost: any meta page a crash may
\* leave is of its version or a later one (updateFile, updateOrRevert).
AckedDurable ==
    acked > 0 => \A page \in disk[0] : HasSig(page) /\ page.meta.version >= acked

\* Once a commit has succeeded there is always a tree to come back to: the old
\* tree stays whole and reachable until a new one replaces it.
AckedRecoverable == acked > 0 => CrashSafe

\* Between commits every page but page 0 is either a page of the tree, a node
\* of the free list or an item of it, and only one of them: no page leaks and
\* none is free while in use, after failures and recoveries too: after two faults
\* of any kind, or any number outside the rewrite of the meta page.
PagePartition ==
    pc = "idle" =>
        LET nodes == Nodes(kv, file)
            items == Items(kv, file)
        IN  /\ 1 .. kv.flushed + kv.nappend - 1 = DOMAIN kv.tree \cup nodes \cup FreePtrs(kv, file)
            /\ DOMAIN kv.tree \cap nodes = {}
            /\ \A q \in DOMAIN items :
                 /\ items[q].ptr \notin DOMAIN kv.tree \cup nodes
                 /\ \A k \in DOMAIN items : k # q => items[k].ptr # items[q].ptr

\* The assertions of pageAlloc, pageAppend, flPop and check hold at every
\* allocation a commit may make: a page taken from the list is not one this
\* commit has written, nor one of the tree.
AllocFresh ==
    pc \in {"mem", "updated"} =>
        LET pop == PopHead(kv, file)
        IN  /\ check(kv) /\ check(pop.s)
            /\ pop.ptr \notin DOMAIN pop.s.updates \cup DOMAIN kv.tree
            /\ kv.flushed + kv.nappend \notin DOMAIN kv.updates

\* A file that the program made is one that it can open again.
Reopens == pc # "dead"
=============================================================================
