----------------------------- MODULE KeyRanges -----------------------------
(***************************************************************************)
(* How one entry of the commit history is compared with the dependencies   *)
(* of a transaction (db/transaction.go): detectConflicts sorts the read    *)
(* ranges by their start, and sortedRangesOverlap walks the two sorted     *)
(* lists with one index each.  Ranges of a transaction come in the order   *)
(* of its reads, may nest and repeat, and are inverted when a query asks   *)
(* for an empty interval; the ranges of a commit are single keys.          *)
(*                                                                         *)
(* Keys are integers: only their order matters.  Indices count from 1.     *)
(***************************************************************************)
EXTENDS Integers, Sequences

CONSTANTS
    Keys,        \* keys, in their order
    MaxReads,    \* bound: ranges a transaction has read
    MaxWrites    \* bound: keys a commit has written

ASSUME KeysAssumption == Keys \subseteq Int
ASSUME BoundsAssumption == MaxReads \in Nat /\ MaxWrites \in Nat

VARIABLES
    reads,    \* KVTX.reads
    writes,   \* CommittedTX.writes
    i1, i2,   \* the indices of sortedRangesOverlap
    pc        \* "sort", "walk", or the answer: "overlap" or "disjoint"

vars == <<reads, writes, i1, i2, pc>>

KeyRange == [start : Keys, stop : Keys]

\* Mutant: ranges are compared by their ends.
keyRangeCmpStop(r1, r2) == r1.stop - r2.stop

\* keyRangeCmp, negative, zero or positive like bytes.Compare.
keyRangeCmp(r1, r2) == r1.start - r2.start

Sorted(s) == \A i, j \in DOMAIN s : i < j => keyRangeCmp(s[i], s[j]) <= 0

SeqsUpTo(S, n) == UNION {[1 .. k -> S] : k \in 0 .. n}

\* The writes of a commit were sorted when they were put into the history.
Init ==
    /\ reads \in SeqsUpTo(KeyRange, MaxReads)
    /\ writes \in SeqsUpTo({r \in KeyRange : r.start = r.stop}, MaxWrites)
    /\ Sorted(writes)
    /\ i1 = 1 /\ i2 = 1
    /\ pc = "sort"

\* slices.SortFunc on the reads: it is not stable, so any sorted arrangement.
Sort ==
    /\ pc = "sort"
    /\ \E to \in [DOMAIN reads -> DOMAIN reads] :
        /\ \A i \in DOMAIN reads : \E j \in DOMAIN reads : to[j] = i
        /\ reads' = [i \in DOMAIN reads |-> reads[to[i]]]
        /\ Sorted(reads')
    /\ pc' = "walk"
    /\ UNCHANGED <<writes, i1, i2>>

\* Both indices are inside their lists.
Walking == pc = "walk" /\ i1 <= Len(reads) /\ i2 <= Len(writes)

ReadBefore  == reads[i1].stop < writes[i2].start
WriteBefore == writes[i2].stop < reads[i1].start

SkipRead ==
    /\ Walking /\ ReadBefore
    /\ i1' = i1 + 1
    /\ UNCHANGED <<reads, writes, i2, pc>>

\* Mutant: the index of the writes is not advanced.
SkipWriteStuck ==
    /\ Walking /\ ~ReadBefore /\ WriteBefore
    /\ UNCHANGED <<reads, writes, i1, i2, pc>>

SkipWrite ==
    /\ Walking /\ ~ReadBefore /\ WriteBefore
    /\ i2' = i2 + 1
    /\ UNCHANGED <<reads, writes, i1, pc>>

Overlap ==
    /\ Walking /\ ~ReadBefore /\ ~WriteBefore
    /\ pc' = "overlap"
    /\ UNCHANGED <<reads, writes, i1, i2>>

Exhausted ==
    /\ pc = "walk" /\ (i1 > Len(reads) \/ i2 > Len(writes))
    /\ pc' = "disjoint"
    /\ UNCHANGED <<reads, writes, i1, i2>>

Next == Sort \/ SkipRead \/ SkipWrite \/ Overlap \/ Exhausted

\* The loop runs in one goroutine that is not stopped halfway.
Spec == Init /\ [][Next]_vars /\ WF_vars(Next)

-----------------------------------------------------------------------------
(* Properties.                                                             *)

\* A key written by the commit lies in a range the transaction has read.
Hit == \E i \in DOMAIN reads, j \in DOMAIN writes :
            reads[i].start <= writes[j].start /\ writes[j].start <= reads[i].stop

\* sortedRangesOverlap answers true exactly when a written key lies in a read
\* range, whatever order the ranges were read in and however they nest.
OverlapCorrect ==
    /\ pc = "overlap" => Hit
    /\ pc = "disjoint" => ~Hit

\* No pair of ranges that the indices have passed overlaps.
PassedApart ==
    \A i \in DOMAIN reads, j \in DOMAIN writes :
        (i < i1 \/ j < i2) =>
            reads[i].stop < writes[j].start \/ writes[j].stop < reads[i].start

IsRangeSeq(s) == s \in [1 .. Len(s) -> KeyRange]

\* The inductive invariant of the walk.
WalkInv ==
    /\ IsRangeSeq(reads) /\ IsRangeSeq(writes)
    /\ Len(reads) \in Nat /\ Len(writes) \in Nat
    /\ \A j \in DOMAIN writes : writes[j].start = writes[j].stop
    /\ Sorted(writes)
    /\ i1 \in Nat \ {0} /\ i2 \in Nat \ {0}
    /\ pc \in {"sort", "walk", "overlap", "disjoint"}
    /\ pc = "sort" => i1 = 1 /\ i2 = 1
    /\ pc # "sort" => Sorted(reads)
    /\ PassedApart
    /\ OverlapCorrect

\* detectConflicts comes to an answer.
Answers == <>(pc \in {"overlap", "disjoint"})
=============================================================================
