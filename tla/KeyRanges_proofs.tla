-------------------------- MODULE KeyRanges_proofs --------------------------
(***************************************************************************)
(* The walk of sortedRangesOverlap gives the right answer for every set of *)
(* keys and every list of ranges.                                          *)
(***************************************************************************)
EXTENDS KeyRanges, TLAPS

\* The list that SeqsUpTo holds is a sequence of its elements.
LEMMA SeqsUpToType ==
    ASSUME NEW S, NEW n \in Nat, NEW s \in SeqsUpTo(S, n)
    PROVE  /\ Len(s) \in Nat
           /\ DOMAIN s = 1 .. Len(s)
           /\ s \in [1 .. Len(s) -> S]
<1>1. PICK k \in 0 .. n : s \in [1 .. k -> S]
  BY DEF SeqsUpTo
<1>2. s \in Seq(S) /\ Len(s) = k
  BY <1>1
<1> QED
  BY <1>1, <1>2

\* The walk starts in its invariant.
LEMMA WalkInit == Init => WalkInv
<1> SUFFICES ASSUME Init PROVE WalkInv
  OBVIOUS
<1>1. /\ Len(reads) \in Nat
      /\ IsRangeSeq(reads)
  BY SeqsUpToType, BoundsAssumption DEF Init, IsRangeSeq
<1>2. /\ Len(writes) \in Nat
      /\ writes \in [1 .. Len(writes) -> {r \in KeyRange : r.start = r.stop}]
  BY SeqsUpToType, BoundsAssumption DEF Init
<1>3. IsRangeSeq(writes) /\ \A j \in DOMAIN writes : writes[j].start = writes[j].stop
  BY <1>2 DEF IsRangeSeq
<1>4. PassedApart
  BY <1>1, <1>2 DEF Init, PassedApart, IsRangeSeq
<1> QED
  BY <1>1, <1>2, <1>3, <1>4 DEF Init, WalkInv, OverlapCorrect

\* Integer ends of the ranges that the invariant speaks of.
LEMMA RangeEnds ==
    ASSUME WalkInv
    PROVE  /\ DOMAIN reads = 1 .. Len(reads) /\ DOMAIN writes = 1 .. Len(writes)
           /\ \A i \in DOMAIN reads : reads[i].start \in Int /\ reads[i].stop \in Int
           /\ \A j \in DOMAIN writes : writes[j].start \in Int /\ writes[j].stop = writes[j].start
<1>1. \A r \in KeyRange : r.start \in Int /\ r.stop \in Int
  BY KeysAssumption DEF KeyRange
<1> QED
  BY <1>1 DEF WalkInv, IsRangeSeq

\* Every step keeps the invariant.
LEMMA WalkStep == WalkInv /\ [Next]_vars => WalkInv'
<1> SUFFICES ASSUME WalkInv, [Next]_vars PROVE WalkInv'
  OBVIOUS
<1> USE RangeEnds
<1>1. CASE Sort
  <2>1. PICK to \in [DOMAIN reads -> DOMAIN reads] :
            /\ reads' = [i \in DOMAIN reads |-> reads[to[i]]]
            /\ Sorted(reads')
    BY <1>1 DEF Sort
  <2>2. reads' \in [1 .. Len(reads) -> KeyRange]
    BY <2>1 DEF WalkInv, IsRangeSeq
  <2>3. Len(reads') = Len(reads)
    BY <2>2 DEF WalkInv
  <2>4. IsRangeSeq(reads)' /\ DOMAIN reads' = DOMAIN reads
    BY <2>2, <2>3 DEF IsRangeSeq
  <2>5. Sorted(reads)'
    BY <2>1 DEF Sorted
  <2>6. UNCHANGED <<writes, i1, i2>> /\ pc = "sort" /\ pc' = "walk"
    BY <1>1 DEF Sort
  <2>7. PassedApart'
    BY <2>4, <2>6 DEF PassedApart, WalkInv
  <2> QED
    BY <2>3, <2>4, <2>5, <2>6, <2>7 DEF WalkInv, OverlapCorrect, IsRangeSeq, Sorted, keyRangeCmp
<1>2. CASE SkipRead
  <2>1. UNCHANGED <<reads, writes, i2, pc>> /\ i1' = i1 + 1 /\ pc = "walk"
    BY <1>2 DEF SkipRead, Walking
  <2>2. i1 \in DOMAIN reads /\ i2 \in DOMAIN writes /\ reads[i1].stop < writes[i2].start
    BY <1>2 DEF SkipRead, Walking, ReadBefore, WalkInv
  <2>3. ASSUME NEW j \in DOMAIN writes, ~(j < i2)
        PROVE  reads[i1].stop < writes[j].start
    <3>1. writes[i2].start <= writes[j].start
      BY <2>2, <2>3 DEF WalkInv, Sorted, keyRangeCmp
    <3> QED
      BY <2>2, <3>1
  <2>4. PassedApart'
    BY <2>1, <2>2, <2>3 DEF PassedApart, WalkInv
  <2> QED
    BY <2>1, <2>4 DEF WalkInv, OverlapCorrect, IsRangeSeq, Sorted, keyRangeCmp
<1>3. CASE SkipWrite
  <2>1. UNCHANGED <<reads, writes, i1, pc>> /\ i2' = i2 + 1 /\ pc = "walk"
    BY <1>3 DEF SkipWrite, Walking
  <2>2. i1 \in DOMAIN reads /\ i2 \in DOMAIN writes /\ writes[i2].stop < reads[i1].start
    BY <1>3 DEF SkipWrite, Walking, WriteBefore, WalkInv
  <2>3. ASSUME NEW i \in DOMAIN reads, ~(i < i1)
        PROVE  writes[i2].stop < reads[i].start
    <3>1. reads[i1].start <= reads[i].start
      BY <2>1, <2>2, <2>3 DEF WalkInv, Sorted, keyRangeCmp
    <3> QED
      BY <2>2, <3>1
  <2>4. PassedApart'
    BY <2>1, <2>2, <2>3 DEF PassedApart, WalkInv
  <2> QED
    BY <2>1, <2>4 DEF WalkInv, OverlapCorrect, IsRangeSeq, Sorted, keyRangeCmp
<1>4. CASE Overlap
  <2>1. UNCHANGED <<reads, writes, i1, i2>> /\ pc' = "overlap" /\ pc = "walk"
    BY <1>4 DEF Overlap, Walking
  <2>2. Hit'
    BY <1>4, <2>1 DEF Overlap, Walking, ReadBefore, WriteBefore, WalkInv, Hit
  <2> QED
    BY <2>1, <2>2 DEF WalkInv, OverlapCorrect, PassedApart, IsRangeSeq, Sorted, keyRangeCmp
<1>5. CASE Exhausted
  <2>1. UNCHANGED <<reads, writes, i1, i2>> /\ pc' = "disjoint" /\ pc = "walk"
    BY <1>5 DEF Exhausted
  <2>2. \A i \in DOMAIN reads, j \in DOMAIN writes : i < i1 \/ j < i2
    BY <1>5 DEF Exhausted, WalkInv
  <2>3. ~Hit'
    BY <2>1, <2>2 DEF WalkInv, PassedApart, Hit
  <2> QED
    BY <2>1, <2>3 DEF WalkInv, OverlapCorrect, PassedApart, IsRangeSeq, Sorted, keyRangeCmp
<1>6. CASE UNCHANGED vars
  BY <1>6 DEF vars, WalkInv, OverlapCorrect, PassedApart, IsRangeSeq, Sorted, keyRangeCmp, Hit
<1> QED
  BY <1>1, <1>2, <1>3, <1>4, <1>5, <1>6 DEF Next

\* For every set of keys and every bound, sortedRangesOverlap after the sort of
\* detectConflicts answers true exactly when a key the commit wrote lies in a
\* range the transaction has read.
THEOREM OverlapDecided == Spec => []OverlapCorrect
<1>1. WalkInv => OverlapCorrect
  BY DEF WalkInv
<1> QED
  BY <1>1, WalkInit, WalkStep, PTL DEF Spec
=============================================================================
