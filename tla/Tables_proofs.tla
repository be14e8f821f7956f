---------------------------- MODULE Tables_proofs ----------------------------
(***************************************************************************)
(* What holds of the operators of KeyEncoding, CombinedIter and Tables for *)
(* all keys, values and transactions: the order of byte strings, the       *)
(* encoding that keeps the order of rows, and the reads of a transaction.  *)
(***************************************************************************)
EXTENDS Tables, FiniteSets, FiniteSetTheorems, SequenceTheorems, NaturalsInduction,
        WellFoundedInduction, TLAPS

\* Every set of natural numbers has a least element.
LEMMA LeastNat ==
    ASSUME NEW S \in SUBSET Nat, S # {}
    PROVE  \E n \in S : \A m \in S : n <= m
<1>1. PICK n \in S : \A m \in S : <<m, n>> \notin OpToRel(<, Nat)
  BY NatLessThanWellFounded, WFMin
<1>2. \A m \in S : ~(m < n)
  BY <1>1 DEF OpToRel
<1> QED BY <1>2

\* Min of a set of positions.
LEMMA MinFacts ==
    ASSUME NEW S \in SUBSET Nat, S # {}
    PROVE  Min(S) \in S /\ \A m \in S : Min(S) <= m
BY LeastNat DEF Min

-----------------------------------------------------------------------------
(* The order of byte strings.                                              *)

\* a and b agree up to position n.
Agree(a, b, n) == n <= Len(a) /\ n <= Len(b) /\ \A i \in 1 .. n : a[i] = b[i]

\* n is where a and b part: at the end of one of them or before an element
\* in which they differ.
Part(a, b, n) ==
    /\ n \in Nat
    /\ Agree(a, b, n)
    /\ n = Len(a) \/ n = Len(b) \/ a[n + 1] # b[n + 1]

LEMMA PartExists ==
    ASSUME NEW a \in Seq(Int), NEW b \in Seq(Int)
    PROVE  \E n \in Nat : Part(a, b, n)
<1> DEFINE D == {i \in DOMAIN a \cap DOMAIN b : a[i] # b[i]}
<1>1. D \in SUBSET Nat
  OBVIOUS
<1>2. CASE D = {}
  <2>1. CASE Len(a) <= Len(b)
    <3>1. \A i \in 1 .. Len(a) : a[i] = b[i]
      BY <1>2, <2>1
    <3>2. Part(a, b, Len(a))
      BY <2>1, <3>1 DEF Part, Agree
    <3> QED BY <3>2
  <2>2. CASE Len(b) <= Len(a)
    <3>1. \A i \in 1 .. Len(b) : a[i] = b[i]
      BY <1>2, <2>2
    <3>2. Part(a, b, Len(b))
      BY <2>2, <3>1 DEF Part, Agree
    <3> QED BY <3>2
  <2> QED BY <2>1, <2>2
<1>3. CASE D # {}
  <2>1. PICK d \in D : \A m \in D : d <= m
    BY <1>1, <1>3, LeastNat
  <2>2. d \in Nat /\ d >= 1 /\ d <= Len(a) /\ d <= Len(b) /\ a[d] # b[d]
    BY <2>1
  <2>3. \A i \in 1 .. d - 1 : a[i] = b[i]
    <3> SUFFICES ASSUME NEW i \in 1 .. d - 1, a[i] # b[i] PROVE FALSE
      OBVIOUS
    <3>1. i \in D
      BY <2>2
    <3> QED BY <2>1, <2>2, <3>1
  <2>4. (d - 1) + 1 = d /\ d - 1 \in Nat
    BY <2>2
  <2>5. Part(a, b, d - 1)
    BY <2>2, <2>3, <2>4 DEF Part, Agree
  <2> QED BY <2>4, <2>5
<1> QED BY <1>2, <1>3

\* Where they part decides how they compare.
LEMMA CompareAt ==
    ASSUME NEW a \in Seq(Int), NEW b \in Seq(Int), NEW n, Part(a, b, n)
    PROVE  /\ n < Len(a) /\ n < Len(b) => 
                Compare(a, b) = IF a[n + 1] < b[n + 1] THEN -1 ELSE 1
           /\ n = Len(a) /\ n < Len(b) => Compare(a, b) = -1
           /\ n < Len(a) /\ n = Len(b) => Compare(a, b) = 1
           /\ n = Len(a) /\ n = Len(b) => Compare(a, b) = 0
<1> DEFINE D == {i \in DOMAIN a \cap DOMAIN b : a[i] # b[i]}
           o(p, q) == IF p < q THEN -1 ELSE IF p = q THEN 0 ELSE 1
<1>1. D \in SUBSET Nat
  OBVIOUS
<1>2. Compare(a, b) = IF D = {} THEN o(Len(a), Len(b)) ELSE o(a[Min(D)], b[Min(D)])
  BY DEF Compare
<1>3. n \in Nat /\ n <= Len(a) /\ n <= Len(b)
  BY DEF Part, Agree
<1>4. CASE n < Len(a) /\ n < Len(b)
  <2>1. n + 1 \in D
    BY <1>3, <1>4 DEF Part
  <2>2. ASSUME NEW m \in D PROVE n + 1 <= m
    <3>1. ~(m \in 1 .. n)
      BY DEF Part, Agree
    <3>2. m \in Nat /\ m >= 1
      OBVIOUS
    <3> QED BY <1>3, <3>1, <3>2
  <2>3. Min(D) \in D /\ \A m \in D : Min(D) <= m
    <3> HIDE DEF D
    <3> QED BY <1>1, <2>1, MinFacts
  <2>4. Min(D) \in Nat
    BY <1>1, <2>3
  <2>5. Min(D) = n + 1
    <3> HIDE DEF D
    <3>1. n + 1 <= Min(D) /\ Min(D) <= n + 1
      BY <2>1, <2>2, <2>3
    <3> QED BY <1>3, <2>4, <3>1
  <2>6. a[n + 1] # b[n + 1] /\ a[n + 1] \in Int /\ b[n + 1] \in Int
    BY <1>3, <1>4 DEF Part
  <2>7. D # {}
    BY <2>1
  <2> HIDE DEF D
  <2> QED BY <1>2, <1>4, <2>5, <2>6, <2>7
<1>5. CASE n = Len(a) \/ n = Len(b)
  <2>1. ASSUME NEW i \in D PROVE FALSE
    <3>1. i \in 1 .. n
      BY <1>3, <1>5
    <3> QED BY <3>1 DEF Part, Agree
  <2> HIDE DEF D
  <2> QED BY <1>2, <1>3, <1>5, <2>1
<1> QED BY <1>3, <1>4, <1>5

\* The order is total: the outcome is -1, 0 or 1, it is 0 for equal strings only,
\* and turning the strings around turns it around.
LEMMA CompareTotal ==
    ASSUME NEW a \in Seq(Int), NEW b \in Seq(Int)
    PROVE  /\ Compare(a, b) \in {-1, 0, 1}
           /\ Compare(a, b) = 0 <=> a = b
           /\ Compare(a, b) < 0 <=> Compare(b, a) > 0
           /\ Compare(a, b) > 0 <=> Compare(b, a) < 0
<1>1. PICK n \in Nat : Part(a, b, n)
  BY PartExists
<1>2. Part(b, a, n)
  BY <1>1 DEF Part, Agree
<1>3. n <= Len(a) /\ n <= Len(b) /\ Len(a) \in Nat /\ Len(b) \in Nat
  BY <1>1 DEF Part, Agree
<1>4. CASE n < Len(a) /\ n < Len(b)
  <2>1. a[n + 1] \in Int /\ b[n + 1] \in Int /\ a[n + 1] # b[n + 1]
    BY <1>1, <1>4 DEF Part
  <2>2. /\ Compare(a, b) = IF a[n + 1] < b[n + 1] THEN -1 ELSE 1
        /\ Compare(b, a) = IF b[n + 1] < a[n + 1] THEN -1 ELSE 1
    BY <1>1, <1>2, <1>4, CompareAt
  <2>3. a # b
    BY <2>1
  <2>4. \/ Compare(a, b) = -1 /\ Compare(b, a) = 1
        \/ Compare(a, b) = 1 /\ Compare(b, a) = -1
    BY <2>1, <2>2
  <2> QED BY <2>3, <2>4
<1>5. CASE n = Len(a) /\ n = Len(b)
  <2>1. Compare(a, b) = 0 /\ Compare(b, a) = 0
    BY <1>1, <1>2, <1>5, CompareAt
  <2>2. Len(a) = Len(b) /\ \A i \in 1 .. Len(a) : a[i] = b[i]
    BY <1>1, <1>5 DEF Part, Agree
  <2>3. a = b
    BY <2>2, SeqEqual
  <2> QED BY <2>1, <2>3
<1>6. CASE n = Len(a) /\ n < Len(b)
  <2>1. Compare(a, b) = -1 /\ Compare(b, a) = 1
    BY <1>1, <1>2, <1>6, CompareAt
  <2>2. a # b
    BY <1>6
  <2> QED BY <2>1, <2>2
<1>7. CASE n < Len(a) /\ n = Len(b)
  <2>1. Compare(a, b) = 1 /\ Compare(b, a) = -1
    BY <1>1, <1>2, <1>7, CompareAt
  <2>2. a # b
    BY <1>7
  <2> QED BY <2>1, <2>2
<1> QED BY <1>3, <1>4, <1>5, <1>6, <1>7

\* Strictly less, by where the strings part.
Before(a, b, n) ==
    /\ Part(a, b, n)
    /\ n < Len(b)
    /\ n < Len(a) => a[n + 1] < b[n + 1]

LEMMA LessIff ==
    ASSUME NEW a \in Seq(Int), NEW b \in Seq(Int)
    PROVE  Compare(a, b) < 0 <=> \E n \in Nat : Before(a, b, n)
<1>1. ASSUME NEW n \in Nat, Before(a, b, n) PROVE Compare(a, b) < 0
  <2>1. Part(a, b, n) /\ n <= Len(a) /\ n < Len(b)
    BY <1>1 DEF Before, Part, Agree
  <2>2. CASE n = Len(a)
    BY <2>1, <2>2, CompareAt
  <2>3. CASE n < Len(a)
    <3>1. Compare(a, b) = -1
      BY <1>1, <2>1, <2>3, CompareAt DEF Before
    <3> QED BY <3>1
  <2> QED BY <2>1, <2>2, <2>3
<1>2. ASSUME Compare(a, b) < 0 PROVE \E n \in Nat : Before(a, b, n)
  <2>1. PICK n \in Nat : Part(a, b, n)
    BY PartExists
  <2>2. n <= Len(a) /\ n <= Len(b)
    BY <2>1 DEF Part, Agree
  <2>3. CASE n = Len(b)
    <3>1. Compare(a, b) = 0 \/ Compare(a, b) = 1
      BY <2>1, <2>2, <2>3, CompareAt
    <3> QED BY <1>2, <3>1
  <2>4. CASE n < Len(b)
    <3>1. n < Len(a) => a[n + 1] < b[n + 1]
      <4> SUFFICES ASSUME n < Len(a) PROVE a[n + 1] < b[n + 1]
        OBVIOUS
      <4>1. Compare(a, b) = IF a[n + 1] < b[n + 1] THEN -1 ELSE 1
        BY <2>1, <2>4, CompareAt
      <4> QED BY <1>2, <4>1
    <3>2. Before(a, b, n)
      BY <2>1, <2>4, <3>1 DEF Before
    <3> QED BY <3>2
  <2> QED BY <2>2, <2>3, <2>4
<1> QED BY <1>1, <1>2

LEMMA LessTransitive ==
    ASSUME NEW a \in Seq(Int), NEW b \in Seq(Int), NEW c \in Seq(Int),
           Compare(a, b) < 0, Compare(b, c) < 0
    PROVE  Compare(a, c) < 0
<1>1. PICK m \in Nat : Before(a, b, m)
  BY LessIff
<1>2. PICK n \in Nat : Before(b, c, n)
  BY LessIff
<1>3. CASE m <= n
  <2>1. Before(a, c, m)
    <3>1. Agree(a, c, m)
      BY <1>1, <1>2, <1>3 DEF Before, Part, Agree
    <3>2. m < Len(c)
      BY <1>1, <1>2, <1>3 DEF Before, Part, Agree
    <3>3. m < Len(a) => a[m + 1] < c[m + 1]
      <4> SUFFICES ASSUME m < Len(a) PROVE a[m + 1] < c[m + 1]
        OBVIOUS
      <4>1. a[m + 1] < b[m + 1] /\ m < Len(b)
        BY <1>1 DEF Before
      <4>2. a[m + 1] \in Int /\ b[m + 1] \in Int /\ c[m + 1] \in Int
        BY <3>2, <4>1, SMTT(30)
      <4>3. b[m + 1] <= c[m + 1]
        <5>1. CASE m = n
          BY <1>2, <4>1, <4>2, <5>1 DEF Before
        <5>2. CASE m < n
          <6>1. m + 1 \in 1 .. n
            BY <5>2
          <6> QED BY <1>2, <4>2, <6>1, SMTT(30) DEF Before, Part, Agree
        <5> QED BY <1>3, <5>1, <5>2
      <4> QED BY <4>1, <4>2, <4>3, SMTT(30)
    <3>4. m = Len(a) \/ a[m + 1] # c[m + 1]
      <4>1. m <= Len(a)
        BY <3>1 DEF Agree
      <4>2. CASE m < Len(a)
        <5>1. a[m + 1] \in Int /\ c[m + 1] \in Int
          BY <3>2, <4>2
        <5> QED BY <3>3, <4>2, <5>1
      <4> QED BY <4>1, <4>2
    <3> QED BY <3>1, <3>2, <3>3, <3>4 DEF Before, Part
  <2> QED BY <2>1, LessIff
<1>4. CASE n < m
  <2>1. Before(a, c, n)
    <3>1. Agree(a, c, n)
      <4>1. n <= Len(a) /\ n <= Len(c) /\ \A i \in 1 .. n : i \in 1 .. m
        BY <1>1, <1>2, <1>4, SMTT(30) DEF Before, Part, Agree
      <4> QED BY <1>1, <1>2, <4>1 DEF Before, Part, Agree
    <3>2. n < Len(c) /\ n < Len(a) /\ n < Len(b)
      <4>1. n < Len(c) /\ m <= Len(a) /\ m < Len(b)
        BY <1>1, <1>2 DEF Before, Part, Agree
      <4> QED BY <1>4, <4>1
    <3>3. n + 1 \in 1 .. m
      BY <1>4
    <3>4. a[n + 1] = b[n + 1]
      BY <1>1, <3>3 DEF Before, Part, Agree
    <3>5. b[n + 1] < c[n + 1]
      BY <1>2, <3>2 DEF Before
    <3>6. a[n + 1] \in Int /\ c[n + 1] \in Int
      BY <3>2
    <3>7. a[n + 1] < c[n + 1] /\ a[n + 1] # c[n + 1]
      BY <3>4, <3>5, <3>6
    <3> QED BY <3>1, <3>2, <3>7 DEF Before, Part
  <2> QED BY <2>1, LessIff
<1> QED BY <1>3, <1>4

-----------------------------------------------------------------------------
(* Iterators.                                                              *)

\* The keys of a tree: finitely many, none of them the sentinel or the mark
\* for the position past the last key.
Keyed(m) ==
    /\ IsFiniteSet(DOMAIN m)
    /\ DOMAIN m \subseteq Seq(Int)
    /\ First \notin DOMAIN m /\ Past \notin DOMAIN m

\* a comes before b in a scan, ascending or descending.
Ahead(d, a, b) == IF d = 1 THEN Compare(a, b) < 0 ELSE Compare(b, a) < 0

LEMMA AheadOrder ==
    ASSUME NEW d, NEW a \in Seq(Int), NEW b \in Seq(Int)
    PROVE  /\ ~Ahead(d, a, a)
           /\ Ahead(d, a, b) => ~Ahead(d, b, a)
           /\ a = b \/ Ahead(d, a, b) \/ Ahead(d, b, a)
           /\ \A c \in Seq(Int) : Ahead(d, a, b) /\ Ahead(d, b, c) => Ahead(d, a, c)
<1>1. Compare(a, a) = 0
  BY CompareTotal
<1>2. /\ Compare(a, b) < 0 => ~(Compare(b, a) < 0)
      /\ a = b \/ Compare(a, b) < 0 \/ Compare(b, a) < 0
  <2>1. /\ Compare(a, b) \in {-1, 0, 1} /\ Compare(b, a) \in {-1, 0, 1}
        /\ Compare(a, b) = 0 <=> a = b
        /\ Compare(a, b) < 0 <=> Compare(b, a) > 0
        /\ Compare(a, b) > 0 <=> Compare(b, a) < 0
    BY CompareTotal
  <2> QED BY <2>1
<1>3. ASSUME NEW c \in Seq(Int), Ahead(d, a, b), Ahead(d, b, c) PROVE Ahead(d, a, c)
  <2>1. CASE d = 1
    BY <1>3, <2>1, LessTransitive DEF Ahead
  <2>2. CASE d # 1
    BY <1>3, <2>2, LessTransitive DEF Ahead
  <2> QED BY <2>1, <2>2
<1>4. ~Ahead(d, a, a)
  BY <1>1 DEF Ahead
<1>5. /\ Ahead(d, a, b) => ~Ahead(d, b, a)
      /\ a = b \/ Ahead(d, a, b) \/ Ahead(d, b, a)
  BY <1>2 DEF Ahead
<1> QED BY <1>3, <1>4, <1>5

\* k is the first of S.
IsFront(d, k, S) == k \in S /\ \A j \in S : j = k \/ Ahead(d, k, j)

LEMMA FrontExists ==
    ASSUME NEW d, NEW S, S \subseteq Seq(Int), IsFiniteSet(S), S # {}
    PROVE  \E k \in S : IsFront(d, k, S)
<1> DEFINE before(k) == {j \in S : Ahead(d, j, k)}
           C == {Cardinality(before(k)) : k \in S}
<1>1. \A k \in S : IsFiniteSet(before(k)) /\ Cardinality(before(k)) \in Nat
  <2> SUFFICES ASSUME NEW k \in S
               PROVE  IsFiniteSet(before(k)) /\ Cardinality(before(k)) \in Nat
    OBVIOUS
  <2>1. before(k) \subseteq S
    OBVIOUS
  <2> HIDE DEF before
  <2> QED BY <2>1, FS_Subset, FS_CardinalityType
<1>2. C \in SUBSET Nat /\ C # {}
  BY <1>1
<1>3. PICK n \in C : \A m \in C : n <= m
  BY <1>2, LeastNat
<1>4. PICK k \in S : n = Cardinality(before(k))
  OBVIOUS
<1>5. ASSUME NEW j \in S, Ahead(d, j, k) PROVE FALSE
  <2>1. j \in before(k)
    BY <1>5
  <2>2. before(j) \subseteq before(k)
    BY <1>5, AheadOrder
  <2>3. j \notin before(j)
    BY AheadOrder
  <2>4. Cardinality(before(j)) < Cardinality(before(k))
    <3> HIDE DEF before
    <3>1. Cardinality(before(j)) <= Cardinality(before(k)) /\
          (Cardinality(before(j)) = Cardinality(before(k)) => before(j) = before(k))
      BY <1>1, <2>2, FS_Subset
    <3> QED BY <1>1, <2>1, <2>3, <3>1
  <2>5. Cardinality(before(k)) <= Cardinality(before(j))
    <3>1. Cardinality(before(j)) \in C
      OBVIOUS
    <3> QED BY <1>3, <1>4, <3>1
  <2> HIDE DEF before
  <2> QED BY <1>1, <2>4, <2>5
<1>6. \A j \in S : j = k \/ Ahead(d, k, j)
  BY <1>5, AheadOrder
<1> QED BY <1>6 DEF IsFront

\* The key closest to the start of the scan, as Seek and Next pick it.
Foremost(d, S) == IF d = 1 THEN Least(S) ELSE Greatest(S)

LEMMA FrontIs ==
    ASSUME NEW d, NEW S, S \subseteq Seq(Int), NEW k, IsFront(d, k, S)
    PROVE  Foremost(d, S) = k
<1>1. k \in S /\ S # {}
  BY DEF IsFront
<1>2. CASE d = 1
  <2>1. \A j \in S : Compare(k, j) <= 0
    <3> SUFFICES ASSUME NEW j \in S PROVE Compare(k, j) <= 0
      OBVIOUS
    <3>1. j = k \/ Compare(k, j) < 0
      BY <1>2 DEF IsFront, Ahead
    <3>2. Compare(k, k) = 0 /\ Compare(k, j) \in {-1, 0, 1}
      BY <1>1, CompareTotal
    <3> QED BY <3>1, <3>2
  <2>2. ASSUME NEW i \in S, \A j \in S : Compare(i, j) <= 0 PROVE i = k
    <3>1. Compare(i, k) <= 0 /\ Compare(k, i) <= 0
      BY <1>1, <2>1, <2>2
    <3> QED BY <1>1, <3>1, CompareTotal
  <2>3. Least(S) = k
    BY <1>1, <2>1, <2>2 DEF Least
  <2> QED BY <1>2, <2>3 DEF Foremost
<1>3. CASE d # 1
  <2>1. \A j \in S : Compare(k, j) >= 0
    <3> SUFFICES ASSUME NEW j \in S PROVE Compare(k, j) >= 0
      OBVIOUS
    <3>1. j = k \/ Compare(j, k) < 0
      BY <1>3 DEF IsFront, Ahead
    <3>2. Compare(k, k) = 0 /\ (Compare(j, k) < 0 => Compare(k, j) > 0)
          /\ Compare(k, j) \in {-1, 0, 1}
      BY <1>1, CompareTotal
    <3> QED BY <3>1, <3>2
  <2>2. ASSUME NEW i \in S, \A j \in S : Compare(i, j) >= 0 PROVE i = k
    <3>1. Compare(i, k) >= 0 /\ Compare(k, i) >= 0
      BY <1>1, <2>1, <2>2
    <3> QED BY <1>1, <3>1, CompareTotal, SMTT(30)
  <2>3. Greatest(S) = k
    BY <1>1, <2>1, <2>2 DEF Greatest
  <2> QED BY <1>3, <2>3 DEF Foremost
<1> QED BY <1>2, <1>3

LEMMA FrontFacts ==
    ASSUME NEW d, NEW S, S \subseteq Seq(Int), IsFiniteSet(S), S # {}
    PROVE  IsFront(d, Foremost(d, S), S)
<1>1. PICK k \in S : IsFront(d, k, S)
  BY FrontExists
<1> QED BY <1>1, FrontIs

LEMMA FrontEmpty ==
    ASSUME NEW d
    PROVE  Foremost(d, {}) = IF d = 1 THEN Past ELSE First
BY DEF Foremost, Least, Greatest

From(d, M, c)  == {k \in M : k = c \/ Ahead(d, c, k)}
After(d, M, c) == {k \in M : Ahead(d, c, k)}

\* An iterator over one tree is valid unless nothing is left of its keys.
LEMMA PositionFacts ==
    ASSUME NEW d, NEW m, Keyed(m), NEW F, F \subseteq DOMAIN m
    PROVE  /\ Foremost(d, F) \in DOMAIN m <=> F # {}
           /\ F # {} => IsFront(d, Foremost(d, F), F)
<1>1. F \subseteq Seq(Int) /\ IsFiniteSet(F)
  BY FS_Subset DEF Keyed
<1>2. CASE F = {}
  <2>1. Foremost(d, F) \notin DOMAIN m
    BY <1>2, FrontEmpty DEF Keyed
  <2> QED BY <1>2, <2>1
<1>3. CASE F # {}
  <2>1. IsFront(d, Foremost(d, F), F)
    BY <1>1, <1>3, FrontFacts
  <2> QED BY <1>3, <2>1 DEF IsFront
<1> QED BY <1>2, <1>3

\* Next and Prev of an iterator over one tree.
Moved(b, d) == IF d > 0 THEN biNext(b) ELSE biPrev(b)

\* The move from c is not the one that Next gets wrong: forward from the last key
\* of a tree of three or more levels (btree_iter.go, lines 84-96).
GoesOn(m, d, c) == d = 1 => Shallow(m) \/ After(1, DOMAIN m, c) # {}

LEMMA MoveFacts ==
    ASSUME NEW d \in {1, -1}, NEW m, Keyed(m), NEW c \in DOMAIN m, GoesOn(m, d, c)
    PROVE  Moved([map |-> m, at |-> c], d) = [map |-> m, at |-> Foremost(d, After(d, DOMAIN m, c))]
<1>1. \A k \in DOMAIN m : Compare(k, c) > 0 <=> Compare(c, k) < 0
  BY CompareTotal DEF Keyed
<1>2. CASE d = 1
  <2>1. {k \in DOMAIN m : Compare(k, c) > 0} = After(1, DOMAIN m, c)
    BY <1>1 DEF After, Ahead
  <2>2. Onward(m, After(1, DOMAIN m, c)) = Least(After(1, DOMAIN m, c))
    BY <1>2 DEF GoesOn, Onward
  <2>3. biNext([map |-> m, at |-> c]) = [map |-> m, at |-> Least(After(1, DOMAIN m, c))]
    BY <2>1, <2>2 DEF biNext
  <2> QED BY <1>2, <2>3 DEF Moved, Foremost
<1>3. CASE d = -1
  <2>1. -1 # 1 /\ ~(-1 > 0)
    OBVIOUS
  <2>2. {k \in DOMAIN m : Compare(k, c) < 0} = After(-1, DOMAIN m, c)
    BY <2>1 DEF After, Ahead
  <2>3. biPrev([map |-> m, at |-> c]) = [map |-> m, at |-> Greatest(After(-1, DOMAIN m, c))]
    BY <2>2 DEF biPrev
  <2> QED BY <1>3, <2>1, <2>3 DEF Moved, Foremost
<1> QED BY <1>2, <1>3

\* An iterator over the pending updates and the snapshot.
IsIter(it) ==
    /\ it = [top       |-> [map |-> it.top.map, at |-> it.top.at],
             bottom    |-> [map |-> it.bottom.map, at |-> it.bottom.at],
             direction |-> it.direction, endKey |-> it.endKey, endCmp |-> it.endCmp]
    /\ it.direction \in {1, -1}
    /\ Keyed(it.top.map) /\ Keyed(it.bottom.map)

keysOf(it) == DOMAIN it.top.map \cup DOMAIN it.bottom.map

\* Next gets on from c in the trees that have c.
NextGoesOn(it, c) ==
    \A m \in {it.top.map, it.bottom.map} : c \in DOMAIN m => GoesOn(m, it.direction, c)

\* It stands at c: each of the two iterators is at its first key from c on.
Stands(it, c) ==
    /\ it.top.at    = Foremost(it.direction, From(it.direction, DOMAIN it.top.map, c))
    /\ it.bottom.at = Foremost(it.direction, From(it.direction, DOMAIN it.bottom.map, c))

\* In one tree: at c itself, or else at a key after it.
LEMMA StandsIn ==
    ASSUME NEW d, NEW m, Keyed(m), NEW c \in Seq(Int), NEW at, at = Foremost(d, From(d, DOMAIN m, c))
    PROVE  /\ c \in DOMAIN m => at = c
           /\ at \in DOMAIN m => at \in Seq(Int) /\ (at = c \/ Ahead(d, c, at))
           /\ c \notin DOMAIN m => at = Foremost(d, After(d, DOMAIN m, c))
<1> DEFINE F == From(d, DOMAIN m, c)
<1>1. F \subseteq DOMAIN m /\ F \subseteq Seq(Int)
  BY DEF From, Keyed
<1>2. ASSUME c \in DOMAIN m PROVE at = c
  <2>1. IsFront(d, c, F)
    BY <1>2 DEF From, IsFront
  <2> HIDE DEF F
  <2> QED BY <1>1, <2>1, FrontIs DEF F
<1>3. ASSUME at \in DOMAIN m PROVE at \in Seq(Int) /\ (at = c \/ Ahead(d, c, at))
  <2>1. at \in F
    <3> HIDE DEF F
    <3>1. at = Foremost(d, F)
      BY DEF F
    <3> QED BY <1>1, <1>3, <3>1, PositionFacts DEF IsFront
  <2> QED BY <1>1, <2>1 DEF From
<1>4. ASSUME c \notin DOMAIN m PROVE at = Foremost(d, After(d, DOMAIN m, c))
  <2>1. F = After(d, DOMAIN m, c)
    BY <1>4 DEF From, After
  <2> QED BY <2>1
<1> QED BY <1>2, <1>3, <1>4

\* The merged iterator at c shows c, with the pending value if there is one.
LEMMA StandsAt ==
    ASSUME NEW it, IsIter(it), NEW c \in keysOf(it), Stands(it, c)
    PROVE  /\ c \in Seq(Int)
           /\ ~Neither(it) /\ CurKey(it) = c
           /\ AtBottom(it) <=> c \notin DOMAIN it.top.map
           /\ CurVal(it) = IF c \in DOMAIN it.top.map THEN it.top.map[c].val
                           ELSE it.bottom.map[c]
<1> DEFINE d == it.direction
           P == it.top.map
           B == it.bottom.map
           a == it.top.at
           b == it.bottom.at
<1>1. c \in Seq(Int) /\ Keyed(P) /\ Keyed(B) /\ d \in {1, -1}
  BY DEF IsIter, Keyed, keysOf
<1>2. /\ c \in DOMAIN P => a = c
      /\ a \in DOMAIN P => a \in Seq(Int) /\ (a = c \/ Ahead(d, c, a))
      /\ c \notin DOMAIN P => a = Foremost(d, After(d, DOMAIN P, c))
  BY <1>1, StandsIn DEF Stands
<1>3. /\ c \in DOMAIN B => b = c
      /\ b \in DOMAIN B => b \in Seq(Int) /\ (b = c \/ Ahead(d, c, b))
  BY <1>1, StandsIn DEF Stands
<1>4. ASSUME a \in DOMAIN P, b \in DOMAIN B
      PROVE  Compare(a, b) = d <=> Ahead(d, b, a)
  <2>1. a \in Seq(Int) /\ b \in Seq(Int)
    BY <1>2, <1>3, <1>4
  <2>2. /\ Compare(a, b) \in {-1, 0, 1}
        /\ Compare(a, b) > 0 <=> Compare(b, a) < 0
    BY <2>1, CompareTotal
  <2>3. CASE d = 1
    BY <2>2, <2>3 DEF Ahead
  <2>4. CASE d = -1
    BY <2>2, <2>4 DEF Ahead
  <2> QED BY <1>1, <2>3, <2>4
<1>5. CASE c \in DOMAIN P
  <2>1. a = c /\ a \in DOMAIN P
    BY <1>2, <1>5
  <2>2. ~AtBottom(it)
    <3>1. CASE b \in DOMAIN B
      <4>1. ~Ahead(d, b, c)
        <5>1. b \in Seq(Int) /\ (b = c \/ Ahead(d, c, b))
          BY <1>3, <3>1
        <5> HIDE DEF d, b
        <5> QED BY <1>1, <5>1, AheadOrder
      <4> QED BY <1>4, <2>1, <3>1, <4>1 DEF AtBottom, biValid
    <3>2. CASE b \notin DOMAIN B
      BY <3>2 DEF AtBottom, biValid
    <3> QED BY <3>1, <3>2
  <2> QED BY <1>1, <1>5, <2>1, <2>2 DEF Neither, CurKey, CurVal, biValid
<1>6. CASE c \notin DOMAIN P
  <2>1. c \in DOMAIN B /\ b = c
    BY <1>3, <1>6 DEF keysOf
  <2>2. AtBottom(it)
    <3>1. CASE a \in DOMAIN P
      <4>1. Ahead(d, b, a)
        BY <1>2, <1>6, <2>1, <3>1
      <4> QED BY <1>4, <2>1, <3>1, <4>1 DEF AtBottom, biValid
    <3>2. CASE a \notin DOMAIN P
      BY <2>1, <3>2 DEF AtBottom, biValid
    <3> QED BY <3>1, <3>2
  <2> QED BY <1>1, <1>6, <2>1, <2>2 DEF Neither, CurKey, CurVal, biValid
<1> QED BY <1>5, <1>6

\* The iterator with the two inside it replaced.
IterWith(it, t, b) ==
    [top |-> t, bottom |-> b, direction |-> it.direction, endKey |-> it.endKey, endCmp |-> it.endCmp]

LEMMA IterExcept ==
    ASSUME NEW it, it = IterWith(it, it.top, it.bottom), NEW t, NEW b
    PROVE  [it EXCEPT !.top = t, !.bottom = b] = IterWith(it, t, b)
<1> DEFINE R == [top : {it.top, t}, bottom : {it.bottom, b}, direction : {it.direction},
                 endKey : {it.endKey}, endCmp : {it.endCmp}]
           i1 == IterWith(it, t, it.bottom)
<1>1. it \in R /\ i1 \in R
  BY DEF IterWith
<1>2. [it EXCEPT !.top = t] = i1
  <2>1. [it EXCEPT !.top = t] \in R
    BY <1>1
  <2> QED BY <1>1, <2>1 DEF IterWith
<1>3. [i1 EXCEPT !.bottom = b] = IterWith(it, t, b)
  <2>1. [i1 EXCEPT !.bottom = b] \in R
    BY <1>1
  <2> QED BY <2>1 DEF IterWith
<1>4. [it EXCEPT !.top = t, !.bottom = b] = [[it EXCEPT !.top = t] EXCEPT !.bottom = b]
  OBVIOUS
<1> QED BY <1>2, <1>3, <1>4

\* What Next does to the two iterators: each is at its first key after c.
LEMMA NextMoves ==
    ASSUME NEW it, IsIter(it), NEW c \in keysOf(it), Stands(it, c), NextGoesOn(it, c)
    PROVE  LET d == it.direction
               P == it.top.map
               B == it.bottom.map
           IN  ciNext(it) =
                 [it EXCEPT !.top    = [map |-> P, at |-> Foremost(d, After(d, DOMAIN P, c))],
                            !.bottom = [map |-> B, at |-> Foremost(d, After(d, DOMAIN B, c))]]
<1> DEFINE d == it.direction
           P == it.top.map
           B == it.bottom.map
           a == it.top.at
           b == it.bottom.at
           equal == a \in DOMAIN P /\ b \in DOMAIN B /\ a = b
           newTop == [map |-> P, at |-> Foremost(d, After(d, DOMAIN P, c))]
           newBottom == [map |-> B, at |-> Foremost(d, After(d, DOMAIN B, c))]
<1>1. /\ Keyed(P) /\ Keyed(B) /\ d \in {1, -1}
      /\ it.top = [map |-> P, at |-> a] /\ it.bottom = [map |-> B, at |-> b]
      /\ it = [top |-> it.top, bottom |-> it.bottom, direction |-> d, endKey |-> it.endKey,
               endCmp |-> it.endCmp]
  BY DEF IsIter
<1>2. c \in Seq(Int) /\ (AtBottom(it) <=> c \notin DOMAIN P)
  BY StandsAt
<1>3. /\ c \in DOMAIN P => a = c
      /\ c \notin DOMAIN P => a = Foremost(d, After(d, DOMAIN P, c))
  BY <1>1, <1>2, StandsIn DEF Stands
<1>4. /\ c \in DOMAIN B => b = c
      /\ c \notin DOMAIN B => b = Foremost(d, After(d, DOMAIN B, c))
  BY <1>1, <1>2, StandsIn DEF Stands
<1>5. equal <=> c \in DOMAIN P /\ c \in DOMAIN B
  <2>1. ASSUME equal PROVE c \in DOMAIN P /\ c \in DOMAIN B
    <3>1. c \in DOMAIN P \/ c \in DOMAIN B
      BY DEF keysOf
    <3> QED BY <1>3, <1>4, <2>1, <3>1
  <2>2. ASSUME c \in DOMAIN P /\ c \in DOMAIN B PROVE equal
    BY <1>3, <1>4, <2>2
  <2> QED BY <2>1, <2>2
<1>6. (IF ~(equal \/ ~AtBottom(it)) THEN it.top ELSE Moved(it.top, d)) = newTop
  <2>1. CASE c \in DOMAIN P
    <3>1. Moved([map |-> P, at |-> c], d) = newTop
      BY <1>1, <2>1, MoveFacts DEF NextGoesOn
    <3> QED BY <1>1, <1>2, <1>3, <2>1, <3>1
  <2>2. CASE c \notin DOMAIN P
    BY <1>1, <1>2, <1>3, <1>5, <2>2
  <2> QED BY <2>1, <2>2
<1>7. (IF ~(equal \/ AtBottom(it)) THEN it.bottom ELSE Moved(it.bottom, d)) = newBottom
  <2>1. CASE c \in DOMAIN B
    <3>1. Moved([map |-> B, at |-> c], d) = newBottom
      BY <1>1, <2>1, MoveFacts DEF NextGoesOn
    <3>2. equal \/ AtBottom(it)
      BY <1>2, <1>5, <2>1
    <3> QED BY <1>1, <1>4, <2>1, <3>1, <3>2
  <2>2. CASE c \notin DOMAIN B
    <3>1. ~(equal \/ AtBottom(it))
      BY <1>2, <1>5, <2>2 DEF keysOf
    <3> QED BY <1>1, <1>4, <2>2, <3>1
  <2> QED BY <2>1, <2>2
<1>8. ciNext(it) =
        [it EXCEPT !.top    = IF ~(equal \/ ~AtBottom(it)) THEN it.top ELSE Moved(it.top, d),
                   !.bottom = IF ~(equal \/ AtBottom(it)) THEN it.bottom ELSE Moved(it.bottom, d)]
  BY DEF ciNext, Moved, biValid
<1>9. ciNext(it) = [it EXCEPT !.top = newTop, !.bottom = newBottom]
  BY <1>6, <1>7, <1>8
<1> QED BY <1>9

\* Standing at the first of some keys, for one of the two trees.
LEMMA FromFront ==
    ASSUME NEW d, NEW K, K \subseteq Seq(Int), NEW M, M \subseteq Seq(Int),
           NEW m, IsFront(d, m, K),
           \A k \in M : \A j \in K : Ahead(d, j, k) => k \in K
    PROVE  From(d, M, m) = M \cap K
<1>1. ASSUME NEW k \in From(d, M, m) PROVE k \in M \cap K
  <2>1. k \in M /\ (k = m \/ Ahead(d, m, k)) /\ m \in K
    BY <1>1 DEF From, IsFront
  <2> QED BY <2>1
<1>2. ASSUME NEW k \in M \cap K PROVE k \in From(d, M, m)
  BY <1>2 DEF From, IsFront
<1> QED BY <1>1, <1>2

\* A scan of a transaction goes over the keys of its pending updates and of its
\* snapshot, each once and in order, whichever way it goes: from a key Next goes
\* to the nearest one that follows it, or the iterator is no longer valid, and
\* the value shown is the pending one where there is one (transaction.go
\* CombinedIter).  Left out is Next from the last key of a tree of three or more
\* levels, which does not get past it.
THEOREM ScanInOrder ==
    ASSUME NEW it, IsIter(it), NEW c \in keysOf(it), Stands(it, c), NextGoesOn(it, c)
    PROVE  LET next == ciNext(it)
               d    == it.direction
               rest == After(d, keysOf(it), c)
           IN  /\ CurKey(it) = c
               /\ CurVal(it) = IF c \in DOMAIN it.top.map THEN it.top.map[c].val
                               ELSE it.bottom.map[c]
               /\ IsIter(next) /\ keysOf(next) = keysOf(it) /\ next.direction = d
               /\ IF rest = {} THEN Neither(next)
                  ELSE IsFront(d, Foremost(d, rest), rest) /\ Stands(next, Foremost(d, rest))
<1> DEFINE d == it.direction
           P == it.top.map
           B == it.bottom.map
           next == ciNext(it)
           K == keysOf(it)
           rest == After(d, K, c)
           f == Foremost(d, rest)
<1>1. Keyed(P) /\ Keyed(B) /\ d \in {1, -1}
  BY DEF IsIter
<1>2. /\ next.top = [map |-> P, at |-> Foremost(d, After(d, DOMAIN P, c))]
      /\ next.bottom = [map |-> B, at |-> Foremost(d, After(d, DOMAIN B, c))]
      /\ next.direction = d /\ next.endKey = it.endKey /\ next.endCmp = it.endCmp
      /\ next = [top |-> next.top, bottom |-> next.bottom, direction |-> d,
                 endKey |-> it.endKey, endCmp |-> it.endCmp]
  <2> DEFINE t == [map |-> P, at |-> Foremost(d, After(d, DOMAIN P, c))]
             b == [map |-> B, at |-> Foremost(d, After(d, DOMAIN B, c))]
  <2>1. next = [it EXCEPT !.top = t, !.bottom = b]
    BY NextMoves
  <2>2. it = IterWith(it, it.top, it.bottom)
    BY DEF IsIter, IterWith
  <2> HIDE DEF t, b, next
  <2>3. next = IterWith(it, t, b)
    BY <2>1, <2>2, IterExcept, ZenonT(60)
  <2>4. /\ next.top = t /\ next.bottom = b
        /\ next.direction = d /\ next.endKey = it.endKey /\ next.endCmp = it.endCmp
    BY <2>3 DEF IterWith
  <2> QED BY <2>3, <2>4 DEF t, b, IterWith
<1>3. IsIter(next) /\ keysOf(next) = K
  BY <1>1, <1>2 DEF IsIter, keysOf
<1>4. K \subseteq Seq(Int) /\ IsFiniteSet(K) /\ c \in Seq(Int) /\ rest \subseteq K
      /\ K = DOMAIN P \cup DOMAIN B
  BY <1>1, FS_Union DEF Keyed, keysOf, After
<1>5. CASE rest = {}
  <2>1. After(d, DOMAIN P, c) = {} /\ After(d, DOMAIN B, c) = {}
    BY <1>4, <1>5 DEF After
  <2>2. Foremost(d, {}) \notin DOMAIN P /\ Foremost(d, {}) \notin DOMAIN B
    BY <1>1, FrontEmpty DEF Keyed
  <2>3. Neither(next)
    BY <1>2, <2>1, <2>2 DEF Neither, biValid
  <2> QED BY <1>2, <1>3, <1>5, <2>3, StandsAt
<1>6. CASE rest # {}
  <2>1. rest \subseteq Seq(Int) /\ IsFiniteSet(rest)
    BY <1>4, FS_Subset
  <2>2. IsFront(d, f, rest)
    BY <1>6, <2>1, FrontFacts
  <2>3. \A k \in K : \A j \in rest : Ahead(d, j, k) => k \in rest
    <3> SUFFICES ASSUME NEW k \in K, NEW j \in rest, Ahead(d, j, k) PROVE Ahead(d, c, k)
      BY DEF After
    <3>1. Ahead(d, c, j) /\ j \in Seq(Int) /\ k \in Seq(Int)
      BY <1>4, <2>1 DEF After
    <3> QED BY <1>4, <3>1, AheadOrder
  <2>4. From(d, DOMAIN P, f) = After(d, DOMAIN P, c)
    <3>1. From(d, DOMAIN P, f) = DOMAIN P \cap rest
      <4> HIDE DEF rest, f, K
      <4> QED BY <1>4, <2>1, <2>2, <2>3, FromFront, SMTT(30) DEF Keyed
    <3> QED BY <1>4, <3>1 DEF After
  <2>5. From(d, DOMAIN B, f) = After(d, DOMAIN B, c)
    <3>1. From(d, DOMAIN B, f) = DOMAIN B \cap rest
      <4> HIDE DEF rest, f, K
      <4> QED BY <1>4, <2>1, <2>2, <2>3, FromFront DEF Keyed
    <3> QED BY <1>4, <3>1 DEF After
  <2>6. Stands(next, f)
    BY <1>2, <2>4, <2>5 DEF Stands
  <2> QED BY <1>2, <1>3, <1>6, <2>2, <2>6, StandsAt
<1> QED BY <1>5, <1>6

Comparisons4 == {"GE", "GT", "LT", "LE"}

\* How a relation to a key looks in the order of the scan that it starts.
LEMMA RelationAhead ==
    ASSUME NEW k \in Seq(Int), NEW key \in Seq(Int), NEW cmp \in Comparisons4
    PROVE  LET d == IF Forward(cmp) THEN 1 ELSE -1
           IN  /\ cmp \in {"GE", "LE"} => (cmpOK(k, cmp, key) <=> (k = key \/ Ahead(d, key, k)))
               /\ cmp \in {"GT", "LT"} => (cmpOK(k, cmp, key) <=> Ahead(d, key, k))
<1>1. /\ Compare(k, key) \in {-1, 0, 1}
      /\ Compare(k, key) = 0 <=> k = key
      /\ Compare(k, key) > 0 <=> Compare(key, k) < 0
  BY CompareTotal
<1>2. -1 # 1
  OBVIOUS
<1>3. CASE cmp = "GE"
  BY <1>1, <1>3 DEF cmpOK, Then, Forward, Ahead
<1>4. CASE cmp = "GT"
  BY <1>1, <1>4 DEF cmpOK, Then, Forward, Ahead
<1>5. CASE cmp = "LT"
  BY <1>1, <1>2, <1>5 DEF cmpOK, Then, Forward, Ahead
<1>6. CASE cmp = "LE"
  BY <1>1, <1>2, <1>6 DEF cmpOK, Then, Forward, Ahead
<1> QED BY <1>3, <1>4, <1>5, <1>6 DEF Comparisons4

\* What satisfies the relation is closed under going on in the scan.
LEMMA RelationUpward ==
    ASSUME NEW j \in Seq(Int), NEW k \in Seq(Int), NEW key \in Seq(Int), NEW cmp \in Comparisons4,
           cmpOK(j, cmp, key), Ahead(IF Forward(cmp) THEN 1 ELSE -1, j, k)
    PROVE  cmpOK(k, cmp, key)
<1> DEFINE d == IF Forward(cmp) THEN 1 ELSE -1
<1>1. Ahead(d, key, k)
  <2>1. j = key \/ Ahead(d, key, j)
    BY RelationAhead DEF Comparisons4
  <2>2. Ahead(d, j, k)
    OBVIOUS
  <2> HIDE DEF d
  <2> QED BY <2>1, <2>2, AheadOrder
<1> QED BY <1>1, RelationAhead DEF Comparisons4

\* Seek asks for keys past the last one of a tree of three or more levels.
Stuck(m, key, cmp) ==
    Forward(cmp) /\ ~Shallow(m) /\ \A k \in DOMAIN m : ~cmpOK(k, cmp, key)

\* Seek in one tree: it goes to the nearest key in the relation, or its assert fails.
LEMMA SeekOne ==
    ASSUME NEW m, Keyed(m), NEW key \in Seq(Int), NEW cmp \in Comparisons4
    PROVE  LET d == IF Forward(cmp) THEN 1 ELSE -1
           IN  /\ seekFails(biSeek(m, key, cmp), key, cmp) <=> Stuck(m, key, cmp)
               /\ ~Stuck(m, key, cmp) =>
                      biSeek(m, key, cmp) =
                          [map |-> m, at |-> Foremost(d, {k \in DOMAIN m : cmpOK(k, cmp, key)})]
<1> DEFINE d == IF Forward(cmp) THEN 1 ELSE -1
           S == {k \in DOMAIN m : cmpOK(k, cmp, key)}
           b == biSeek(m, key, cmp)
           at == IF Forward(cmp) THEN Onward(m, S) ELSE Greatest(S)
<1>1. b = [map |-> m, at |-> at]
  BY Zenon DEF biSeek, Then
<1>2. b.map = m /\ b.at = at
  <2> HIDE DEF b, at
  <2> QED BY <1>1
<1>3. S \subseteq DOMAIN m /\ (S = {} <=> \A k \in DOMAIN m : ~cmpOK(k, cmp, key))
  OBVIOUS
<1>4. CASE Stuck(m, key, cmp)
  <2>1. at = BackTo[m] /\ m \in DOMAIN BackTo
    BY <1>3, <1>4 DEF Stuck, Onward, Shallow
  <2>2. at \in DOMAIN m /\ ~cmpOK(at, cmp, key)
    BY <1>4, <2>1, BackToAssumption DEF Stuck
  <2>3. seekFails(b, key, cmp)
    <3> HIDE DEF b, at
    <3> QED BY <1>2, <2>2 DEF seekFails, biValid
  <2> QED BY <1>4, <2>3
<1>5. CASE ~Stuck(m, key, cmp)
  <2>1. at = Foremost(d, S)
    <3>1. CASE Forward(cmp)
      <4>1. Onward(m, S) = Least(S)
        BY <1>3, <1>5, <3>1 DEF Stuck, Onward
      <4> QED BY <3>1, <4>1 DEF Foremost
    <3>2. CASE ~Forward(cmp)
      BY <3>2 DEF Foremost
    <3> QED BY <3>1, <3>2
  <2>2. /\ Foremost(d, S) \in DOMAIN m <=> S # {}
        /\ S # {} => IsFront(d, Foremost(d, S), S)
    <3> HIDE DEF d, S
    <3> QED BY <1>3, PositionFacts
  <2>3. S # {} => cmpOK(Foremost(d, S), cmp, key)
    <3>1. S # {} => Foremost(d, S) \in S
      <4> HIDE DEF d, S
      <4> QED BY <2>2 DEF IsFront
    <3>2. \A k \in S : cmpOK(k, cmp, key)
      OBVIOUS
    <3> HIDE DEF d, S
    <3> QED BY <3>1, <3>2
  <2>4. ~seekFails(b, key, cmp)
    <3> HIDE DEF b, at, d, S
    <3> QED BY <1>2, <2>1, <2>2, <2>3 DEF seekFails, biValid
  <2> QED BY <1>1, <1>5, <2>1, <2>4
<1> QED BY <1>4, <1>5

\* Seek starts at the nearest key, of the pending updates and the snapshot together,
\* that is in the relation asked for; there the merged iterator stands, or it is
\* not valid at once.
StartsAt(it, tx, key1, cmp1, key2, cmp2) ==
    LET d     == IF Forward(cmp1) THEN 1 ELSE -1
        found == {k \in DOMAIN tx.pending \cup DOMAIN tx.snapshot : cmpOK(k, cmp1, key1)}
    IN  /\ IsIter(it) /\ it.direction = d /\ it.endKey = key2 /\ it.endCmp = cmp2
        /\ it.top.map = tx.pending /\ it.bottom.map = tx.snapshot
        /\ IF found = {} THEN Neither(it)
           ELSE IsFront(d, Foremost(d, found), found) /\ Stands(it, Foremost(d, found))

LEMMA StartsRight ==
    ASSUME NEW tx, Keyed(tx.pending), Keyed(tx.snapshot),
           NEW key1 \in Seq(Int), NEW cmp1 \in Comparisons4, NEW key2, NEW cmp2,
           ~Stuck(tx.pending, key1, cmp1), ~Stuck(tx.snapshot, key1, cmp1)
    PROVE  StartsAt(startAt(tx, key1, cmp1, key2, cmp2), tx, key1, cmp1, key2, cmp2)
<1> DEFINE it == startAt(tx, key1, cmp1, key2, cmp2)
           d == IF Forward(cmp1) THEN 1 ELSE -1
           P == tx.pending
           B == tx.snapshot
           ok(k) == cmpOK(k, cmp1, key1)
           found == {k \in DOMAIN P \cup DOMAIN B : ok(k)}
           top == {k \in DOMAIN P : ok(k)}
           bottom == {k \in DOMAIN B : ok(k)}
           f == Foremost(d, found)
<1> SUFFICES /\ IsIter(it) /\ it.direction = d /\ it.endKey = key2 /\ it.endCmp = cmp2
             /\ it.top.map = P /\ it.bottom.map = B
             /\ IF found = {} THEN Neither(it)
                ELSE IsFront(d, Foremost(d, found), found) /\ Stands(it, Foremost(d, found))
  BY Zenon DEF StartsAt
<1>1. d \in {1, -1} /\ (d = 1 <=> Forward(cmp1))
  OBVIOUS
<1>2. /\ biSeek(P, key1, cmp1) = [map |-> P, at |-> Foremost(d, top)]
      /\ biSeek(B, key1, cmp1) = [map |-> B, at |-> Foremost(d, bottom)]
  BY SeekOne
<1>3. it = [top |-> [map |-> P, at |-> Foremost(d, top)],
            bottom |-> [map |-> B, at |-> Foremost(d, bottom)],
            direction |-> d, endKey |-> key2, endCmp |-> cmp2]
  <2> HIDE DEF top, bottom, P, B
  <2> QED BY <1>2 DEF startAt, P, B
<1>4. /\ it.top.map = P /\ it.top.at = Foremost(d, top)
      /\ it.bottom.map = B /\ it.bottom.at = Foremost(d, bottom)
      /\ it.direction = d /\ it.endKey = key2 /\ it.endCmp = cmp2
  <2> HIDE DEF it, top, bottom, d, P, B
  <2> QED BY <1>3
<1>5. IsIter(it)
  <2> HIDE DEF it, top, bottom, d
  <2> QED BY <1>1, <1>3, <1>4 DEF IsIter
<1>6. /\ found \subseteq Seq(Int) /\ IsFiniteSet(found)
      /\ DOMAIN P \subseteq Seq(Int) /\ DOMAIN B \subseteq Seq(Int)
  <2>1. found \subseteq DOMAIN P \cup DOMAIN B
    OBVIOUS
  <2>2. IsFiniteSet(DOMAIN P \cup DOMAIN B) /\ DOMAIN P \cup DOMAIN B \subseteq Seq(Int)
    BY FS_Union DEF Keyed
  <2> HIDE DEF found
  <2> QED BY <2>1, <2>2, FS_Subset DEF Keyed
<1>7. top = DOMAIN P \cap found /\ bottom = DOMAIN B \cap found
  OBVIOUS
<1>8. CASE found = {}
  <2>1. top = {} /\ bottom = {}
    <3> HIDE DEF top, bottom, found
    <3> QED BY <1>7, <1>8
  <2>2. Foremost(d, {}) \notin DOMAIN P /\ Foremost(d, {}) \notin DOMAIN B
    BY FrontEmpty DEF Keyed
  <2>3. Neither(it)
    <3> HIDE DEF it, top, bottom, d
    <3> QED BY <1>4, <2>1, <2>2 DEF Neither, biValid
  <2> HIDE DEF it, d, found, P, B
  <2>4. /\ IsIter(it) /\ it.direction = d /\ it.endKey = key2 /\ it.endCmp = cmp2
        /\ it.top.map = P /\ it.bottom.map = B
        /\ IF found = {} THEN Neither(it) ELSE IsFront(d, Foremost(d, found), found) /\ Stands(it, Foremost(d, found))
    BY <1>4, <1>5, <1>8, <2>3
  <2> QED BY <2>4 DEF it, d, found, P, B
<1>9. CASE found # {}
  <2>1. IsFront(d, f, found)
    <3> HIDE DEF d, found
    <3> QED BY <1>6, <1>9, FrontFacts
  <2>2. \A k \in DOMAIN P \cup DOMAIN B : \A j \in found : Ahead(d, j, k) => k \in found
    BY <1>6, RelationUpward
  <2>3. From(d, DOMAIN P, f) = DOMAIN P \cap found /\ From(d, DOMAIN B, f) = DOMAIN B \cap found
    <3> HIDE DEF d, found, f
    <3> QED BY <1>6, <2>1, <2>2, FromFront
  <2>4. Stands(it, f)
    <3> HIDE DEF it, top, bottom, d, found, f
    <3> QED BY <1>4, <1>7, <2>3 DEF Stands
  <2> HIDE DEF it, d, found, P, B
  <2>5. /\ IsIter(it) /\ it.direction = d /\ it.endKey = key2 /\ it.endCmp = cmp2
        /\ it.top.map = P /\ it.bottom.map = B
        /\ IF found = {} THEN Neither(it) ELSE IsFront(d, Foremost(d, found), found) /\ Stands(it, Foremost(d, found))
    BY <1>4, <1>5, <1>9, <2>1, <2>4
  <2> QED BY <2>5 DEF it, d, found, P, B
<1> QED BY <1>8, <1>9

\* The fields of what Seek returns.
LEMMA SeekFields ==
    ASSUME NEW tx, NEW key1, NEW cmp1, NEW key2, NEW cmp2
    PROVE  LET seek == kvSeek(tx, key1, cmp1, key2, cmp2)
               it   == startAt(tx, key1, cmp1, key2, cmp2)
           IN  /\ seek.iter = it
               /\ seek.tx = IF Forward(cmp1) THEN Depend(tx, key1, key2) ELSE Depend(tx, key2, key1)
               /\ seek.panic <=> \/ seekFails(biSeek(tx.pending, key1, cmp1), key1, cmp1)
                                \/ seekFails(biSeek(tx.snapshot, key1, cmp1), key1, cmp1)
<1> DEFINE it == startAt(tx, key1, cmp1, key2, cmp2)
           t == IF Forward(cmp1) THEN Depend(tx, key1, key2) ELSE Depend(tx, key2, key1)
           p == seekFails(it.top, key1, cmp1) \/ seekFails(it.bottom, key1, cmp1)
           seek == kvSeek(tx, key1, cmp1, key2, cmp2)
<1>1. seek = [tx |-> t, iter |-> it, panic |-> p]
  BY Zenon DEF kvSeek, Then
<1>2. it.top = biSeek(tx.pending, key1, cmp1) /\ it.bottom = biSeek(tx.snapshot, key1, cmp1)
  BY DEF startAt
<1>3. seek.iter = it /\ seek.tx = t /\ seek.panic = p
  <2> HIDE DEF seek, it, t, p
  <2> QED BY <1>1
<1> HIDE DEF seek, it
<1> QED BY <1>2, <1>3 DEF seek, it

\* A scan starts at the right key, for all four comparisons, unless it is to start
\* past the last key of a tree of three or more levels, where Seek fails an assert
\* (transaction.go KVTX.Seek, btree_iter.go Seek).
THEOREM ScanStarts ==
    ASSUME NEW tx, Keyed(tx.pending), Keyed(tx.snapshot),
           NEW key1 \in Seq(Int), NEW cmp1 \in Comparisons4, NEW key2, NEW cmp2
    PROVE  LET seek == kvSeek(tx, key1, cmp1, key2, cmp2)
           IN  /\ seek.panic <=> Stuck(tx.pending, key1, cmp1) \/ Stuck(tx.snapshot, key1, cmp1)
               /\ ~seek.panic => StartsAt(seek.iter, tx, key1, cmp1, key2, cmp2)
<1> DEFINE seek == kvSeek(tx, key1, cmp1, key2, cmp2)
<1>1. /\ seekFails(biSeek(tx.pending, key1, cmp1), key1, cmp1) <=> Stuck(tx.pending, key1, cmp1)
      /\ seekFails(biSeek(tx.snapshot, key1, cmp1), key1, cmp1) <=> Stuck(tx.snapshot, key1, cmp1)
  BY SeekOne
<1>2. /\ seek.iter = startAt(tx, key1, cmp1, key2, cmp2)
      /\ seek.panic <=> \/ seekFails(biSeek(tx.pending, key1, cmp1), key1, cmp1)
                       \/ seekFails(biSeek(tx.snapshot, key1, cmp1), key1, cmp1)
  BY SeekFields, Zenon
<1> HIDE DEF seek
<1>3. ASSUME ~seek.panic PROVE StartsAt(seek.iter, tx, key1, cmp1, key2, cmp2)
  BY <1>1, <1>2, <1>3, StartsRight
<1> QED BY <1>1, <1>2, <1>3 DEF seek

-----------------------------------------------------------------------------
(* Concatenation of a sequence of sequences.                               *)

\* f[i] is the concatenation of the first i.
Partial(ss, f, n) ==
    /\ DOMAIN f = 0 .. n
    /\ f[0] = <<>>
    /\ \A i \in 1 .. n : f[i] = f[i - 1] \o ss[i]

LEMMA PartialExists ==
    ASSUME NEW S, NEW ss \in Seq(Seq(S)), NEW n \in Nat, n <= Len(ss)
    PROVE  \E f : Partial(ss, f, n)
<1> DEFINE Bad == {m \in 0 .. Len(ss) : ~(\E f : Partial(ss, f, m))}
<1> SUFFICES ASSUME Bad # {} PROVE FALSE
  OBVIOUS
<1>1. Bad \in SUBSET Nat
  OBVIOUS
<1>2. PICK m \in Bad : \A k \in Bad : m <= k
  <2> HIDE DEF Bad
  <2> QED BY <1>1, LeastNat
<1>3. m # 0
  <2> SUFFICES \E f : Partial(ss, f, 0)
    BY <1>2
  <2> DEFINE f == [i \in 0 .. 0 |-> <<>>]
  <2>1. DOMAIN f = 0 .. 0 /\ f[0] = <<>> /\ 1 .. 0 = {}
    OBVIOUS
  <2> HIDE DEF f
  <2>2. Partial(ss, f, 0)
    BY <2>1 DEF Partial
  <2> QED BY <2>2
<1>4. m \in Nat /\ m - 1 \in Nat /\ m <= Len(ss) /\ m - 1 \in 0 .. Len(ss) /\ m - 1 < m
  BY <1>3
<1>5. PICK g : Partial(ss, g, m - 1)
  <2>1. ~(m <= m - 1)
    BY <1>4
  <2>2. m - 1 \notin Bad
    <3> HIDE DEF Bad
    <3> QED BY <1>2, <2>1
  <2> QED BY <1>4, <2>2
<1> DEFINE f == [i \in 0 .. m |-> IF i = m THEN g[m - 1] \o ss[m] ELSE g[i]]
<1>6. Partial(ss, f, m)
  <2>1. DOMAIN f = 0 .. m /\ f[0] = <<>>
    BY <1>3, <1>4, <1>5 DEF Partial
  <2>2. ASSUME NEW i \in 1 .. m PROVE f[i] = f[i - 1] \o ss[i]
    <3>1. f[i - 1] = g[i - 1]
      BY <1>4
    <3>2. CASE i = m
      BY <1>4, <3>1, <3>2
    <3>3. CASE i # m
      <4>1. i \in 1 .. m - 1 /\ f[i] = g[i]
        BY <1>4, <3>3
      <4> QED BY <1>5, <3>1, <4>1 DEF Partial
    <3> QED BY <3>2, <3>3
  <2> HIDE DEF f
  <2> QED BY <2>1, <2>2 DEF Partial
<1> QED BY <1>2, <1>6

LEMMA PartialTyped ==
    ASSUME NEW S, NEW ss \in Seq(Seq(S)), NEW n \in Nat, n <= Len(ss), NEW f, Partial(ss, f, n)
    PROVE  \A i \in 0 .. n : f[i] \in Seq(S)
<1> DEFINE Bad == {m \in 0 .. n : f[m] \notin Seq(S)}
<1> SUFFICES ASSUME Bad # {} PROVE FALSE
  OBVIOUS
<1>1. Bad \in SUBSET Nat
  OBVIOUS
<1>2. PICK m \in Bad : \A k \in Bad : m <= k
  <2> HIDE DEF Bad
  <2> QED BY <1>1, LeastNat
<1>3. m # 0
  <2>1. f[0] = <<>> /\ <<>> \in Seq(S)
    BY DEF Partial
  <2> QED BY <1>2, <2>1
<1>4. m \in 1 .. n /\ m - 1 \in 0 .. n /\ m - 1 < m
  BY <1>3
<1>5. f[m - 1] \in Seq(S)
  BY <1>2, <1>4
<1>6. ss[m] \in Seq(S) /\ f[m] = f[m - 1] \o ss[m]
  <2>1. m \in 1 .. Len(ss)
    BY <1>4
  <2> QED BY <1>4, <2>1, ElementOfSeq DEF Partial
<1>7. f[m] \in Seq(S)
  BY <1>5, <1>6, ConcatProperties
<1> QED BY <1>2, <1>7

LEMMA FlattenIs ==
    ASSUME NEW S, NEW ss \in Seq(Seq(S)), NEW f, Partial(ss, f, Len(ss))
    PROVE  FlattenSeq(ss) = f[Len(ss)]
<1> DEFINE n == Len(ss)
           IsFl(h) == h = [i \in 1 .. n |-> IF i = 1 THEN ss[i] ELSE h[i - 1] \o ss[i]]
           g == [i \in 1 .. n |-> f[i]]
           fl == CHOOSE h : IsFl(h)
<1>1. n \in Nat /\ \A i \in 0 .. n : f[i] \in Seq(S)
  <2>1. n \in Nat /\ n <= Len(ss)
    OBVIOUS
  <2> QED BY <2>1, PartialTyped
<1>2. CASE n = 0
  <2>1. FlattenSeq(ss) = ss /\ ss = <<>>
    BY <1>2, EmptySeq DEF FlattenSeq
  <2> QED BY <1>2, <2>1 DEF Partial
<1>3. CASE n # 0
  <2>1. FlattenSeq(ss) = fl[n]
    BY <1>3 DEF FlattenSeq
  <2>2. ASSUME NEW i \in 1 .. n
        PROVE  g[i] = IF i = 1 THEN ss[i] ELSE g[i - 1] \o ss[i]
    <3>1. f[i] = f[i - 1] \o ss[i]
      BY DEF Partial
    <3>2. CASE i = 1
      <4>1. f[0] = <<>> /\ ss[1] \in Seq(S)
        BY <1>1, <3>2, ElementOfSeq DEF Partial
      <4>2. <<>> \o ss[1] = ss[1]
        BY <4>1, ConcatEmptySeq
      <4>3. g[i] = f[i] /\ i - 1 = 0
        BY <3>2
      <4> HIDE DEF g
      <4> QED BY <3>1, <3>2, <4>1, <4>2, <4>3
    <3>3. CASE i # 1
      <4>1. i - 1 \in 1 .. n /\ g[i - 1] = f[i - 1]
        BY <3>3
      <4> QED BY <3>1, <3>3, <4>1
    <3> QED BY <3>2, <3>3
  <2>3. IsFl(g)
    BY <2>2
  <2>4. IsFl(fl)
    <3> HIDE DEF IsFl, g
    <3> QED BY <2>3
  <2> HIDE DEF fl
  <2> DEFINE Bad == {i \in 1 .. n : fl[i] # f[i]}
  <2>5. Bad = {}
    <3> SUFFICES ASSUME Bad # {} PROVE FALSE
      OBVIOUS
    <3>1. Bad \in SUBSET Nat
      OBVIOUS
    <3>2. PICK m \in Bad : \A k \in Bad : m <= k
      <4> HIDE DEF Bad
      <4> QED BY <3>1, LeastNat
    <3>3. m \in 1 .. n /\ fl[m] = IF m = 1 THEN ss[m] ELSE fl[m - 1] \o ss[m]
      BY <2>4, <3>2
    <3>4. g[m] = f[m] /\ g[m] = IF m = 1 THEN ss[m] ELSE g[m - 1] \o ss[m]
      BY <2>2, <3>3
    <3>5. CASE m = 1
      <4> HIDE DEF g
      <4> QED BY <3>2, <3>3, <3>4, <3>5
    <3>6. CASE m # 1
      <4>1. m - 1 \in 1 .. n /\ g[m - 1] = f[m - 1] /\ ~(m <= m - 1)
        BY <3>3, <3>6
      <4>2. m - 1 \notin Bad
        <5> HIDE DEF Bad
        <5> QED BY <3>2, <4>1
      <4> HIDE DEF g
      <4>3. fl[m - 1] = f[m - 1]
        BY <4>1, <4>2
      <4> QED BY <3>2, <3>3, <3>4, <3>6, <4>1, <4>3
    <3> QED BY <3>5, <3>6
  <2> QED BY <1>1, <1>3, <2>1, <2>5
<1> QED BY <1>2, <1>3

\* What concatenation yields, when the sequence is extended, and with one element.
LEMMA FlattenTyped ==
    ASSUME NEW S, NEW ss \in Seq(Seq(S))
    PROVE  FlattenSeq(ss) \in Seq(S)
<1>1. Len(ss) \in Nat /\ Len(ss) <= Len(ss)
  OBVIOUS
<1>2. PICK f : Partial(ss, f, Len(ss))
  BY <1>1, PartialExists
<1> QED BY <1>1, <1>2, PartialTyped, FlattenIs

LEMMA FlattenAppend ==
    ASSUME NEW S, NEW ss \in Seq(Seq(S)), NEW x \in Seq(S)
    PROVE  FlattenSeq(Append(ss, x)) = FlattenSeq(ss) \o x
<1> DEFINE tt == Append(ss, x)
           n == Len(ss)
<1>1. /\ tt \in Seq(Seq(S)) /\ n \in Nat /\ Len(tt) = n + 1 /\ tt[n + 1] = x
      /\ \A i \in 1 .. n : tt[i] = ss[i]
  BY AppendProperties
<1> HIDE DEF tt
<1>2. PICK f : Partial(tt, f, n + 1)
  BY <1>1, PartialExists, SMTT(30)
<1> DEFINE g == [i \in 0 .. n |-> f[i]]
<1>3. Partial(ss, g, n)
  <2>1. g[0] = <<>>
    BY <1>1, <1>2 DEF Partial
  <2>2. ASSUME NEW i \in 1 .. n PROVE g[i] = g[i - 1] \o ss[i]
    <3>1. i \in 1 .. n + 1 /\ g[i] = f[i] /\ g[i - 1] = f[i - 1] /\ tt[i] = ss[i]
      BY <1>1
    <3> HIDE DEF g
    <3> QED BY <1>2, <3>1 DEF Partial
  <2> QED BY <2>1, <2>2 DEF Partial
<1>4. FlattenSeq(ss) = f[n]
  <2>1. g[n] = f[n]
    BY <1>1
  <2> HIDE DEF g
  <2> QED BY <1>3, <2>1, FlattenIs
<1>5. FlattenSeq(tt) = f[n + 1]
  BY <1>1, <1>2, FlattenIs
<1>6. f[n + 1] = f[n] \o x
  <2>1. n + 1 \in 1 .. n + 1 /\ (n + 1) - 1 = n
    BY <1>1
  <2> QED BY <1>1, <1>2, <2>1 DEF Partial
<1> QED BY <1>4, <1>5, <1>6 DEF tt

LEMMA FlattenOne ==
    ASSUME NEW S, NEW x \in Seq(S)
    PROVE  FlattenSeq(<<x>>) = x
<1>1. <<>> \in Seq(Seq(S)) /\ Append(<<>>, x) = <<x>> /\ Len(<<>>) = 0
  OBVIOUS
<1>2. FlattenSeq(<<>>) = <<>>
  BY <1>1 DEF FlattenSeq
<1>3. <<>> \o x = x
  BY ConcatEmptySeq
<1> QED BY <1>1, <1>2, <1>3, FlattenAppend

LEMMA Associative ==
    ASSUME NEW a \in Seq(Int), NEW b \in Seq(Int), NEW c \in Seq(Int)
    PROVE  (a \o b) \o c = a \o (b \o c) /\ b \o c \in Seq(Int)
<1>1. a \o b \in Seq(Int) /\ b \o c \in Seq(Int)
  BY ConcatProperties
<1>2. (a \o b) \o c \in Seq(Int) /\ a \o (b \o c) \in Seq(Int)
  BY <1>1, ConcatProperties
<1>3. Len((a \o b) \o c) = Len(a \o (b \o c))
  BY <1>1
<1>4. ASSUME NEW i \in 1 .. Len((a \o b) \o c)
      PROVE  ((a \o b) \o c)[i] = (a \o (b \o c))[i]
  BY <1>1, SMTT(30)
<1> QED BY <1>1, <1>2, <1>3, <1>4, SeqEqual

\* A longer prefix extends a shorter one.
LEMMA PartialExtends ==
    ASSUME NEW ss \in Seq(Seq(Int)), NEW f, Partial(ss, f, Len(ss)), NEW i \in 0 .. Len(ss)
    PROVE  \E u \in Seq(Int) : f[Len(ss)] = f[i] \o u
<1> DEFINE n == Len(ss)
           Bad == {k \in i .. n : ~(\E u \in Seq(Int) : f[k] = f[i] \o u)}
<1> SUFFICES ASSUME Bad # {} PROVE FALSE
  <2>1. n \in i .. n
    OBVIOUS
  <2> QED BY <2>1
<1>0. n \in Nat /\ \A k \in 0 .. n : f[k] \in Seq(Int)
  <2>1. n \in Nat /\ n <= Len(ss)
    OBVIOUS
  <2> QED BY <2>1, PartialTyped
<1>1. Bad \in SUBSET Nat
  OBVIOUS
<1>2. PICK m \in Bad : \A k \in Bad : m <= k
  <2> HIDE DEF Bad
  <2> QED BY <1>1, LeastNat
<1>3. m # i
  <2>1. <<>> \in Seq(Int) /\ f[i] \in Seq(Int)
    BY <1>0
  <2>2. f[i] = f[i] \o <<>>
    BY <2>1, ConcatEmptySeq
  <2> QED BY <1>2, <2>1, <2>2
<1>4. m \in 1 .. n /\ m - 1 \in i .. n /\ ~(m <= m - 1) /\ m \in 1 .. Len(ss)
  BY <1>3
<1>5. PICK u \in Seq(Int) : f[m - 1] = f[i] \o u
  <2>1. m - 1 \notin Bad
    <3> HIDE DEF Bad
    <3> QED BY <1>2, <1>4
  <2> QED BY <1>4, <2>1
<1>6. f[m] = f[m - 1] \o ss[m] /\ ss[m] \in Seq(Int) /\ f[i] \in Seq(Int)
  <2>1. f[m] = f[m - 1] \o ss[m]
    BY <1>4 DEF Partial
  <2>2. ss[m] \in Seq(Int)
    BY <1>4, ElementOfSeq
  <2>3. f[i] \in Seq(Int)
    BY <1>0
  <2> QED BY <2>1, <2>2, <2>3
<1>7. f[m] = f[i] \o (u \o ss[m]) /\ u \o ss[m] \in Seq(Int)
  <2> DEFINE a == f[i]
             b == ss[m]
  <2>1. a \in Seq(Int) /\ b \in Seq(Int) /\ f[m] = (a \o u) \o b
    BY <1>5, <1>6, Zenon
  <2> HIDE DEF a, b
  <2>2. f[m] = a \o (u \o b) /\ u \o b \in Seq(Int)
    BY <2>1, Associative, ZenonT(60)
  <2> QED BY <2>2 DEF a, b
<1> QED BY <1>2, <1>7

-----------------------------------------------------------------------------
(* Order by the first difference, which no later element can change.       *)

\* x and y differ at position n + 1, inside both, and x is less there.
Parts(x, y, n) ==
    /\ n \in Nat /\ n < Len(x) /\ n < Len(y)
    /\ \A i \in 1 .. n : x[i] = y[i]
    /\ x[n + 1] < y[n + 1]

Decides(x, y) == \E n \in Nat : Parts(x, y, n)

LEMMA DecidesLess ==
    ASSUME NEW x \in Seq(Int), NEW y \in Seq(Int), Decides(x, y)
    PROVE  Compare(x, y) < 0 /\ Compare(y, x) > 0
<1>1. PICK n \in Nat : Parts(x, y, n)
  BY DEF Decides
<1>2. Len(x) \in Nat /\ Len(y) \in Nat /\ n + 1 \in 1 .. Len(x) /\ n + 1 \in 1 .. Len(y)
  BY <1>1 DEF Parts
<1>3. x[n + 1] \in Int /\ y[n + 1] \in Int
  BY <1>2, ElementOfSeq
<1>4. Part(x, y, n)
  BY <1>1, <1>2, <1>3 DEF Parts, Part, Agree
<1>5. Compare(x, y) = -1
  BY <1>1, <1>4, CompareAt DEF Parts
<1> QED BY <1>5, CompareTotal

LEMMA DecidesRight ==
    ASSUME NEW x \in Seq(Int), NEW y \in Seq(Int), Decides(x, y), NEW u \in Seq(Int), NEW v \in Seq(Int)
    PROVE  Decides(x \o u, y \o v)
<1>1. PICK n \in Nat : Parts(x, y, n)
  BY DEF Decides
<1>2. /\ Len(x \o u) = Len(x) + Len(u) /\ Len(y \o v) = Len(y) + Len(v)
      /\ \A i \in 1 .. Len(x) : (x \o u)[i] = x[i]
      /\ \A i \in 1 .. Len(y) : (y \o v)[i] = y[i]
  OBVIOUS
<1>3. Parts(x \o u, y \o v, n)
  <2>1. /\ n < Len(x) /\ n < Len(y) /\ Len(x) \in Nat /\ Len(y) \in Nat
        /\ Len(u) \in Nat /\ Len(v) \in Nat
    BY <1>1 DEF Parts
  <2>2. n < Len(x \o u) /\ n < Len(y \o v)
    BY <1>2, <2>1
  <2>3. \A i \in 1 .. n + 1 : (x \o u)[i] = x[i] /\ (y \o v)[i] = y[i]
    BY <1>2, <2>1
  <2> QED BY <1>1, <2>2, <2>3, SMTT(30) DEF Parts
<1> QED BY <1>3 DEF Decides

LEMMA DecidesLeft ==
    ASSUME NEW x \in Seq(Int), NEW y \in Seq(Int), Decides(x, y), NEW w \in Seq(Int)
    PROVE  Decides(w \o x, w \o y)
<1>1. PICK n \in Nat : Parts(x, y, n)
  BY DEF Decides
<1> DEFINE l == Len(w)
           wx == w \o x
           wy == w \o y
<1>2. /\ l \in Nat /\ Len(x) \in Nat /\ Len(y) \in Nat /\ n < Len(x) /\ n < Len(y)
      /\ Len(wx) = l + Len(x) /\ Len(wy) = l + Len(y)
      /\ \A i \in 1 .. l + Len(x) : wx[i] = IF i <= l THEN w[i] ELSE x[i - l]
      /\ \A i \in 1 .. l + Len(y) : wy[i] = IF i <= l THEN w[i] ELSE y[i - l]
  BY <1>1, ConcatProperties DEF Parts
<1> HIDE DEF l, wx, wy
<1>3. Parts(wx, wy, l + n)
  <2>1. l + n \in Nat /\ l + n < Len(wx) /\ l + n < Len(wy)
    BY <1>2
  <2>2. ASSUME NEW i \in 1 .. l + n PROVE wx[i] = wy[i]
    <3>1. i \in 1 .. l + Len(x) /\ i \in 1 .. l + Len(y)
      BY <1>2
    <3>2. i > l => x[i - l] = y[i - l]
      <4>1. i > l => i - l \in 1 .. n
        BY <1>2, SMTT(30)
      <4> QED BY <1>1, <4>1 DEF Parts
    <3>3. /\ wx[i] = IF i <= l THEN w[i] ELSE x[i - l]
          /\ wy[i] = IF i <= l THEN w[i] ELSE y[i - l]
      BY <1>2, <3>1
    <3>4. i <= l \/ i > l
      BY <1>2
    <3> QED BY <3>2, <3>3, <3>4
  <2>3. wx[(l + n) + 1] = x[n + 1] /\ wy[(l + n) + 1] = y[n + 1]
    <3>1. /\ (l + n) + 1 \in 1 .. l + Len(x) /\ (l + n) + 1 \in 1 .. l + Len(y)
          /\ ~((l + n) + 1 <= l) /\ ((l + n) + 1) - l = n + 1
      BY <1>2
    <3> QED BY <1>2, <3>1
  <2> QED BY <1>1, <2>1, <2>2, <2>3 DEF Parts
<1> QED BY <1>2, <1>3 DEF Decides, wx, wy

\* Sequences that start with the same n strings.
Alike(ss, tt, n) == n <= Len(ss) /\ n <= Len(tt) /\ \A i \in 1 .. n : ss[i] = tt[i]

LEMMA PartialSame ==
    ASSUME NEW ss \in Seq(Seq(Int)), NEW tt \in Seq(Seq(Int)), NEW n \in Nat, Alike(ss, tt, n),
           NEW f, Partial(ss, f, Len(ss)), NEW g, Partial(tt, g, Len(tt))
    PROVE  f[n] = g[n]
<1> DEFINE Bad == {k \in 0 .. n : f[k] # g[k]}
<1> SUFFICES ASSUME Bad # {} PROVE FALSE
  <2>1. n \in 0 .. n
    OBVIOUS
  <2> QED BY <2>1
<1>1. Bad \in SUBSET Nat
  OBVIOUS
<1>2. PICK m \in Bad : \A k \in Bad : m <= k
  <2> HIDE DEF Bad
  <2> QED BY <1>1, LeastNat
<1>3. m # 0
  BY <1>2 DEF Partial
<1>4. m \in 1 .. n /\ m - 1 \in 0 .. n /\ ~(m <= m - 1) /\ m \in 1 .. Len(ss) /\ m \in 1 .. Len(tt)
  BY <1>3 DEF Alike
<1>5. m - 1 \notin Bad
  <2> HIDE DEF Bad
  <2> QED BY <1>2, <1>4
<1>6. f[m - 1] = g[m - 1] /\ ss[m] = tt[m]
  BY <1>4, <1>5 DEF Alike
<1>7. f[m] = g[m]
  BY <1>4, <1>6 DEF Partial
<1> QED BY <1>2, <1>7

LEMMA NextWithin ==
    ASSUME NEW n \in Nat, NEW l \in Nat, n < l
    PROVE  /\ n + 1 \in 1 .. l /\ (n + 1) - 1 = n
           /\ n \in 0 .. l /\ n + 1 \in 0 .. l /\ l \in n + 1 .. l
OBVIOUS

\* The concatenations of sequences of strings, in the order of the first strings
\* in which they differ.
LEMMA FlattenDecides ==
    ASSUME NEW ss \in Seq(Seq(Int)), NEW tt \in Seq(Seq(Int)), NEW n \in Nat,
           n < Len(ss), n < Len(tt), \A i \in 1 .. n : ss[i] = tt[i],
           Decides(ss[n + 1], tt[n + 1])
    PROVE  Decides(FlattenSeq(ss), FlattenSeq(tt))
<1>1. Len(ss) \in Nat /\ Len(tt) \in Nat /\ Len(ss) <= Len(ss) /\ Len(tt) <= Len(tt)
  OBVIOUS
<1>2. PICK f : Partial(ss, f, Len(ss))
  BY <1>1, PartialExists
<1>3. PICK g : Partial(tt, g, Len(tt))
  BY <1>1, PartialExists
<1>4. (\A i \in 0 .. Len(ss) : f[i] \in Seq(Int)) /\ (\A i \in 0 .. Len(tt) : g[i] \in Seq(Int))
  BY <1>1, <1>2, <1>3, PartialTyped
<1>5. f[n] = g[n]
  <2>1. Alike(ss, tt, n)
    BY <1>1 DEF Alike
  <2> QED BY <1>2, <1>3, <2>1, PartialSame
<1>6. /\ n + 1 \in 1 .. Len(ss) /\ n + 1 \in 1 .. Len(tt) /\ (n + 1) - 1 = n
      /\ n \in 0 .. Len(ss) /\ n + 1 \in 0 .. Len(ss) /\ n + 1 \in 0 .. Len(tt)
      /\ Len(ss) \in n + 1 .. Len(ss) /\ Len(tt) \in n + 1 .. Len(tt)
  BY <1>1, NextWithin, Zenon
<1>7. f[n + 1] = f[n] \o ss[n + 1] /\ g[n + 1] = f[n] \o tt[n + 1]
  BY <1>2, <1>3, <1>5, <1>6 DEF Partial
<1>8. ss[n + 1] \in Seq(Int) /\ tt[n + 1] \in Seq(Int) /\ f[n] \in Seq(Int)
  BY <1>4, <1>6, ElementOfSeq
<1>9. Decides(f[n + 1], g[n + 1])
  BY <1>7, <1>8, DecidesLeft
<1>10. PICK u \in Seq(Int) : f[Len(ss)] = f[n + 1] \o u
  BY <1>2, <1>6, PartialExtends
<1>11. PICK v \in Seq(Int) : g[Len(tt)] = g[n + 1] \o v
  BY <1>3, <1>6, PartialExtends
<1>12. f[n + 1] \in Seq(Int) /\ g[n + 1] \in Seq(Int)
  BY <1>4, <1>6
<1>13. Decides(f[Len(ss)], g[Len(tt)])
  BY <1>9, <1>10, <1>11, <1>12, DecidesRight
<1> QED BY <1>2, <1>3, <1>13, FlattenIs

-----------------------------------------------------------------------------
(* Strings in keys.                                                        *)

Byte == 0 .. 255

\* What a byte becomes.
escaped(b) == IF b <= 1 THEN <<1, b + 1>> ELSE <<b>>

pieces(s) == [i \in DOMAIN s |-> escaped(s[i])]

encodedString(s) == Append(escapeString(s), 0)

LEMMA EscapedTyped ==
    ASSUME NEW b \in Byte
    PROVE  /\ escaped(b) \in Seq(1 .. 255) /\ escaped(b) \in Seq(Int)
           /\ Len(escaped(b)) \in Nat /\ Len(escaped(b)) > 0
           /\ escaped(b)[1] \in 1 .. 255 /\ escaped(b)[1] > 0
<1>1. CASE b <= 1
  <2>1. escaped(b) = <<1, b + 1>> /\ 1 \in 1 .. 255 /\ b + 1 \in 1 .. 255
    BY <1>1 DEF escaped, Byte
  <2> QED BY <2>1
<1>2. CASE b > 1
  <2>1. escaped(b) = <<b>> /\ b \in 1 .. 255
    BY <1>2 DEF escaped, Byte
  <2> QED BY <2>1
<1> QED BY <1>1, <1>2 DEF Byte

LEMMA EscapedOrder ==
    ASSUME NEW a \in Byte, NEW b \in Byte, a < b
    PROVE  Decides(escaped(a), escaped(b))
<1>1. CASE b <= 1
  <2>1. escaped(a) = <<1, 1>> /\ escaped(b) = <<1, 2>>
    BY <1>1 DEF escaped, Byte
  <2>2. Parts(<<1, 1>>, <<1, 2>>, 1)
    BY DEF Parts
  <2> QED BY <2>1, <2>2 DEF Decides
<1>2. CASE b > 1
  <2>1. escaped(b) = <<b>>
    BY <1>2 DEF escaped, Byte
  <2>2. Len(escaped(a)) > 0 /\ escaped(a)[1] < b /\ Len(escaped(a)) \in Nat
    BY <1>2, EscapedTyped DEF escaped, Byte
  <2>3. Parts(escaped(a), <<b>>, 0)
    <3>1. Len(<<b>>) = 1 /\ <<b>>[1] = b /\ 0 + 1 = 1 /\ 1 .. 0 = {}
      OBVIOUS
    <3> QED BY <2>2, <3>1 DEF Parts
  <2> QED BY <2>1, <2>3 DEF Decides
<1> QED BY <1>1, <1>2 DEF Byte

LEMMA PiecesTyped ==
    ASSUME NEW s \in Seq(Byte)
    PROVE  /\ pieces(s) \in Seq(Seq(1 .. 255)) /\ pieces(s) \in Seq(Seq(Int))
           /\ Len(pieces(s)) = Len(s) /\ Len(s) \in Nat
           /\ \A i \in 1 .. Len(s) : pieces(s)[i] = escaped(s[i]) /\ s[i] \in Byte
<1>1. Len(s) \in Nat /\ DOMAIN s = 1 .. Len(s) /\ \A i \in 1 .. Len(s) : s[i] \in Byte
  BY LenProperties, ElementOfSeq
<1>2. pieces(s) = [i \in 1 .. Len(s) |-> escaped(s[i])]
  BY <1>1 DEF pieces
<1>3. \A i \in 1 .. Len(s) : escaped(s[i]) \in Seq(1 .. 255) /\ escaped(s[i]) \in Seq(Int)
  BY <1>1, EscapedTyped
<1> DEFINE n == Len(s)
           e(i) == escaped(s[i])
<1> HIDE DEF n, e
<1>4. [i \in 1 .. n |-> e(i)] \in Seq(Seq(1 .. 255)) /\ [i \in 1 .. n |-> e(i)] \in Seq(Seq(Int))
      /\ Len([i \in 1 .. n |-> e(i)]) = n
  <2>1. n \in Nat /\ \A i \in 1 .. n : e(i) \in Seq(1 .. 255) /\ e(i) \in Seq(Int)
    BY <1>1, <1>3 DEF n, e
  <2> QED BY <2>1, IsASeq
<1> QED BY <1>1, <1>2, <1>4 DEF n, e

LEMMA EscapeTyped ==
    ASSUME NEW s \in Seq(Byte)
    PROVE  /\ escapeString(s) \in Seq(1 .. 255) /\ escapeString(s) \in Seq(Int)
           /\ escapeString(s) = FlattenSeq(pieces(s))
           /\ encodedString(s) = FlattenSeq(Append(pieces(s), <<0>>))
           /\ encodedString(s) \in Seq(Int)
<1>1. escapeString(s) = FlattenSeq(pieces(s))
  BY DEF escapeString, pieces, escaped
<1>2. escapeString(s) \in Seq(1 .. 255)
  BY <1>1, PiecesTyped, FlattenTyped
<1>3. escapeString(s) \in Seq(Int)
  BY <1>1, PiecesTyped, FlattenTyped
<1>4. FlattenSeq(Append(pieces(s), <<0>>)) = FlattenSeq(pieces(s)) \o <<0>>
  <2>1. <<0>> \in Seq(Int)
    OBVIOUS
  <2> QED BY <2>1, PiecesTyped, FlattenAppend
<1>5. encodedString(s) = escapeString(s) \o <<0>>
  BY <1>3, AppendIsConcat DEF encodedString
<1>6. encodedString(s) \in Seq(Int)
  BY <1>3 DEF encodedString
<1> QED BY <1>1, <1>2, <1>3, <1>4, <1>5, <1>6

\* The strings in keys are in the order of the strings, and no string in a key is
\* the beginning of another one.
LEMMA StringOrder ==
    ASSUME NEW s \in Seq(Byte), NEW t \in Seq(Byte), Compare(s, t) < 0
    PROVE  Decides(encodedString(s), encodedString(t))
<1> DEFINE ss == Append(pieces(s), <<0>>)
           tt == Append(pieces(t), <<0>>)
<1>1. s \in Seq(Int) /\ t \in Seq(Int)
  <2>1. Byte \subseteq Int
    BY DEF Byte
  <2> QED BY <2>1, SeqMonotonic
<1>2. PICK n \in Nat : Before(s, t, n)
  BY <1>1, LessIff
<1>3. <<0>> \in Seq(Int)
  OBVIOUS
<1>4. /\ ss \in Seq(Seq(Int)) /\ Len(ss) = Len(s) + 1 /\ ss[Len(s) + 1] = <<0>>
      /\ \A i \in 1 .. Len(s) : ss[i] = escaped(s[i])
  BY <1>3, PiecesTyped, AppendProperties
<1>5. /\ tt \in Seq(Seq(Int)) /\ Len(tt) = Len(t) + 1 /\ tt[Len(t) + 1] = <<0>>
      /\ \A i \in 1 .. Len(t) : tt[i] = escaped(t[i])
  BY <1>3, PiecesTyped, AppendProperties
<1>6. n < Len(t) /\ n <= Len(s) /\ \A i \in 1 .. n : s[i] = t[i]
  BY <1>2 DEF Before, Part, Agree
<1> HIDE DEF ss, tt
<1>7. n < Len(ss) /\ n < Len(tt) /\ \A i \in 1 .. n : ss[i] = tt[i]
  <2>1. Len(s) \in Nat /\ Len(t) \in Nat
    OBVIOUS
  <2>2. n < Len(ss) /\ n < Len(tt)
    BY <1>4, <1>5, <1>6, <2>1
  <2>3. ASSUME NEW i \in 1 .. n PROVE ss[i] = tt[i]
    <3>1. i \in 1 .. Len(s) /\ i \in 1 .. Len(t) /\ s[i] = t[i]
      BY <1>6, <2>1
    <3> QED BY <1>4, <1>5, <3>1, Zenon
  <2> QED BY <2>2, <2>3
<1>8. Decides(ss[n + 1], tt[n + 1])
  <2>1. n + 1 \in 1 .. Len(t) /\ t[n + 1] \in Byte /\ tt[n + 1] = escaped(t[n + 1])
    <3>1. n + 1 \in 1 .. Len(t)
      BY <1>6, LenProperties
    <3> QED BY <1>5, <3>1, ElementOfSeq
  <2>2. CASE n = Len(s)
    <3>1. ss[n + 1] = <<0>>
      BY <1>4, <2>2
    <3>2. Len(escaped(t[n + 1])) > 0 /\ escaped(t[n + 1])[1] > 0 /\ Len(escaped(t[n + 1])) \in Nat
      BY <2>1, EscapedTyped, Zenon
    <3>3. Len(<<0>>) = 1 /\ <<0>>[1] = 0 /\ 0 + 1 = 1 /\ 1 .. 0 = {}
      OBVIOUS
    <3>4. Parts(<<0>>, escaped(t[n + 1]), 0)
      BY <3>2, <3>3 DEF Parts
    <3> QED BY <2>1, <3>1, <3>4 DEF Decides
  <2>3. CASE n < Len(s)
    <3>1. n + 1 \in 1 .. Len(s) /\ s[n + 1] \in Byte /\ ss[n + 1] = escaped(s[n + 1])
      <4>1. n + 1 \in 1 .. Len(s)
        BY <2>3, LenProperties
      <4> QED BY <1>4, <4>1, ElementOfSeq
    <3>2. s[n + 1] < t[n + 1]
      BY <1>2, <2>3 DEF Before
    <3> QED BY <2>1, <3>1, <3>2, EscapedOrder
  <2> QED BY <1>6, <2>2, <2>3
<1>9. Decides(FlattenSeq(ss), FlattenSeq(tt))
  BY <1>4, <1>5, <1>7, <1>8, FlattenDecides
<1> QED BY <1>9, EscapeTyped DEF ss, tt

-----------------------------------------------------------------------------
(* The keys of rows whose only column is a string: the catalogue's.        *)

\* 0 is at the end and nowhere else.
Terminated(k) ==
    /\ k \in Seq(Int) /\ Len(k) \in Nat /\ Len(k) > 1
    /\ k[Len(k)] = 0
    /\ \A i \in 1 .. Len(k) - 1 : k[i] > 0

stringKey(prefix, s) == encodeKey(prefix, <<StrVal(s)>>)

LEMMA StringKeyIs ==
    ASSUME NEW p \in Nat, NEW s \in Seq(Byte)
    PROVE  /\ stringKey(p, s) = <<p>> \o (<<TYPE_BYTES>> \o encodedString(s))
           /\ <<TYPE_BYTES>> \o encodedString(s) \in Seq(Int)
<1> DEFINE e == <<TYPE_BYTES>> \o encodedString(s)
<1>1. e \in Seq(Int)
  <2>1. <<TYPE_BYTES>> \in Seq(Int)
    BY DEF TYPE_BYTES
  <2> QED BY <2>1, EscapeTyped, ConcatProperties
<1>2. encodeValue(StrVal(s)) = e
  BY DEF encodeValue, StrVal, TYPE_BYTES, TYPE_INT64, encodedString
<1>3. [i \in DOMAIN <<StrVal(s)>> |-> encodeValue(<<StrVal(s)>>[i])] = <<e>>
  <2>1. DOMAIN <<StrVal(s)>> = 1 .. 1 /\ <<StrVal(s)>>[1] = StrVal(s)
    OBVIOUS
  <2>2. \A i \in 1 .. 1 : encodeValue(<<StrVal(s)>>[i]) = e
    BY <1>2, <2>1
  <2> HIDE DEF e
  <2>3. <<e>> = [i \in 1 .. 1 |-> e]
    OBVIOUS
  <2> QED BY <2>1, <2>2, <2>3, Zenon
<1>4. FlattenSeq(<<e>>) = e
  <2> HIDE DEF e
  <2> QED BY <1>1, FlattenOne
<1>5. encodeValues(<<StrVal(s)>>) = e
  BY <1>3, <1>4, Zenon DEF encodeValues
<1> QED BY <1>1, <1>5 DEF stringKey, encodeKey

LEMMA StringKeyTerminated ==
    ASSUME NEW p \in Nat, p > 0, NEW s \in Seq(Byte)
    PROVE  Terminated(stringKey(p, s)) /\ stringKey(p, s)[1] = p
<1> DEFINE x == escapeString(s)
           e == encodedString(s)
           k == stringKey(p, s)
<1>1. x \in Seq(1 .. 255) /\ x \in Seq(Int) /\ Len(x) \in Nat /\ e = Append(x, 0)
  BY EscapeTyped DEF encodedString
<1>2. \A i \in 1 .. Len(x) : x[i] > 0
  <2>1. \A i \in 1 .. Len(x) : x[i] \in 1 .. 255
    BY <1>1, ElementOfSeq, Zenon
  <2>2. \A b \in 1 .. 255 : b > 0
    OBVIOUS
  <2> QED BY <2>1, <2>2, Zenon
<1> HIDE DEF x
<1>3. /\ e \in Seq(Int) /\ Len(e) = Len(x) + 1 /\ e[Len(x) + 1] = 0
      /\ \A i \in 1 .. Len(x) : e[i] = x[i]
  BY <1>1
<1>4. k = <<p>> \o (<<1>> \o e)
  BY StringKeyIs DEF TYPE_BYTES
<1> HIDE DEF e, k
<1> DEFINE y == <<1>> \o e
<1>5. y \in Seq(Int) /\ Len(y) = 1 + Len(e) /\ y[1] = 1 /\ \A i \in 2 .. Len(e) + 1 : y[i] = e[i - 1]
  BY <1>3
<1> HIDE DEF y
<1>6. k \in Seq(Int) /\ Len(k) = 1 + Len(y) /\ k[1] = p /\ \A i \in 2 .. Len(y) + 1 : k[i] = y[i - 1]
  BY <1>4, <1>5 DEF y
<1>7. Len(k) = Len(x) + 3
  BY <1>1, <1>3, <1>5, <1>6
<1>8. k[2] = 1
  BY <1>1, <1>3, <1>5, <1>6
<1>9. ASSUME NEW i \in 3 .. Len(k) PROVE k[i] = e[i - 2]
  <2>1. i \in 2 .. Len(y) + 1 /\ i - 1 \in 2 .. Len(e) + 1 /\ (i - 1) - 1 = i - 2
    BY <1>1, <1>3, <1>5, <1>7
  <2> QED BY <1>5, <1>6, <2>1
<1>10. k[Len(k)] = 0
  <2>1. Len(k) \in 3 .. Len(k) /\ Len(k) - 2 = Len(x) + 1
    BY <1>1, <1>7
  <2> QED BY <1>3, <1>9, <2>1
<1>11. ASSUME NEW i \in 1 .. Len(k) - 1 PROVE k[i] > 0
  <2>1. CASE i = 1
    BY <1>6, <2>1
  <2>2. CASE i = 2
    BY <1>8, <2>2
  <2>3. CASE i > 2
    <3>1. i \in 3 .. Len(k) /\ i - 2 \in 1 .. Len(x)
      BY <1>1, <1>7, <2>3
    <3> QED BY <1>2, <1>3, <1>9, <3>1
  <2> QED BY <2>1, <2>2, <2>3
<1> QED BY <1>1, <1>6, <1>7, <1>10, <1>11 DEF Terminated, k

\* Different strings have different keys.
LEMMA StringKeyInjective ==
    ASSUME NEW p \in Nat, NEW s \in Seq(Byte), NEW t \in Seq(Byte), stringKey(p, s) = stringKey(p, t)
    PROVE  s = t
<1> SUFFICES ASSUME s # t PROVE FALSE
  OBVIOUS
<1>1. s \in Seq(Int) /\ t \in Seq(Int)
  <2>1. Byte \subseteq Int
    BY DEF Byte
  <2> QED BY <2>1, SeqMonotonic
<1>2. ASSUME NEW a \in Seq(Byte), NEW b \in Seq(Byte), Compare(a, b) < 0,
             stringKey(p, a) = stringKey(p, b)
      PROVE  FALSE
  <2>1. Decides(encodedString(a), encodedString(b))
    BY <1>2, StringOrder
  <2>2. encodedString(a) \in Seq(Int) /\ encodedString(b) \in Seq(Int)
    BY EscapeTyped
  <2>3. <<TYPE_BYTES>> \in Seq(Int) /\ <<p>> \in Seq(Int)
    BY DEF TYPE_BYTES
  <2>4. Decides(<<TYPE_BYTES>> \o encodedString(a), <<TYPE_BYTES>> \o encodedString(b))
    BY <2>1, <2>2, <2>3, DecidesLeft
  <2>5. Decides(stringKey(p, a), stringKey(p, b))
    BY <2>3, <2>4, StringKeyIs, DecidesLeft
  <2>6. stringKey(p, a) \in Seq(Int)
    BY <2>3, StringKeyIs, ConcatProperties
  <2>7. Compare(stringKey(p, a), stringKey(p, a)) < 0
    BY <1>2, <2>5, <2>6, DecidesLess
  <2>8. Compare(stringKey(p, a), stringKey(p, a)) = 0
    BY <2>6, CompareTotal
  <2> QED BY <2>7, <2>8
<1>3. Compare(s, t) < 0 \/ Compare(t, s) < 0
  BY <1>1, CompareTotal
<1> QED BY <1>2, <1>3

\* Nothing but the key itself is between a terminated key and that key with ff
\* after it, among keys of other tables and terminated keys of this one.
LEMMA NothingBetween ==
    ASSUME NEW key, Terminated(key), NEW k \in Seq(Int), Len(k) > 1,
           Terminated(k) \/ k[1] # key[1],
           Compare(k, key) >= 0, Compare(k, Append(key, 255)) <= 0
    PROVE  k = key
<1> SUFFICES ASSUME k # key PROVE FALSE
  OBVIOUS
<1> DEFINE up == Append(key, 255)
<1>1. key \in Seq(Int) /\ Len(key) \in Nat /\ Len(k) \in Nat /\ Len(key) > 1
  BY DEF Terminated
<1>2. up = key \o <<255>> /\ up \in Seq(Int) /\ <<255>> \in Seq(Int)
  BY <1>1, AppendIsConcat
<1>3. Compare(key, k) < 0
  BY <1>1, CompareTotal
<1>4. PICK n \in Nat : Before(key, k, n)
  BY <1>1, <1>3, LessIff
<1>5. n < Len(k) /\ n <= Len(key) /\ \A i \in 1 .. n : key[i] = k[i]
  BY <1>4 DEF Before, Part, Agree
<1>6. CASE n = Len(key)
  <2>1. 1 \in 1 .. n /\ n \in 1 .. n /\ n \in 1 .. Len(k) - 1
    BY <1>1, <1>5, <1>6
  <2>2. k[1] = key[1] /\ k[n] = 0
    BY <1>5, <1>6, <2>1 DEF Terminated
  <2>3. k[n] > 0
    BY <2>1, <2>2 DEF Terminated
  <2> QED BY <2>2, <2>3
<1>7. CASE n < Len(key)
  <2>1. Parts(key, k, n)
    BY <1>4, <1>5, <1>7 DEF Parts, Before
  <2>2. Decides(key \o <<255>>, k \o <<>>)
    <3>1. <<>> \in Seq(Int)
      OBVIOUS
    <3> QED BY <1>1, <1>2, <2>1, <3>1, DecidesRight, ZenonT(60) DEF Decides
  <2>3. k \o <<>> = k
    BY ConcatEmptySeq
  <2>4. Decides(up, k)
    BY <1>2, <2>2, <2>3
  <2> HIDE DEF up
  <2>5. Compare(k, up) > 0 /\ Compare(k, up) <= 0
    BY <1>2, <2>4, DecidesLess DEF up
  <2>6. Compare(k, up) \in {-1, 0, 1}
    BY <1>2, CompareTotal, ZenonT(60)
  <2>7. \A c \in {-1, 0, 1} : ~(c > 0 /\ c <= 0)
    OBVIOUS
  <2> QED BY <2>5, <2>6, <2>7, Zenon
<1> QED BY <1>5, <1>6, <1>7

\* A transaction of the catalogue's form: keys of at least two elements, and those
\* with the first element p are terminated.
KeyedFor(m, p) ==
    /\ IsFiniteSet(DOMAIN m)
    /\ \A k \in DOMAIN m : k \in Seq(Int) /\ Len(k) > 1 /\ (k[1] = p => Terminated(k))

\* table.go dbGet (lines 384-403): getKey of a terminated key finds the row with
\* this key, as the transaction sees it, and no other one: the range that dbGet
\* reads, up to the key with ff after it, holds nothing else.  It fails an assert of
\* Seek if the key is past the last one of a tree of three or more levels, of the
\* pending updates or of the snapshot.
THEOREM GetKeyFinds ==
    ASSUME NEW tx, NEW key, Terminated(key),
           KeyedFor(tx.pending, key[1]), KeyedFor(tx.snapshot, key[1])
    PROVE  LET get == getKey(tx, key)
           IN  /\ get.tx = Depend(tx, key, Append(key, 255))
               /\ get.panic <=> Stuck(tx.pending, key, "GE") \/ Stuck(tx.snapshot, key, "GE")
               /\ ~get.panic => (get.ok <=> key \in DOMAIN tx.pending \cup DOMAIN tx.snapshot)
               /\ get.ok => ~get.panic /\ CurVal(get.iter) = ValueOf(tx, key)
<1> DEFINE up == Append(key, 255)
           P == tx.pending
           B == tx.snapshot
           seek == kvSeek(tx, key, "GE", up, "LE")
           it == seek.iter
           found == {k \in DOMAIN P \cup DOMAIN B : cmpOK(k, "GE", key)}
           f == Foremost(1, found)
<1>1. key \in Seq(Int) /\ up \in Seq(Int)
  BY DEF Terminated
<1>2. Keyed(P) /\ Keyed(B)
  <2>1. \A k \in DOMAIN P \cup DOMAIN B : k \in Seq(Int) /\ Len(k) > 1
    BY DEF KeyedFor
  <2>2. ~(Len(First) > 1) /\ ~(Len(Past) > 1)
    BY DEF First, Past
  <2>3. IsFiniteSet(DOMAIN P) /\ IsFiniteSet(DOMAIN B)
    BY DEF KeyedFor
  <2> QED BY <2>1, <2>2, <2>3, Zenon DEF Keyed
<1>3. "GE" \in Comparisons4 /\ Forward("GE")
  BY DEF Comparisons4, Forward
<1>4. /\ seek.panic <=> Stuck(P, key, "GE") \/ Stuck(B, key, "GE")
      /\ ~seek.panic => StartsAt(it, tx, key, "GE", up, "LE")
  <2> HIDE DEF up
  <2> QED BY <1>1, <1>2, <1>3, ScanStarts, Zenon
<1>5. seek.tx = Depend(tx, key, up)
  <2> HIDE DEF up
  <2> QED BY <1>3, SeekFields, Zenon
<1> DEFINE g == getKey(tx, key)
           ok == ~seek.panic /\ ciValid(it)
<1>6. g.tx = Depend(tx, key, up) /\ (g.ok <=> ok) /\ (g.panic <=> seek.panic) /\ g.iter = it
  <2> DEFINE t == seek.tx
             p == seek.panic
             i == seek.iter
  <2>1. g = [tx |-> t, ok |-> ok, panic |-> p, iter |-> i]
    BY Zenon DEF getKey, Then
  <2> HIDE DEF g, t, p, i, ok
  <2>2. g.tx = t /\ g.ok = ok /\ g.panic = p /\ g.iter = i
    BY <2>1
  <2>3. (g.ok <=> ok) /\ (g.panic <=> p)
    BY <2>2, Zenon
  <2>4. t = Depend(tx, key, up)
    BY <1>5 DEF t
  <2> QED BY <2>2, <2>3, <2>4 DEF t, p, i
<1> HIDE DEF g
<1> SUFFICES ASSUME ~seek.panic
             PROVE  /\ ciValid(it) <=> key \in DOMAIN P \cup DOMAIN B
                    /\ ciValid(it) => CurVal(it) = ValueOf(tx, key)
  <2> HIDE DEF seek, up
  <2> QED BY <1>4, <1>6 DEF g, up
<1>7. /\ IsIter(it) /\ it.direction = 1 /\ it.endKey = up /\ it.endCmp = "LE"
      /\ it.top.map = P /\ it.bottom.map = B
      /\ IF found = {} THEN Neither(it) ELSE IsFront(1, f, found) /\ Stands(it, f)
  <2> DEFINE d == IF Forward("GE") THEN 1 ELSE -1
  <2>1. /\ IsIter(it) /\ it.direction = d /\ it.endKey = up /\ it.endCmp = "LE"
        /\ it.top.map = P /\ it.bottom.map = B
        /\ IF found = {} THEN Neither(it)
           ELSE IsFront(d, Foremost(d, found), found) /\ Stands(it, Foremost(d, found))
    <3>1. StartsAt(it, tx, key, "GE", up, "LE")
      BY <1>4, Zenon
    <3> HIDE DEF it
    <3> QED BY <3>1, Zenon DEF StartsAt
  <2>2. d = 1
    BY <1>3
  <2> HIDE DEF d, it, found, P, B, up
  <2> QED BY <2>1, <2>2 DEF f
<1>8. ASSUME NEW k \in found PROVE k \in Seq(Int) /\ Compare(k, key) >= 0 /\ k \in keysOf(it)
  <2>1. k \in DOMAIN P \cup DOMAIN B /\ Compare(k, key) >= 0
    BY DEF cmpOK, Then
  <2> HIDE DEF it, P, B, found
  <2> QED BY <1>2, <1>7, <2>1 DEF Keyed, keysOf
<1>9. CASE key \in DOMAIN P \cup DOMAIN B
  <2>1. key \in found
    <3>1. Compare(key, key) = 0
      BY <1>1, CompareTotal
    <3>2. cmpOK(key, "GE", key)
      BY <3>1 DEF cmpOK, Then
    <3> QED BY <1>9, <3>2
  <2>2. f = key
    <3>1. IsFront(1, key, found)
      <4>1. ASSUME NEW j \in found PROVE j = key \/ Ahead(1, key, j)
        <5> HIDE DEF found
        <5> QED BY <1>1, <1>8, CompareTotal, SMTT(30) DEF Ahead
      <4> HIDE DEF found
      <4> QED BY <2>1, <4>1 DEF IsFront
    <3>2. found \subseteq Seq(Int)
      BY <1>8
    <3> HIDE DEF found
    <3> QED BY <3>1, <3>2, FrontIs
  <2>3. /\ ~Neither(it) /\ CurKey(it) = key
        /\ CurVal(it) = IF key \in DOMAIN P THEN P[key].val ELSE B[key]
    <3>1. IsIter(it) /\ key \in keysOf(it) /\ Stands(it, key) /\ it.top.map = P /\ it.bottom.map = B
      <4> HIDE DEF found, f, it, P, B
      <4> QED BY <1>7, <1>8, <2>1, <2>2
    <3> HIDE DEF it, P, B
    <3> QED BY <3>1, StandsAt
  <2>4. cmpOK(key, "LE", up)
    <3>1. Compare(key, up) <= 0
      <4>1. Len(key) \in Nat /\ Len(up) = Len(key) + 1 /\ \A i \in 1 .. Len(key) : up[i] = key[i]
        BY <1>1
      <4> HIDE DEF up
      <4>2. Part(key, up, Len(key))
        BY <1>1, <4>1 DEF Part, Agree
      <4> QED BY <1>1, <4>1, <4>2, CompareAt
    <3> QED BY <3>1 DEF cmpOK, Then
  <2>5. ciValid(it)
    <3> HIDE DEF it, up
    <3> QED BY <1>7, <2>3, <2>4 DEF ciValid
  <2> HIDE DEF it, up
  <2> QED BY <1>9, <2>3, <2>5 DEF ValueOf
<1>10. CASE key \notin DOMAIN P \cup DOMAIN B
  <2>1. CASE found = {}
    <3>1. ~ciValid(it)
      <4> HIDE DEF it, found
      <4> QED BY <1>7, <2>1 DEF ciValid
    <3> HIDE DEF it, up
    <3> QED BY <1>10, <3>1
  <2>2. CASE found # {}
    <3>1. f \in found /\ Stands(it, f) /\ IsIter(it)
      <4> HIDE DEF it, found, f
      <4> QED BY <1>7, <2>2 DEF IsFront
    <3>2. f \in DOMAIN P \cup DOMAIN B /\ f \in Seq(Int) /\ Compare(f, key) >= 0 /\ f \in keysOf(it)
      <4>1. found \subseteq DOMAIN P \cup DOMAIN B
        OBVIOUS
      <4> HIDE DEF it, found, f
      <4> QED BY <1>8, <3>1, <4>1
    <3>3. CurKey(it) = f
      <4> HIDE DEF it, found, f
      <4> QED BY <3>1, <3>2, StandsAt
    <3>4. Len(f) > 1 /\ (Terminated(f) \/ f[1] # key[1]) /\ f # key
      <4> HIDE DEF f
      <4> QED BY <1>10, <3>2 DEF KeyedFor
    <3>5. ~(Compare(f, up) <= 0)
      <4> HIDE DEF f
      <4> QED BY <3>2, <3>4, NothingBetween
    <3>6. ~ciValid(it)
      <4> HIDE DEF it, f, up
      <4> QED BY <1>7, <3>3, <3>5 DEF ciValid, cmpOK, Then
    <3> HIDE DEF it, up
    <3> QED BY <1>10, <3>6
  <2> QED BY <2>1, <2>2
<1> QED BY <1>9, <1>10

-----------------------------------------------------------------------------
(* Integers in keys.                                                       *)

\* The powers of 256.
IsPow(f, n) ==
    /\ DOMAIN f = 0 .. n /\ f[0] = 1
    /\ \A k \in 1 .. n : f[k] = 256 * f[k - 1]

LEMMA PowExists ==
    ASSUME NEW n \in Nat
    PROVE  \E f : IsPow(f, n)
<1> DEFINE Bad == {m \in Nat : ~(\E f : IsPow(f, m))}
<1> SUFFICES ASSUME Bad # {} PROVE FALSE
  OBVIOUS
<1>1. Bad \in SUBSET Nat
  OBVIOUS
<1>2. PICK m \in Bad : \A k \in Bad : m <= k
  <2> HIDE DEF Bad
  <2> QED BY <1>1, LeastNat
<1>3. m # 0
  <2> SUFFICES \E f : IsPow(f, 0)
    BY <1>2
  <2> DEFINE f == [i \in 0 .. 0 |-> 1]
  <2>1. DOMAIN f = 0 .. 0 /\ f[0] = 1 /\ 1 .. 0 = {}
    OBVIOUS
  <2> HIDE DEF f
  <2>2. IsPow(f, 0)
    BY <2>1 DEF IsPow
  <2> QED BY <2>2
<1>4. m \in Nat /\ m - 1 \in Nat /\ ~(m <= m - 1)
  BY <1>3
<1>5. PICK g : IsPow(g, m - 1)
  <2>1. m - 1 \notin Bad
    <3> HIDE DEF Bad
    <3> QED BY <1>2, <1>4
  <2> QED BY <1>4, <2>1
<1> DEFINE f == [i \in 0 .. m |-> IF i = m THEN 256 * g[m - 1] ELSE g[i]]
<1>6. IsPow(f, m)
  <2>1. DOMAIN f = 0 .. m /\ f[0] = 1
    BY <1>3, <1>4, <1>5 DEF IsPow
  <2>2. ASSUME NEW i \in 1 .. m PROVE f[i] = 256 * f[i - 1]
    <3>1. f[i - 1] = g[i - 1]
      BY <1>4
    <3>2. CASE i = m
      BY <1>4, <3>1, <3>2
    <3>3. CASE i # m
      <4>1. i \in 1 .. m - 1 /\ f[i] = g[i]
        BY <1>4, <3>3
      <4> QED BY <1>5, <3>1, <4>1 DEF IsPow
    <3> QED BY <3>2, <3>3
  <2> HIDE DEF f
  <2> QED BY <2>1, <2>2 DEF IsPow
<1> QED BY <1>2, <1>6

LEMMA PowFacts ==
    /\ IsPow(pow256, IntBytes)
    /\ \A k \in 0 .. IntBytes : pow256[k] \in Nat /\ pow256[k] > 0
    /\ intRange \in Nat /\ intRange > 0
    /\ \E h \in Nat : h > 0 /\ intRange = 2 * h
<1> DEFINE n == IntBytes
           IsFcn(h) == h = [k \in 0 .. n |-> IF k = 0 THEN 1 ELSE 256 * h[k - 1]]
<1>1. n \in Nat /\ n > 0
  BY IntBytesAssumption
<1>2. PICK f : IsPow(f, n)
  BY <1>1, PowExists
<1> DEFINE g == [k \in 0 .. n |-> f[k]]
<1>3. \E h : IsFcn(h)
  <2>1. ASSUME NEW k \in 0 .. n PROVE g[k] = IF k = 0 THEN 1 ELSE 256 * g[k - 1]
    <3>1. CASE k = 0
      BY <1>2, <3>1 DEF IsPow
    <3>2. CASE k # 0
      <4>1. k \in 1 .. n /\ k - 1 \in 0 .. n /\ g[k] = f[k] /\ g[k - 1] = f[k - 1]
        BY <1>1, <3>2
      <4> QED BY <1>2, <3>2, <4>1 DEF IsPow
    <3> QED BY <3>1, <3>2
  <2>2. IsFcn(g)
    BY <2>1
  <2> HIDE DEF IsFcn, g
  <2> QED BY <2>2
<1>4. pow256 = CHOOSE h : IsFcn(h)
  BY DEF pow256
<1>5. IsFcn(pow256)
  <2> HIDE DEF IsFcn
  <2> QED BY <1>3, <1>4
<1>6. IsPow(pow256, n)
  <2> DEFINE p == pow256
  <2>1. p = [k \in 0 .. n |-> IF k = 0 THEN 1 ELSE 256 * p[k - 1]]
    BY <1>5
  <2> HIDE DEF p, n
  <2>2. DOMAIN p = 0 .. n /\ p[0] = 1
    BY <1>1, <2>1
  <2>3. ASSUME NEW k \in 1 .. n PROVE p[k] = 256 * p[k - 1]
    BY <1>1, <2>1
  <2> QED BY <2>2, <2>3 DEF IsPow, p
<1>7. \A k \in 0 .. n : pow256[k] \in Nat /\ pow256[k] > 0
  <2> DEFINE Bad == {k \in 0 .. n : ~(pow256[k] \in Nat /\ pow256[k] > 0)}
  <2> SUFFICES ASSUME Bad # {} PROVE FALSE
    OBVIOUS
  <2>1. Bad \in SUBSET Nat
    OBVIOUS
  <2>2. PICK m \in Bad : \A k \in Bad : m <= k
    <3> HIDE DEF Bad
    <3> QED BY <2>1, LeastNat
  <2>3. m # 0
    BY <1>6, <2>2 DEF IsPow
  <2>4. m \in 1 .. n /\ m - 1 \in 0 .. n /\ ~(m <= m - 1)
    BY <1>1, <2>2, <2>3
  <2>5. m - 1 \notin Bad
    <3> HIDE DEF Bad
    <3> QED BY <2>2, <2>4
  <2>6. pow256[m - 1] \in Nat /\ pow256[m - 1] > 0 /\ pow256[m] = 256 * pow256[m - 1]
    BY <1>6, <2>4, <2>5 DEF IsPow
  <2> QED BY <2>2, <2>6
<1>8. n \in 1 .. n /\ n - 1 \in 0 .. n /\ n \in 0 .. n
  BY <1>1
<1>9. intRange = 256 * pow256[n - 1] /\ pow256[n - 1] \in Nat /\ pow256[n - 1] > 0
  BY <1>6, <1>7, <1>8 DEF intRange, IsPow
<1>10. \E h \in Nat : h > 0 /\ intRange = 2 * h
  <2> DEFINE p == pow256[n - 1]
             h == 128 * p
  <2> HIDE DEF p
  <2>1. h \in Nat /\ h > 0 /\ intRange = 2 * h
    BY <1>9 DEF p
  <2> QED BY <2>1
<1> QED BY <1>6, <1>7, <1>8, <1>10 DEF intRange

\* A number without its lowest bytes.
IsShift(f, u, n) ==
    /\ DOMAIN f = 0 .. n /\ f[0] = u
    /\ \A k \in 1 .. n : f[k] = f[k - 1] \div 256

LEMMA ShiftExists ==
    ASSUME NEW u, NEW n \in Nat
    PROVE  \E f : IsShift(f, u, n)
<1> DEFINE Bad == {m \in Nat : ~(\E f : IsShift(f, u, m))}
<1> SUFFICES ASSUME Bad # {} PROVE FALSE
  OBVIOUS
<1>1. Bad \in SUBSET Nat
  OBVIOUS
<1>2. PICK m \in Bad : \A k \in Bad : m <= k
  <2> HIDE DEF Bad
  <2> QED BY <1>1, LeastNat
<1>3. m # 0
  <2> SUFFICES \E f : IsShift(f, u, 0)
    BY <1>2
  <2> DEFINE f == [i \in 0 .. 0 |-> u]
  <2>1. DOMAIN f = 0 .. 0 /\ f[0] = u /\ 1 .. 0 = {}
    OBVIOUS
  <2> HIDE DEF f
  <2>2. IsShift(f, u, 0)
    BY <2>1 DEF IsShift
  <2> QED BY <2>2
<1>4. m \in Nat /\ m - 1 \in Nat /\ ~(m <= m - 1)
  BY <1>3
<1>5. PICK g : IsShift(g, u, m - 1)
  <2>1. m - 1 \notin Bad
    <3> HIDE DEF Bad
    <3> QED BY <1>2, <1>4
  <2> QED BY <1>4, <2>1
<1> DEFINE f == [i \in 0 .. m |-> IF i = m THEN g[m - 1] \div 256 ELSE g[i]]
<1>6. IsShift(f, u, m)
  <2>1. DOMAIN f = 0 .. m /\ f[0] = u
    BY <1>3, <1>4, <1>5 DEF IsShift
  <2>2. ASSUME NEW i \in 1 .. m PROVE f[i] = f[i - 1] \div 256
    <3>1. f[i - 1] = g[i - 1]
      BY <1>4
    <3>2. CASE i = m
      BY <1>4, <3>1, <3>2
    <3>3. CASE i # m
      <4>1. i \in 1 .. m - 1 /\ f[i] = g[i]
        BY <1>4, <3>3
      <4> QED BY <1>5, <3>1, <4>1 DEF IsShift
    <3> QED BY <3>2, <3>3
  <2> HIDE DEF f
  <2> QED BY <2>1, <2>2 DEF IsShift
<1> QED BY <1>2, <1>6

\* Nothing is left without all the bytes.
LEMMA ShiftFacts ==
    ASSUME NEW u \in Nat, u < intRange
    PROVE  LET w == shifted(u)
           IN  /\ IsShift(w, u, IntBytes)
               /\ \A k \in 0 .. IntBytes : w[k] \in Nat /\ w[k] < intRange
               /\ w[IntBytes] = 0
<1> DEFINE n == IntBytes
           IsFcn(h) == h = [k \in 0 .. n |-> IF k = 0 THEN u ELSE h[k - 1] \div 256]
           w == shifted(u)
<1>1. n \in Nat /\ n > 0
  BY IntBytesAssumption
<1>2. PICK f : IsShift(f, u, n)
  BY <1>1, ShiftExists
<1> DEFINE g == [k \in 0 .. n |-> f[k]]
<1>3. \E h : IsFcn(h)
  <2>1. ASSUME NEW k \in 0 .. n PROVE g[k] = IF k = 0 THEN u ELSE g[k - 1] \div 256
    <3>1. CASE k = 0
      BY <1>2, <3>1 DEF IsShift
    <3>2. CASE k # 0
      <4>1. k \in 1 .. n /\ k - 1 \in 0 .. n /\ g[k] = f[k] /\ g[k - 1] = f[k - 1]
        BY <1>1, <3>2
      <4> QED BY <1>2, <3>2, <4>1 DEF IsShift
    <3> QED BY <3>1, <3>2
  <2>2. IsFcn(g)
    BY <2>1
  <2> HIDE DEF IsFcn, g
  <2> QED BY <2>2
<1>4. w = CHOOSE h : IsFcn(h)
  BY DEF shifted
<1>5. IsFcn(w)
  <2> HIDE DEF IsFcn, w
  <2> QED BY <1>3, <1>4
<1> HIDE DEF w
<1>6. IsShift(w, u, n)
  <2>1. w = [k \in 0 .. n |-> IF k = 0 THEN u ELSE w[k - 1] \div 256]
    BY <1>5
  <2> HIDE DEF n
  <2>2. DOMAIN w = 0 .. n /\ w[0] = u
    BY <1>1, <2>1
  <2>3. ASSUME NEW k \in 1 .. n PROVE w[k] = w[k - 1] \div 256
    BY <1>1, <2>1
  <2> QED BY <2>2, <2>3 DEF IsShift
<1>7. \A k \in 0 .. n : w[k] \in Nat /\ w[k] < intRange /\ w[k] < pow256[n - k]
  <2> DEFINE Bad == {k \in 0 .. n : ~(w[k] \in Nat /\ w[k] < intRange /\ w[k] < pow256[n - k])}
  <2> SUFFICES ASSUME Bad # {} PROVE FALSE
    OBVIOUS
  <2>1. Bad \in SUBSET Nat
    OBVIOUS
  <2>2. PICK m \in Bad : \A k \in Bad : m <= k
    <3> HIDE DEF Bad
    <3> QED BY <2>1, LeastNat
  <2>3. m # 0
    <3>1. n - 0 = n /\ w[0] = u
      BY <1>1, <1>6 DEF IsShift
    <3> QED BY <2>2, <3>1 DEF intRange
  <2>4. m \in 1 .. n /\ m - 1 \in 0 .. n /\ ~(m <= m - 1) /\ n - (m - 1) \in 1 .. n
        /\ (n - (m - 1)) - 1 = n - m /\ n - m \in 0 .. n
    BY <1>1, <2>2, <2>3
  <2>5. m - 1 \notin Bad
    <3> HIDE DEF Bad
    <3> QED BY <2>2, <2>4
  <2> DEFINE x == w[m - 1]
             p == pow256[n - m]
             q == pow256[n - (m - 1)]
  <2>6. x \in Nat /\ x < intRange /\ x < q
    BY <2>4, <2>5
  <2>7. w[m] = x \div 256
    BY <1>6, <2>4 DEF IsShift
  <2>8. q = 256 * p /\ p \in Nat /\ intRange \in Nat
    BY <2>4, PowFacts DEF IsPow
  <2>9. x \div 256 \in Nat /\ x \div 256 < intRange /\ x \div 256 < p
    <3> HIDE DEF x, p, q
    <3> QED BY <2>6, <2>8
  <2> QED BY <2>2, <2>7, <2>9
<1>8. w[n] = 0
  <2>1. n \in 0 .. n /\ n - n = 0 /\ pow256[0] = 1
    BY <1>1, PowFacts DEF IsPow
  <2>2. w[n] \in Nat /\ w[n] < 1
    BY <1>7, <2>1
  <2> QED BY <2>2
<1> QED BY <1>6, <1>7, <1>8 DEF w

LEMMA BigEndianTyped ==
    ASSUME NEW u \in Nat, u < intRange
    PROVE  /\ bigEndian(u) \in Seq(Byte) /\ bigEndian(u) \in Seq(Int)
           /\ Len(bigEndian(u)) = IntBytes
           /\ \A i \in 1 .. IntBytes : bigEndian(u)[i] = shifted(u)[IntBytes - i] % 256
<1> DEFINE w == shifted(u)
           n == IntBytes
           b == bigEndian(u)
<1>1. n \in Nat
  BY IntBytesAssumption
<1>2. \A k \in 0 .. n : w[k] \in Nat
  BY ShiftFacts
<1> HIDE DEF w
<1>3. b = [i \in 1 .. n |-> w[n - i] % 256]
  BY DEF bigEndian, Then, w
<1> HIDE DEF b, n
<1>4. ASSUME NEW i \in 1 .. n PROVE b[i] = w[n - i] % 256 /\ b[i] \in Byte /\ b[i] \in Int
  <2>1. n - i \in 0 .. n
    BY <1>1
  <2>2. \A x \in Nat : x % 256 \in 0 .. 255 /\ x % 256 \in Int
    OBVIOUS
  <2>3. w[n - i] \in Nat /\ b[i] = w[n - i] % 256
    BY <1>2, <1>3, <2>1
  <2> QED BY <2>2, <2>3 DEF Byte
<1>5. b = [i \in 1 .. n |-> b[i]]
  BY <1>3
<1>6. b \in Seq(Byte) /\ b \in Seq(Int)
  BY <1>1, <1>4, <1>5, IsASeq
<1>7. Len(b) = n
  BY <1>1, <1>3, <1>6
<1> QED BY <1>4, <1>6, <1>7 DEF b, w, n

LEMMA BigEndianOrder ==
    ASSUME NEW u \in Nat, NEW v \in Nat, u < v, v < intRange
    PROVE  Decides(bigEndian(u), bigEndian(v))
<1> DEFINE n == IntBytes
           f == shifted(u)
           g == shifted(v)
           x == bigEndian(u)
           y == bigEndian(v)
           Same == {k \in 0 .. n : \A j \in k .. n : f[j] = g[j]}
<1>1. n \in Nat /\ n > 0 /\ u < intRange
  BY IntBytesAssumption, PowFacts
<1>2. /\ IsShift(f, u, n) /\ f[n] = 0
      /\ IsShift(g, v, n) /\ g[n] = 0
      /\ \A k \in 0 .. n : f[k] \in Nat /\ g[k] \in Nat
  BY <1>1, ShiftFacts
<1>3. /\ Len(x) = n /\ Len(y) = n
      /\ \A i \in 1 .. n : x[i] = f[n - i] % 256 /\ y[i] = g[n - i] % 256
  BY <1>1, BigEndianTyped
<1> HIDE DEF f, g, x, y, n
<1>4. PICK k \in Same : \A j \in Same : k <= j
  <2>1. n \in Same
    <3>1. n .. n = {n} /\ n \in 0 .. n
      BY <1>1
    <3> QED BY <1>2, <3>1
  <2>2. Same \in SUBSET Nat
    OBVIOUS
  <2> HIDE DEF Same
  <2> QED BY <2>1, <2>2, LeastNat
<1>5. k # 0
  <2> SUFFICES ASSUME k = 0 PROVE FALSE
    OBVIOUS
  <2>1. 0 \in k .. n
    BY <1>1
  <2>2. f[0] = g[0]
    BY <1>4, <2>1
  <2> QED BY <1>2, <2>2 DEF IsShift
<1>6. k \in 1 .. n /\ k \in k .. n /\ k - 1 \in 0 .. n /\ ~(k <= k - 1)
  BY <1>1, <1>5
<1>7. f[k - 1] # g[k - 1]
  <2>1. k - 1 \notin Same
    <3> HIDE DEF Same
    <3> QED BY <1>4, <1>6
  <2>2. PICK j \in k - 1 .. n : f[j] # g[j]
    BY <1>6, <2>1
  <2>3. j = k - 1 \/ j \in k .. n
    BY <1>1, <1>6
  <2> QED BY <1>4, <2>2, <2>3
<1>8. \A j \in 0 .. n : f[j] <= g[j]
  <2> DEFINE Bad == {j \in 0 .. n : ~(f[j] <= g[j])}
  <2> SUFFICES ASSUME Bad # {} PROVE FALSE
    OBVIOUS
  <2>1. Bad \in SUBSET Nat
    OBVIOUS
  <2>2. PICK m \in Bad : \A j \in Bad : m <= j
    <3> HIDE DEF Bad
    <3> QED BY <2>1, LeastNat
  <2>3. m # 0
    BY <1>2, <2>2 DEF IsShift
  <2>4. m \in 1 .. n /\ m - 1 \in 0 .. n /\ ~(m <= m - 1)
    BY <1>1, <2>2, <2>3
  <2>5. m - 1 \notin Bad
    <3> HIDE DEF Bad
    <3> QED BY <2>2, <2>4
  <2>6. f[m - 1] <= g[m - 1] /\ f[m - 1] \in Nat /\ g[m - 1] \in Nat
    BY <1>2, <2>4, <2>5
  <2>7. f[m] = f[m - 1] \div 256 /\ g[m] = g[m - 1] \div 256
    BY <1>2, <2>4 DEF IsShift
  <2>8. \A a, b \in Nat : a <= b => a \div 256 <= b \div 256
    OBVIOUS
  <2>9. f[m] <= g[m]
    BY <2>6, <2>7, <2>8
  <2> QED BY <2>2, <2>9
<1>9. f[k - 1] % 256 < g[k - 1] % 256
  <2>1. f[k - 1] \in Nat /\ g[k - 1] \in Nat /\ f[k - 1] <= g[k - 1]
    BY <1>2, <1>6, <1>8
  <2>2. f[k - 1] \div 256 = g[k - 1] \div 256
    <3>1. f[k] = g[k]
      BY <1>4, <1>6
    <3> QED BY <1>2, <1>6, <3>1 DEF IsShift
  <2>3. \A a, b \in Nat : a <= b /\ a # b /\ a \div 256 = b \div 256 => a % 256 < b % 256
    OBVIOUS
  <2> QED BY <1>7, <2>1, <2>2, <2>3
<1>10. Parts(x, y, n - k)
  <2>1. n - k \in Nat /\ n - k < n /\ (n - k) + 1 \in 1 .. n /\ n - ((n - k) + 1) = k - 1
    BY <1>1, <1>6
  <2>2. ASSUME NEW i \in 1 .. n - k PROVE x[i] = y[i]
    <3>1. i \in 1 .. n /\ n - i \in k .. n
      BY <1>1, <1>6
    <3>2. f[n - i] = g[n - i]
      BY <1>4, <3>1
    <3> QED BY <1>3, <3>1, <3>2
  <2>3. x[(n - k) + 1] < y[(n - k) + 1]
    BY <1>3, <1>9, <2>1
  <2> QED BY <1>3, <2>1, <2>2, <2>3 DEF Parts
<1> QED BY <1>10, <1>1, <1>6 DEF Decides, Parts, x, y

\* The integers of a column, and the order of their encodings.
Int64 == -(intRange \div 2) .. intRange \div 2 - 1

LEMMA RangeIs ==
    \E h \in Nat : /\ h > 0 /\ intRange = 2 * h /\ intRange \div 2 = h /\ intRange \in Nat
                   /\ Int64 = (-h) .. h - 1
<1>1. PICK h \in Nat : h > 0 /\ intRange = 2 * h
  BY PowFacts
<1>2. intRange \div 2 = h /\ intRange \in Nat
  BY <1>1
<1> QED BY <1>1, <1>2 DEF Int64

LEMMA Remainder ==
    ASSUME NEW r \in Nat, r > 0, NEW x \in Int
    PROVE  /\ 0 <= x /\ x < r => x % r = x
           /\ r <= x /\ x < r + r => x % r = x - r
           /\ -r <= x /\ x < 0 => x % r = x + r
OBVIOUS

LEMMA FlippedSign ==
    ASSUME NEW n \in Int64
    PROVE  LET u == n + intRange \div 2
           IN  u \in Nat /\ u < intRange /\ encodeInt(n) = bigEndian(u)
<1>1. PICK h \in Nat : /\ h > 0 /\ intRange = 2 * h /\ intRange \div 2 = h /\ intRange \in Nat
                       /\ Int64 = (-h) .. h - 1
  BY RangeIs
<1> DEFINE r == intRange
           m == n % r
<1>2. n \in Int /\ -h <= n /\ n < h /\ r = h + h /\ r \in Nat /\ r > 0
  BY <1>1
<1> HIDE DEF r
<1>3. m = IF n < 0 THEN n + r ELSE n
  <2>1. /\ 0 <= n /\ n < r => m = n
        /\ -r <= n /\ n < 0 => m = n + r
    BY <1>2, Remainder
  <2> QED BY <1>2, <2>1
<1> HIDE DEF m
<1>4. (m + h) % r = n + h
  <2> DEFINE x == m + h
  <2>1. x \in Int /\ (IF n < 0 THEN x = n + r + h ELSE x = n + h)
    BY <1>2, <1>3
  <2> HIDE DEF x
  <2>2. /\ 0 <= x /\ x < r => x % r = x
        /\ r <= x /\ x < r + r => x % r = x - r
    BY <1>2, <2>1, Remainder
  <2>3. x % r = n + h
    BY <1>2, <2>1, <2>2
  <2> QED BY <2>3 DEF x
<1>5. encodeInt(n) = bigEndian(n + h)
  BY <1>1, <1>4 DEF encodeInt, m, r
<1> QED BY <1>1, <1>2, <1>5

LEMMA IntOrder ==
    ASSUME NEW m \in Int64, NEW n \in Int64, m < n
    PROVE  Decides(encodeInt(m), encodeInt(n))
<1> DEFINE h == intRange \div 2
           u == m + h
           v == n + h
<1>1. /\ u \in Nat /\ u < intRange /\ encodeInt(m) = bigEndian(u)
      /\ v \in Nat /\ v < intRange /\ encodeInt(n) = bigEndian(v)
  BY FlippedSign
<1>2. u < v
  BY RangeIs
<1> HIDE DEF u, v
<1> QED BY <1>1, <1>2, BigEndianOrder

-----------------------------------------------------------------------------
(* Rows in keys.                                                           *)

\* The values of columns, and their order in the order of a row.
Values == {StrVal(s) : s \in Seq(Byte)} \cup {IntVal(n) : n \in Int64}

ValueLess(v, w) ==
    /\ v.Type = w.Type
    /\ IF v.Type = TYPE_INT64 THEN v.I64 < w.I64 ELSE Compare(v.Str, w.Str) < 0

\* The first column in which the rows differ decides.
RowLessAt(a, b, n) ==
    /\ n \in Nat /\ n < Len(a) /\ n < Len(b)
    /\ \A i \in 1 .. n : a[i] = b[i]
    /\ ValueLess(a[n + 1], b[n + 1])

RowLess(a, b) == \E n \in Nat : RowLessAt(a, b, n)

SameTypes(a, b) == \A i \in Nat : 1 <= i /\ i <= Len(a) /\ i <= Len(b) => a[i].Type = b[i].Type

LEMMA ValueIs ==
    ASSUME NEW v \in Values
    PROVE  \/ /\ v.Type = TYPE_BYTES /\ v.Str \in Seq(Byte) /\ v = StrVal(v.Str)
              /\ encodeValue(v) = <<1>> \o encodedString(v.Str) /\ encodedString(v.Str) \in Seq(Int)
           \/ /\ v.Type = TYPE_INT64 /\ v.I64 \in Int64 /\ v = IntVal(v.I64)
              /\ encodeValue(v) = <<2>> \o encodeInt(v.I64) /\ encodeInt(v.I64) \in Seq(Int)
<1>1. CASE \E s \in Seq(Byte) : v = StrVal(s)
  <2>1. PICK s \in Seq(Byte) : v = StrVal(s)
    BY <1>1
  <2>2. v.Type = 1 /\ v.Str = s
    BY <2>1 DEF StrVal, TYPE_BYTES
  <2>3. encodedString(s) \in Seq(Int)
    BY EscapeTyped
  <2>4. encodeValue(v) = <<1>> \o encodedString(s)
    BY <2>2 DEF encodeValue, encodedString, TYPE_INT64
  <2> QED BY <2>1, <2>2, <2>3, <2>4 DEF TYPE_BYTES
<1>2. CASE \E n \in Int64 : v = IntVal(n)
  <2>1. PICK n \in Int64 : v = IntVal(n)
    BY <1>2
  <2>2. v.Type = 2 /\ v.I64 = n
    BY <2>1 DEF IntVal, TYPE_INT64
  <2>3. encodeInt(n) \in Seq(Int)
    <3> DEFINE u == n + intRange \div 2
    <3>1. u \in Nat /\ u < intRange /\ encodeInt(n) = bigEndian(u)
      BY FlippedSign
    <3> HIDE DEF u
    <3> QED BY <3>1, BigEndianTyped
  <2>4. encodeValue(v) = <<2>> \o encodeInt(n)
    BY <2>2 DEF encodeValue, TYPE_INT64
  <2> QED BY <2>1, <2>2, <2>3, <2>4 DEF TYPE_INT64
<1> QED BY <1>1, <1>2 DEF Values

\* No encoded value is empty, and none starts with ff.
LEMMA ValueTyped ==
    ASSUME NEW v \in Values
    PROVE  /\ encodeValue(v) \in Seq(Int) /\ Len(encodeValue(v)) > 0
           /\ encodeValue(v)[1] < 255 /\ encodeValue(v)[1] \in Int
<1>1. ASSUME NEW t \in 1 .. 2, NEW x \in Seq(Int)
      PROVE  /\ <<t>> \o x \in Seq(Int) /\ Len(<<t>> \o x) > 0
             /\ (<<t>> \o x)[1] < 255 /\ (<<t>> \o x)[1] \in Int
  OBVIOUS
<1>2. 1 \in 1 .. 2 /\ 2 \in 1 .. 2
  OBVIOUS
<1>3. PICK t \in 1 .. 2, x \in Seq(Int) : encodeValue(v) = <<t>> \o x
  BY <1>2, ValueIs
<1> QED BY <1>1, <1>3

LEMMA ValueOrder ==
    ASSUME NEW v \in Values, NEW w \in Values, ValueLess(v, w)
    PROVE  Decides(encodeValue(v), encodeValue(w))
<1>1. TYPE_BYTES # TYPE_INT64
  BY DEF TYPE_BYTES, TYPE_INT64
<1>2. <<1>> \in Seq(Int) /\ <<2>> \in Seq(Int)
  OBVIOUS
<1>3. CASE v.Type = TYPE_BYTES
  <2>1. /\ v.Str \in Seq(Byte) /\ w.Str \in Seq(Byte) /\ Compare(v.Str, w.Str) < 0
        /\ encodeValue(v) = <<1>> \o encodedString(v.Str) /\ encodedString(v.Str) \in Seq(Int)
        /\ encodeValue(w) = <<1>> \o encodedString(w.Str) /\ encodedString(w.Str) \in Seq(Int)
    BY <1>1, <1>3, ValueIs DEF ValueLess
  <2>2. Decides(encodedString(v.Str), encodedString(w.Str))
    BY <2>1, StringOrder
  <2> QED BY <1>2, <2>1, <2>2, DecidesLeft
<1>4. CASE v.Type = TYPE_INT64
  <2>1. /\ v.I64 \in Int64 /\ w.I64 \in Int64 /\ v.I64 < w.I64
        /\ encodeValue(v) = <<2>> \o encodeInt(v.I64) /\ encodeInt(v.I64) \in Seq(Int)
        /\ encodeValue(w) = <<2>> \o encodeInt(w.I64) /\ encodeInt(w.I64) \in Seq(Int)
    BY <1>1, <1>4, ValueIs DEF ValueLess
  <2>2. Decides(encodeInt(v.I64), encodeInt(w.I64))
    BY <2>1, IntOrder
  <2> QED BY <1>2, <2>1, <2>2, DecidesLeft
<1> QED BY <1>3, <1>4, ValueIs

LEMMA ValueTotal ==
    ASSUME NEW v \in Values, NEW w \in Values, v.Type = w.Type
    PROVE  v = w \/ ValueLess(v, w) \/ ValueLess(w, v)
<1>1. TYPE_BYTES # TYPE_INT64
  BY DEF TYPE_BYTES, TYPE_INT64
<1>2. CASE v.Type = TYPE_BYTES
  <2> DEFINE s == v.Str
             t == w.Str
  <2>1. s \in Seq(Byte) /\ t \in Seq(Byte) /\ v = StrVal(s) /\ w = StrVal(t)
    BY <1>1, <1>2, ValueIs
  <2>2. s \in Seq(Int) /\ t \in Seq(Int)
    <3>1. Byte \subseteq Int
      BY DEF Byte
    <3> QED BY <2>1, <3>1, SeqMonotonic
  <2>3. s = t \/ Compare(s, t) < 0 \/ Compare(t, s) < 0
    <3> HIDE DEF s, t
    <3> QED BY <2>2, CompareTotal
  <2> QED BY <1>1, <1>2, <2>1, <2>3 DEF ValueLess
<1>3. CASE v.Type = TYPE_INT64
  <2>1. v.I64 \in Int64 /\ w.I64 \in Int64 /\ v = IntVal(v.I64) /\ w = IntVal(w.I64)
    BY <1>1, <1>3, ValueIs
  <2>2. v.I64 \in Int /\ w.I64 \in Int
    BY <2>1, RangeIs
  <2> QED BY <1>3, <2>1, <2>2 DEF ValueLess
<1> QED BY <1>2, <1>3, ValueIs

\* The encoded values of a row.
cells(a) == [i \in DOMAIN a |-> encodeValue(a[i])]

LEMMA CellsTyped ==
    ASSUME NEW a \in Seq(Values)
    PROVE  /\ cells(a) \in Seq(Seq(Int)) /\ Len(cells(a)) = Len(a) /\ Len(a) \in Nat
           /\ \A i \in 1 .. Len(a) : cells(a)[i] = encodeValue(a[i]) /\ a[i] \in Values
           /\ encodeValues(a) = FlattenSeq(cells(a)) /\ encodeValues(a) \in Seq(Int)
<1> DEFINE c == cells(a)
<1>1. Len(a) \in Nat /\ DOMAIN a = 1 .. Len(a)
  BY LenProperties
<1>2. c = [i \in 1 .. Len(a) |-> encodeValue(a[i])]
  BY <1>1 DEF cells
<1> HIDE DEF c
<1>3. \A i \in 1 .. Len(a) : c[i] = encodeValue(a[i]) /\ a[i] \in Values
  BY <1>2, ElementOfSeq
<1>4. \A i \in 1 .. Len(a) : c[i] \in Seq(Int)
  BY <1>3, ValueTyped
<1>5. c = [i \in 1 .. Len(a) |-> c[i]]
  BY <1>2
<1>6. c \in Seq(Seq(Int))
  BY <1>1, <1>4, <1>5, IsASeq
<1>7. Len(c) = Len(a)
  BY <1>1, <1>2, <1>6, LenProperties
<1>8. encodeValues(a) = FlattenSeq(c)
  BY DEF encodeValues, cells, c
<1>9. FlattenSeq(c) \in Seq(Int)
  BY <1>6, FlattenTyped
<1> QED BY <1>1, <1>3, <1>6, <1>7, <1>8, <1>9 DEF c

LEMMA RowOrder ==
    ASSUME NEW p \in Nat, NEW a \in Seq(Values), NEW b \in Seq(Values), RowLess(a, b)
    PROVE  Decides(encodeKey(p, a), encodeKey(p, b))
<1>1. PICK n \in Nat : RowLessAt(a, b, n)
  BY DEF RowLess
<1> DEFINE x == cells(a)
           y == cells(b)
<1>2. /\ x \in Seq(Seq(Int)) /\ Len(x) = Len(a) /\ Len(a) \in Nat
      /\ y \in Seq(Seq(Int)) /\ Len(y) = Len(b) /\ Len(b) \in Nat
      /\ \A i \in 1 .. Len(a) : x[i] = encodeValue(a[i]) /\ a[i] \in Values
      /\ \A i \in 1 .. Len(b) : y[i] = encodeValue(b[i]) /\ b[i] \in Values
      /\ encodeValues(a) = FlattenSeq(x) /\ encodeValues(a) \in Seq(Int)
      /\ encodeValues(b) = FlattenSeq(y) /\ encodeValues(b) \in Seq(Int)
  BY CellsTyped
<1> HIDE DEF x, y
<1>3. n < Len(x) /\ n < Len(y) /\ n + 1 \in 1 .. Len(a) /\ n + 1 \in 1 .. Len(b)
  BY <1>1, <1>2 DEF RowLessAt
<1>4. \A i \in 1 .. n : x[i] = y[i]
  <2>1. \A i \in 1 .. n : i \in 1 .. Len(a) /\ i \in 1 .. Len(b)
    BY <1>2, <1>3
  <2> QED BY <1>1, <1>2, <2>1 DEF RowLessAt
<1>5. Decides(x[n + 1], y[n + 1])
  <2>1. ValueLess(a[n + 1], b[n + 1])
    BY <1>1 DEF RowLessAt
  <2> QED BY <1>2, <1>3, <2>1, ValueOrder
<1>6. Decides(FlattenSeq(x), FlattenSeq(y))
  BY <1>2, <1>3, <1>4, <1>5, FlattenDecides
<1>7. <<p>> \in Seq(Int)
  OBVIOUS
<1> QED BY <1>2, <1>6, <1>7, DecidesLeft DEF encodeKey

LEMMA RowTotal ==
    ASSUME NEW a \in Seq(Values), NEW b \in Seq(Values), SameTypes(a, b)
    PROVE  \/ RowLess(a, b) \/ RowLess(b, a)
           \/ \A i \in 1 .. Len(a) : i <= Len(b) => a[i] = b[i]
<1> DEFINE Bad == {i \in 1 .. Len(a) : i <= Len(b) /\ a[i] # b[i]}
<1>1. Len(a) \in Nat /\ Len(b) \in Nat
  BY LenProperties
<1>2. CASE Bad = {}
  BY <1>2
<1>3. CASE Bad # {}
  <2>1. Bad \in SUBSET Nat
    BY <1>1
  <2>2. PICK m \in Bad : \A k \in Bad : m <= k
    <3> HIDE DEF Bad
    <3> QED BY <1>3, <2>1, LeastNat
  <2>3. m \in 1 .. Len(a) /\ m \in 1 .. Len(b) /\ m - 1 \in Nat /\ (m - 1) + 1 = m
        /\ m - 1 < Len(a) /\ m - 1 < Len(b) /\ a[m] # b[m]
    BY <1>1, <2>2
  <2>4. ASSUME NEW i \in 1 .. m - 1 PROVE a[i] = b[i]
    <3>1. i \in 1 .. Len(a) /\ i <= Len(b) /\ ~(m <= i)
      BY <1>1, <2>3
    <3>2. i \notin Bad
      <4> HIDE DEF Bad
      <4> QED BY <2>2, <3>1
    <3> QED BY <3>1, <3>2
  <2>5. a[m] \in Values /\ b[m] \in Values /\ a[m].Type = b[m].Type
    <3>1. a[m] \in Values /\ b[m] \in Values
      BY <2>3, ElementOfSeq
    <3>2. m \in Nat /\ 1 <= m /\ m <= Len(a) /\ m <= Len(b)
      BY <1>1, <2>3
    <3> QED BY <3>1, <3>2 DEF SameTypes
  <2>6. ValueLess(a[m], b[m]) \/ ValueLess(b[m], a[m])
    BY <2>3, <2>5, ValueTotal
  <2>7. CASE ValueLess(a[m], b[m])
    <3>1. RowLessAt(a, b, m - 1)
      BY <2>3, <2>4, <2>7 DEF RowLessAt
    <3> QED BY <2>3, <3>1 DEF RowLess
  <2>8. CASE ValueLess(b[m], a[m])
    <3>1. RowLessAt(b, a, m - 1)
      BY <2>3, <2>4, <2>8 DEF RowLessAt
    <3> QED BY <2>3, <3>1 DEF RowLess
  <2> QED BY <2>6, <2>7, <2>8
<1> QED BY <1>2, <1>3

\* A row that starts with the values b: its key starts with theirs, and what
\* follows, if anything does, does not start with ff.
LEMMA RowExtends ==
    ASSUME NEW p \in Nat, NEW a \in Seq(Values), NEW b \in Seq(Values), Len(b) <= Len(a),
           \A i \in 1 .. Len(b) : a[i] = b[i]
    PROVE  \E rest \in Seq(Int) :
               /\ encodeKey(p, a) = encodeKey(p, b) \o rest
               /\ rest = <<>> \/ (Len(rest) > 0 /\ rest[1] < 255)
               /\ Len(a) = Len(b) => rest = <<>>
<1> DEFINE x == cells(a)
           y == cells(b)
           n == Len(b)
           va == encodeValues(a)
           vb == encodeValues(b)
<1>1. /\ x \in Seq(Seq(Int)) /\ Len(x) = Len(a) /\ Len(a) \in Nat
      /\ y \in Seq(Seq(Int)) /\ Len(y) = n /\ n \in Nat
      /\ \A i \in 1 .. Len(a) : x[i] = encodeValue(a[i]) /\ a[i] \in Values
      /\ \A i \in 1 .. n : y[i] = encodeValue(b[i]) /\ b[i] \in Values
      /\ va = FlattenSeq(x) /\ va \in Seq(Int)
      /\ vb = FlattenSeq(y) /\ vb \in Seq(Int)
  BY CellsTyped
<1>2. encodeKey(p, a) = <<p>> \o va /\ encodeKey(p, b) = <<p>> \o vb /\ <<p>> \in Seq(Int)
  BY DEF encodeKey
<1>3. \A i \in 1 .. n : a[i] = b[i] /\ n <= Len(a)
  OBVIOUS
<1> HIDE DEF x, y, va, vb, n
<1>4. Alike(x, y, n)
  <2>1. \A i \in 1 .. n : i \in 1 .. Len(a)
    BY <1>1, <1>3
  <2>2. \A i \in 1 .. n : x[i] = y[i]
    BY <1>1, <1>3, <2>1
  <2>3. n <= Len(a)
    BY DEF n
  <2> QED BY <1>1, <2>2, <2>3 DEF Alike
<1>5. PICK f : Partial(x, f, Len(x))
  <2>1. Len(x) \in Nat /\ Len(x) <= Len(x)
    BY <1>1
  <2> QED BY <1>1, <2>1, PartialExists
<1>6. PICK g : Partial(y, g, Len(y))
  <2>1. Len(y) \in Nat /\ Len(y) <= Len(y)
    BY <1>1
  <2> QED BY <1>1, <2>1, PartialExists
<1>7. f[n] = g[n] /\ va = f[Len(x)] /\ vb = g[n]
  <2>1. f[n] = g[n]
    BY <1>1, <1>4, <1>5, <1>6, PartialSame
  <2> QED BY <1>1, <1>5, <1>6, <2>1, FlattenIs
<1>8. CASE Len(a) = n
  <2>1. va = vb
    BY <1>1, <1>7, <1>8
  <2> DEFINE key == <<p>> \o vb
  <2>2. key \in Seq(Int) /\ key \o <<>> = key /\ <<>> \in Seq(Int)
    BY <1>1, <1>2, ConcatEmptySeq, ConcatProperties
  <2> QED BY <1>2, <2>1, <2>2
<1>9. CASE Len(a) # n
  <2>1. n + 1 \in 1 .. Len(a) /\ n + 1 \in 0 .. Len(x) /\ n + 1 \in 1 .. Len(x) /\ (n + 1) - 1 = n
    <3>1. n <= Len(a)
      BY DEF n
    <3> QED BY <1>1, <1>9, <3>1
  <2>2. PICK u \in Seq(Int) : f[Len(x)] = f[n + 1] \o u
    BY <1>1, <1>5, <2>1, PartialExtends, ZenonT(60)
  <2> DEFINE c == x[n + 1]
  <2>3. f[n + 1] = vb \o c
    BY <1>5, <1>7, <2>1 DEF Partial
  <2>4. c \in Seq(Int) /\ Len(c) > 0 /\ c[1] < 255 /\ Len(c) \in Nat
    <3>1. x[n + 1] = encodeValue(a[n + 1]) /\ a[n + 1] \in Values
      BY <1>1, <2>1
    <3> QED BY <3>1, ValueTyped, LenProperties
  <2> HIDE DEF c
  <2> DEFINE rest == c \o u
  <2>5. rest \in Seq(Int) /\ va = vb \o rest
    <3>1. (vb \o c) \o u = vb \o (c \o u) /\ c \o u \in Seq(Int)
      BY <1>1, <2>2, <2>4, Associative, ZenonT(60)
    <3> QED BY <1>7, <2>2, <2>3, <3>1
  <2>6. Len(rest) > 0 /\ rest[1] = c[1]
    <3>1. Len(rest) = Len(c) + Len(u) /\ Len(u) \in Nat /\ 1 \in 1 .. Len(c) + Len(u) /\ 1 <= Len(c)
      BY <2>2, <2>4, ConcatProperties
    <3>2. rest[1] = c[1]
      BY <2>2, <2>4, <3>1, ConcatProperties
    <3> QED BY <2>4, <3>1, <3>2
  <2> HIDE DEF rest
  <2>7. (<<p>> \o vb) \o rest = <<p>> \o (vb \o rest)
    BY <1>1, <1>2, <2>5, Associative
  <2>8. encodeKey(p, a) = encodeKey(p, b) \o rest
    BY <1>2, <2>5, <2>7
  <2> QED BY <1>9, <2>4, <2>5, <2>6, <2>8 DEF n
<1> QED BY <1>8, <1>9

LEMMA KeyTyped ==
    ASSUME NEW p \in Nat, NEW a \in Seq(Values)
    PROVE  /\ encodeKey(p, a) \in Seq(Int) /\ Len(encodeKey(p, a)) > 0 /\ encodeKey(p, a)[1] = p
           /\ \A cmp : \E u \in Seq(Int) : encodeKeyPartial(p, a, cmp) = encodeKey(p, a) \o u
<1> DEFINE v == encodeValues(a)
           key == encodeKey(p, a)
<1>1. v \in Seq(Int) /\ <<p>> \in Seq(Int)
  BY CellsTyped
<1>2. key = <<p>> \o v
  BY DEF encodeKey
<1> HIDE DEF v
<1>3. key \in Seq(Int) /\ Len(key) > 0 /\ key[1] = p
  BY <1>1, <1>2
<1>4. <<>> \in Seq(Int) /\ <<255>> \in Seq(Int)
  OBVIOUS
<1> QED BY <1>3, <1>4 DEF encodeKeyPartial

\* The order of the keys of a table or an index, as byte strings, is the order of
\* the rows, and no two rows share a key (table.go encodeKey, encodeValues,
\* escapeString): for integers of any width, negative ones too, and strings
\* with any bytes in them.
THEOREM KeysOrdered ==
    ASSUME NEW p \in Nat, NEW a \in Seq(Values), NEW b \in Seq(Values),
           Len(a) = Len(b), SameTypes(a, b)
    PROVE  /\ Compare(encodeKey(p, a), encodeKey(p, b)) < 0 <=> RowLess(a, b)
           /\ encodeKey(p, a) = encodeKey(p, b) <=> a = b
<1> DEFINE x == encodeKey(p, a)
           y == encodeKey(p, b)
<1>1. x \in Seq(Int) /\ y \in Seq(Int)
  BY KeyTyped
<1>2. /\ RowLess(a, b) => Decides(x, y)
      /\ RowLess(b, a) => Decides(y, x)
  BY RowOrder
<1>3. (\A i \in 1 .. Len(a) : i <= Len(b) => a[i] = b[i]) => a = b
  <2> SUFFICES ASSUME \A i \in 1 .. Len(a) : i <= Len(b) => a[i] = b[i] PROVE a = b
    OBVIOUS
  <2>1. Len(a) \in Nat /\ \A i \in 1 .. Len(a) : i <= Len(b)
    BY LenProperties
  <2>2. \A i \in 1 .. Len(a) : a[i] = b[i]
    BY <2>1
  <2> QED BY <2>2, SeqEqual
<1>4. RowLess(a, b) \/ RowLess(b, a) \/ a = b
  BY <1>3, RowTotal
<1>5. a = b => x = y
  OBVIOUS
<1> HIDE DEF x, y
<1>6. /\ Decides(x, y) => Compare(x, y) < 0 /\ Compare(y, x) > 0
      /\ Decides(y, x) => Compare(y, x) < 0 /\ Compare(x, y) > 0
  BY <1>1, DecidesLess
<1>7. /\ Compare(x, y) \in {-1, 0, 1} /\ (Compare(x, y) = 0 <=> x = y)
  BY <1>1, CompareTotal
<1>8. /\ Compare(x, y) < 0 <=> RowLess(a, b)
      /\ x = y <=> a = b
  BY <1>2, <1>4, <1>5, <1>6, <1>7
<1> QED BY <1>8 DEF x, y

\* The row is in the relation to the values, which may be of the first columns only.
Within(row, cmp, vals) ==
    \/ cmp = "GE" /\ ~RowLess(row, vals)
    \/ cmp = "GT" /\ RowLess(vals, row)
    \/ cmp = "LT" /\ RowLess(row, vals)
    \/ cmp = "LE" /\ ~RowLess(vals, row)

LEMMA EndsBefore ==
    ASSUME NEW x \in Seq(Int), NEW rest \in Seq(Int), rest = <<>> \/ (Len(rest) > 0 /\ rest[1] < 255)
    PROVE  Compare(x \o rest, x) >= 0 /\ Compare(x \o rest, x \o <<255>>) < 0
<1> DEFINE y == x \o rest
           z == x \o <<255>>
<1>0. <<255>> \in Seq(Int) /\ Len(<<255>>) = 1 /\ <<255>>[1] = 255
  OBVIOUS
<1>1. /\ y \in Seq(Int) /\ Len(y) = Len(x) + Len(rest) /\ \A i \in 1 .. Len(x) : y[i] = x[i]
      /\ z \in Seq(Int) /\ Len(z) = Len(x) + 1 /\ (\A i \in 1 .. Len(x) : z[i] = x[i])
      /\ Len(x) \in Nat /\ Len(rest) \in Nat
  OBVIOUS
<1>2. CASE rest = <<>>
  <2>1. y = x /\ Compare(x, x) = 0
    BY <1>2, CompareTotal, ConcatEmptySeq
  <2> HIDE DEF z
  <2>2. Part(x, z, Len(x))
    BY <1>1 DEF Part, Agree
  <2>3. Compare(x, z) = -1
    <3> DEFINE n == Len(x)
    <3>1. Part(x, z, n) /\ n = Len(x) /\ n < Len(z)
      BY <1>1, <2>2
    <3> HIDE DEF n
    <3> QED BY <1>1, <3>1, CompareAt
  <2> QED BY <2>1, <2>3 DEF z
<1>3. CASE Len(rest) > 0 /\ rest[1] < 255
  <2>1. Parts(rest, <<255>>, 0)
    <3> DEFINE e == <<255>>
    <3>1. Len(e) = 1 /\ e[1] = 255 /\ 0 + 1 = 1 /\ 1 .. 0 = {} /\ 0 < 1 /\ 0 \in Nat
      OBVIOUS
    <3> HIDE DEF e
    <3>2. Parts(rest, e, 0)
      BY <1>1, <1>3, <3>1 DEF Parts
    <3> QED BY <3>2 DEF e
  <2>2. Decides(rest, <<255>>)
    BY <2>1 DEF Decides
  <2>3. Decides(y, z)
    BY <1>0, <2>2, DecidesLeft
  <2> HIDE DEF y, z
  <2>4. Compare(y, z) < 0
    BY <1>1, <2>3, DecidesLess
  <2>5. Part(y, x, Len(x))
    BY <1>1, <1>3 DEF Part, Agree
  <2>6. Compare(y, x) = 1
    <3> DEFINE n == Len(x)
    <3>1. Part(y, x, n) /\ n = Len(x) /\ n < Len(y)
      BY <1>1, <1>3, <2>5
    <3> HIDE DEF n
    <3> QED BY <1>1, <3>1, CompareAt
  <2> QED BY <2>4, <2>6 DEF y, z
<1> QED BY <1>2, <1>3

\* One end of a range, for the rows of the same table.
LEMMA BoundExact ==
    ASSUME NEW p \in Nat, NEW row \in Seq(Values), NEW vals \in Seq(Values),
           Len(vals) <= Len(row), SameTypes(row, vals), NEW cmp \in Comparisons4
    PROVE  cmpOK(encodeKey(p, row), cmp, encodeKeyPartial(p, vals, cmp)) <=> Within(row, cmp, vals)
<1> DEFINE x == encodeKey(p, row)
           y == encodeKey(p, vals)
           z == y \o <<255>>
           k == encodeKeyPartial(p, vals, cmp)
           A == RowLess(row, vals)
           B == RowLess(vals, row)
           C == \A i \in 1 .. Len(vals) : row[i] = vals[i]
<1>1. x \in Seq(Int) /\ y \in Seq(Int) /\ y \o <<>> = y /\ <<255>> \in Seq(Int) /\ <<>> \in Seq(Int)
  <2>1. x \in Seq(Int) /\ y \in Seq(Int)
    BY KeyTyped
  <2> HIDE DEF x, y
  <2> QED BY <2>1, ConcatEmptySeq
<1>2. k = IF cmp \in {"GT", "LE"} THEN z ELSE y
  BY <1>1 DEF encodeKeyPartial
<1>3. /\ A => Decides(x, y)
      /\ B => Decides(y, x)
  BY RowOrder
<1>4. A \/ B \/ C
  <2>1. \/ A \/ B \/ \A i \in 1 .. Len(row) : i <= Len(vals) => row[i] = vals[i]
    BY RowTotal
  <2>2. Len(row) \in Nat /\ Len(vals) \in Nat
    BY LenProperties
  <2>3. \A i \in 1 .. Len(vals) : i \in 1 .. Len(row) /\ i <= Len(vals)
    BY <2>2
  <2> HIDE DEF A, B
  <2> QED BY <2>1, <2>3
<1>5. C => Compare(x, y) >= 0 /\ Compare(x, z) < 0
  <2> SUFFICES ASSUME C PROVE Compare(x, y) >= 0 /\ Compare(x, z) < 0
    OBVIOUS
  <2>1. PICK rest \in Seq(Int) : /\ x = y \o rest
                                 /\ rest = <<>> \/ (Len(rest) > 0 /\ rest[1] < 255)
    BY RowExtends, ZenonT(60)
  <2> HIDE DEF x, y
  <2> QED BY <1>1, <2>1, EndsBefore
<1> HIDE DEF x, y
<1>6. A => Compare(x, y) < 0 /\ Compare(x, z) < 0
  <2> SUFFICES ASSUME A PROVE Compare(x, y) < 0 /\ Compare(x, z) < 0
    OBVIOUS
  <2>1. Decides(x, y) /\ x \o <<>> = x
    BY <1>1, <1>3, ConcatEmptySeq
  <2>2. z \in Seq(Int)
    BY <1>1, ConcatProperties
  <2>3. Decides(x, z)
    <3> DEFINE e == <<>>
               h == <<255>>
    <3>1. e \in Seq(Int) /\ h \in Seq(Int) /\ x \o e = x /\ z = y \o h
      BY <1>1, <2>1
    <3> HIDE DEF e, h, z
    <3>2. Decides(x \o e, y \o h)
      BY <1>1, <2>1, <3>1, DecidesRight
    <3> QED BY <3>1, <3>2
  <2> HIDE DEF z
  <2> QED BY <1>1, <2>1, <2>2, <2>3, DecidesLess
<1>7. B => Compare(x, y) > 0 /\ Compare(x, z) > 0
  <2> SUFFICES ASSUME B PROVE Compare(x, y) > 0 /\ Compare(x, z) > 0
    OBVIOUS
  <2>1. Decides(y, x) /\ x \o <<>> = x
    BY <1>1, <1>3, ConcatEmptySeq
  <2>2. z \in Seq(Int)
    BY <1>1, ConcatProperties
  <2>3. Decides(z, x)
    <3> DEFINE e == <<>>
               h == <<255>>
    <3>1. e \in Seq(Int) /\ h \in Seq(Int) /\ x \o e = x /\ z = y \o h
      BY <1>1, <2>1
    <3> HIDE DEF e, h, z
    <3>2. Decides(y \o h, x \o e)
      BY <1>1, <2>1, <3>1, DecidesRight
    <3> QED BY <3>1, <3>2
  <2> HIDE DEF z
  <2> QED BY <1>1, <2>1, <2>2, <2>3, DecidesLess
<1>8. Compare(x, y) \in {-1, 0, 1} /\ Compare(x, z) \in {-1, 0, 1}
  <2>1. z \in Seq(Int)
    BY <1>1, ConcatProperties
  <2> HIDE DEF z
  <2> QED BY <1>1, <2>1, CompareTotal
<1> HIDE DEF z, k, C
<1>9. Within(row, cmp, vals) <=> \/ (cmp = "GE" /\ ~A) \/ (cmp = "GT" /\ B)
                                 \/ (cmp = "LT" /\ A) \/ (cmp = "LE" /\ ~B)
  BY DEF Within
<1> HIDE DEF A, B
<1>10. CASE cmp = "GE"
  BY <1>2, <1>4, <1>5, <1>6, <1>7, <1>8, <1>9, <1>10 DEF cmpOK, Then, x, k
<1>11. CASE cmp = "GT"
  BY <1>2, <1>4, <1>5, <1>6, <1>7, <1>8, <1>9, <1>11 DEF cmpOK, Then, x, k
<1>12. CASE cmp = "LT"
  BY <1>2, <1>4, <1>5, <1>6, <1>7, <1>8, <1>9, <1>12 DEF cmpOK, Then, x, k
<1>13. CASE cmp = "LE"
  BY <1>2, <1>4, <1>5, <1>6, <1>7, <1>8, <1>9, <1>13 DEF cmpOK, Then, x, k
<1> QED BY <1>10, <1>11, <1>12, <1>13 DEF Comparisons4

\* One end of a range, for the keys of another table.
LEMMA BoundOther ==
    ASSUME NEW p \in Nat, NEW q \in Nat, p # q, NEW row \in Seq(Values), NEW vals \in Seq(Values),
           NEW cmp \in Comparisons4
    PROVE  cmpOK(encodeKey(q, row), cmp, encodeKeyPartial(p, vals, cmp)) <=>
               IF Forward(cmp) THEN q > p ELSE q < p
<1> DEFINE x == encodeKey(q, row)
           y == encodeKey(p, vals)
           k == encodeKeyPartial(p, vals, cmp)
<1>1. /\ x \in Seq(Int) /\ Len(x) > 0 /\ x[1] = q
      /\ y \in Seq(Int) /\ Len(y) > 0 /\ y[1] = p
  BY KeyTyped
<1>2. PICK u \in Seq(Int) : k = y \o u
  BY KeyTyped, ZenonT(60)
<1> HIDE DEF x, y, k
<1>3. k \in Seq(Int) /\ Len(k) > 0 /\ k[1] = p
  BY <1>1, <1>2
<1>4. Len(x) \in Nat /\ Len(k) \in Nat
  BY <1>1, <1>3, LenProperties
<1>5. Part(x, k, 0)
  BY <1>1, <1>3, <1>4 DEF Part, Agree
<1>6. Compare(x, k) = IF q < p THEN -1 ELSE 1
  <2> DEFINE n == 0
  <2>1. Part(x, k, n) /\ n < Len(x) /\ n < Len(k) /\ n + 1 = 1
    BY <1>1, <1>3, <1>4, <1>5
  <2> HIDE DEF n
  <2>2. Compare(x, k) = IF x[n + 1] < k[n + 1] THEN -1 ELSE 1
    BY <1>1, <1>3, <2>1, CompareAt
  <2> QED BY <1>1, <1>3, <2>1, <2>2
<1>7. cmpOK(x, cmp, k) <=> IF Forward(cmp) THEN q > p ELSE q < p
  <2> DEFINE r == Compare(x, k)
  <2>1. q > p <=> ~(q < p)
    OBVIOUS
  <2>2. r = IF q < p THEN -1 ELSE 1
    BY <1>6
  <2>3. /\ cmp = "GE" => (cmpOK(x, cmp, k) <=> r >= 0) /\ Forward(cmp)
        /\ cmp = "GT" => (cmpOK(x, cmp, k) <=> r > 0) /\ Forward(cmp)
        /\ cmp = "LT" => (cmpOK(x, cmp, k) <=> r < 0) /\ ~Forward(cmp)
        /\ cmp = "LE" => (cmpOK(x, cmp, k) <=> r <= 0) /\ ~Forward(cmp)
    BY DEF cmpOK, Then, Forward
  <2> HIDE DEF r
  <2> QED BY <2>1, <2>2, <2>3 DEF Comparisons4
<1> QED BY <1>7 DEF x, k

\* A range of an index holds exactly the rows between its ends (table.go dbScan,
\* encodeKeyPartial), whatever number of leading columns each end gives: no row
\* of another table or index, whose prefix is p # q, and none that ties with the
\* values of an end in their columns is taken in or left out by mistake.
THEOREM RangeExact ==
    ASSUME NEW p \in Nat, NEW q \in Nat, NEW row \in Seq(Values),
           NEW vals1 \in Seq(Values), NEW vals2 \in Seq(Values),
           NEW cmp1 \in Comparisons4, NEW cmp2 \in Comparisons4, Forward(cmp1) # Forward(cmp2),
           p = q => /\ Len(vals1) <= Len(row) /\ SameTypes(row, vals1)
                    /\ Len(vals2) <= Len(row) /\ SameTypes(row, vals2)
    PROVE  (/\ cmpOK(encodeKey(q, row), cmp1, encodeKeyPartial(p, vals1, cmp1))
            /\ cmpOK(encodeKey(q, row), cmp2, encodeKeyPartial(p, vals2, cmp2)))
           <=> p = q /\ Within(row, cmp1, vals1) /\ Within(row, cmp2, vals2)
<1> DEFINE in1 == cmpOK(encodeKey(q, row), cmp1, encodeKeyPartial(p, vals1, cmp1))
           in2 == cmpOK(encodeKey(q, row), cmp2, encodeKeyPartial(p, vals2, cmp2))
<1>1. CASE p = q
  <2>1. in1 <=> Within(row, cmp1, vals1)
    BY <1>1, BoundExact
  <2>2. in2 <=> Within(row, cmp2, vals2)
    BY <1>1, BoundExact
  <2> HIDE DEF in1, in2
  <2> QED BY <1>1, <2>1, <2>2 DEF in1, in2
<1>2. CASE p # q
  <2>1. in1 <=> IF Forward(cmp1) THEN q > p ELSE q < p
    BY <1>2, BoundOther
  <2>2. in2 <=> IF Forward(cmp2) THEN q > p ELSE q < p
    BY <1>2, BoundOther
  <2>3. ~(q > p /\ q < p) /\ Forward(cmp1) \in BOOLEAN /\ Forward(cmp2) \in BOOLEAN
    BY DEF Forward
  <2>4. ~(in1 /\ in2)
    <3> HIDE DEF in1, in2
    <3> QED BY <2>1, <2>2, <2>3
  <2> QED BY <1>2, <2>4
<1> QED BY <1>1, <1>2

-----------------------------------------------------------------------------
(* Decoding.                                                               *)

LEMMA IntDecoded ==
    ASSUME NEW m \in Int64
    PROVE  decodeInt(encodeInt(m)) = m
<1> DEFINE n == IntBytes
           r == intRange
           x == m + r \div 2
           w == shifted(x)
           b == encodeInt(m)
           IsFcn(f) == f = [i \in 0 .. n |-> IF i = 0 THEN 0 ELSE 256 * f[i - 1] + b[i]]
           g == [i \in 0 .. n |-> w[n - i]]
           u == CHOOSE f : IsFcn(f)
<1>1. n \in Nat /\ n > 0
  BY IntBytesAssumption
<1>2. x \in Nat /\ x < r /\ b = bigEndian(x)
  BY FlippedSign
<1>3. /\ IsShift(w, x, n) /\ w[n] = 0
      /\ \A k \in 0 .. n : w[k] \in Nat
      /\ \A i \in 1 .. n : b[i] = w[n - i] % 256
  <2> HIDE DEF x, r
  <2> QED BY <1>2, ShiftFacts, BigEndianTyped DEF r
<1> HIDE DEF n, x, w, b
<1>4. ASSUME NEW i \in 0 .. n PROVE g[i] = IF i = 0 THEN 0 ELSE 256 * g[i - 1] + b[i]
  <2>1. CASE i = 0
    BY <1>1, <1>3, <2>1
  <2>2. CASE i # 0
    <3>1. i \in 1 .. n /\ i - 1 \in 0 .. n /\ n - (i - 1) \in 1 .. n /\ (n - (i - 1)) - 1 = n - i
          /\ n - i \in 0 .. n
      BY <1>1, <2>2
    <3>2. g[i] = w[n - i] /\ g[i - 1] = w[n - (i - 1)]
      BY <3>1
    <3>3. w[n - (i - 1)] = w[n - i] \div 256 /\ w[n - i] \in Nat /\ b[i] = w[n - i] % 256
      BY <1>3, <3>1 DEF IsShift
    <3>4. \A y \in Nat : y = 256 * (y \div 256) + (y % 256)
      OBVIOUS
    <3> HIDE DEF g
    <3> QED BY <2>2, <3>2, <3>3, <3>4
  <2> QED BY <2>1, <2>2
<1>5. IsFcn(g)
  BY <1>4
<1>6. IsFcn(u)
  <2> HIDE DEF IsFcn, g
  <2> QED BY <1>5
<1> HIDE DEF u
<1>7. \A i \in 0 .. n : u[i] = g[i]
  <2> DEFINE Bad == {i \in 0 .. n : u[i] # g[i]}
  <2> SUFFICES ASSUME Bad # {} PROVE FALSE
    OBVIOUS
  <2>1. Bad \in SUBSET Nat
    OBVIOUS
  <2>2. PICK j \in Bad : \A k \in Bad : j <= k
    <3> HIDE DEF Bad
    <3> QED BY <2>1, LeastNat
  <2>3. j \in 0 .. n /\ u[j] = IF j = 0 THEN 0 ELSE 256 * u[j - 1] + b[j]
    BY <1>6, <2>2
  <2>4. g[j] = IF j = 0 THEN 0 ELSE 256 * g[j - 1] + b[j]
    BY <1>4, <2>3
  <2> HIDE DEF g
  <2>5. j # 0
    BY <2>2, <2>3, <2>4
  <2>6. j - 1 \in 0 .. n /\ ~(j <= j - 1)
    BY <1>1, <2>3, <2>5
  <2>7. u[j - 1] = g[j - 1]
    <3>1. j - 1 \notin Bad
      <4> HIDE DEF Bad
      <4> QED BY <2>2, <2>6
    <3> QED BY <2>6, <3>1
  <2> QED BY <2>2, <2>3, <2>4, <2>7
<1>8. u[n] = x
  <2>1. n \in 0 .. n /\ n - n = 0
    BY <1>1
  <2> QED BY <1>3, <1>7, <2>1 DEF IsShift
<1> DEFINE y == (u[n] + r \div 2) % r
<1>9. decodeInt(b) = IF y < r \div 2 THEN y ELSE y - r
  BY DEF decodeInt, u, n
<1>10. PICK h \in Nat : h > 0 /\ r = 2 * h /\ r \div 2 = h /\ r \in Nat /\ Int64 = (-h) .. h - 1
  BY RangeIs
<1>11. m \in Int /\ -h <= m /\ m < h /\ r = h + h /\ r \in Nat /\ r > 0 /\ x = m + h
  BY <1>10 DEF x
<1>12. y = (m + r) % r
  <2>1. u[n] + r \div 2 = m + r
    <3> HIDE DEF r
    <3> QED BY <1>8, <1>10, <1>11
  <2> QED BY <2>1
<1> HIDE DEF y, r
<1>13. y = IF m < 0 THEN m + r ELSE m
  <2> DEFINE z == m + r
  <2>1. z \in Int /\ z = m + r
    BY <1>11
  <2> HIDE DEF z
  <2>2. /\ 0 <= z /\ z < r => z % r = z
        /\ r <= z /\ z < r + r => z % r = z - r
    BY <1>11, <2>1, Remainder
  <2>3. y = z % r
    BY <1>12 DEF z
  <2> QED BY <1>11, <2>1, <2>2, <2>3
<1>14. (IF y < h THEN y ELSE y - r) = m
  BY <1>11, <1>13
<1> QED BY <1>9, <1>10, <1>14 DEF b

\* What unescapeString makes of s from position i on, given f for later positions.
unescapedAt(f, s, i) ==
    IF i > Len(s) THEN <<>>
    ELSE IF s[i] = 1 THEN <<s[i + 1] - 1>> \o f[i + 2] ELSE <<s[i]>> \o f[i + 1]

IsUnescape(f, s, low) ==
    /\ DOMAIN f = low .. Len(s) + 2
    /\ \A i \in low .. Len(s) + 2 : f[i] = unescapedAt(f, s, i)

LEMMA UnescapeExists ==
    ASSUME NEW s \in Seq(Int)
    PROVE  \E f : IsUnescape(f, s, 1)
<1> DEFINE l == Len(s)
           Bad == {m \in 0 .. l + 1 : ~(\E f : IsUnescape(f, s, (l + 2) - m))}
<1>1. l \in Nat
  BY LenProperties
<1>2. Bad = {}
  <2> SUFFICES ASSUME Bad # {} PROVE FALSE
    OBVIOUS
  <2>1. Bad \in SUBSET Nat
    OBVIOUS
  <2>2. PICK m \in Bad : \A k \in Bad : m <= k
    <3> HIDE DEF Bad
    <3> QED BY <2>1, LeastNat
  <2> HIDE DEF l
  <2>3. m # 0
    <3> SUFFICES \E f : IsUnescape(f, s, (l + 2) - 0)
      BY <2>2
    <3> DEFINE f == [i \in l + 2 .. l + 2 |-> <<>>]
    <3>1. DOMAIN f = l + 2 .. l + 2 /\ f[l + 2] = <<>> /\ (l + 2) - 0 = l + 2 /\ l + 2 > l
      BY <1>1
    <3>2. \A i \in l + 2 .. l + 2 : i = l + 2
      BY <1>1
    <3> HIDE DEF f
    <3>3. IsUnescape(f, s, l + 2)
      BY <3>1, <3>2 DEF IsUnescape, unescapedAt, l
    <3> QED BY <3>1, <3>3
  <2> DEFINE a == (l + 2) - m
  <2>4. m \in 1 .. l + 1 /\ m - 1 \in 0 .. l + 1 /\ ~(m <= m - 1) /\ (l + 2) - (m - 1) = a + 1
        /\ a \in 1 .. l + 1
    BY <1>1, <2>2, <2>3
  <2>5. PICK g : IsUnescape(g, s, a + 1)
    <3>1. m - 1 \notin Bad
      <4> HIDE DEF Bad
      <4> QED BY <2>2, <2>4
    <3> QED BY <2>4, <3>1
  <2> HIDE DEF a
  <2> DEFINE f == [i \in a .. l + 2 |-> IF i = a THEN unescapedAt(g, s, a) ELSE g[i]]
  <2>6. DOMAIN f = a .. l + 2 /\ f[a] = unescapedAt(g, s, a)
        /\ \A i \in a + 1 .. l + 2 : f[i] = g[i]
    BY <1>1, <2>4
  <2> HIDE DEF f
  <2>7. ASSUME NEW i \in a .. l + 2 PROVE unescapedAt(f, s, i) = unescapedAt(g, s, i)
    <3>1. CASE i > l
      BY <3>1 DEF unescapedAt, l
    <3>2. CASE ~(i > l)
      <4>1. i + 1 \in a + 1 .. l + 2 /\ i + 2 \in a + 1 .. l + 2
        BY <1>1, <2>4, <3>2
      <4>2. f[i + 1] = g[i + 1] /\ f[i + 2] = g[i + 2]
        BY <2>6, <4>1
      <4> QED BY <4>2 DEF unescapedAt
    <3> QED BY <3>1, <3>2
  <2>8. ASSUME NEW i \in a .. l + 2 PROVE f[i] = unescapedAt(f, s, i)
    <3>1. CASE i = a
      BY <2>6, <2>7, <3>1
    <3>2. CASE i # a
      <4>1. i \in a + 1 .. l + 2
        BY <1>1, <2>4, <3>2
      <4>2. g[i] = unescapedAt(g, s, i)
        BY <2>5, <4>1 DEF IsUnescape, l
      <4> QED BY <2>6, <2>7, <4>1, <4>2
    <3> QED BY <3>1, <3>2
  <2>9. IsUnescape(f, s, a)
    BY <2>6, <2>8 DEF IsUnescape, l
  <2> QED BY <2>2, <2>9 DEF a
<1>3. l + 1 \in 0 .. l + 1 /\ (l + 2) - (l + 1) = 1
  BY <1>1
<1> HIDE DEF l
<1> QED BY <1>2, <1>3

LEMMA UnescapeIs ==
    ASSUME NEW s \in Seq(Int)
    PROVE  \E f : IsUnescape(f, s, 1) /\ unescapeString(s) = f[1]
<1> DEFINE IsFcn(h) ==
               h = [i \in 1 .. Len(s) + 2 |->
                       IF i > Len(s) THEN <<>>
                       ELSE IF s[i] = 1 THEN <<s[i + 1] - 1>> \o h[i + 2] ELSE <<s[i]>> \o h[i + 1]]
           from == CHOOSE h : IsFcn(h)
<1>1. PICK f : IsUnescape(f, s, 1)
  BY UnescapeExists
<1> DEFINE g == [i \in 1 .. Len(s) + 2 |-> f[i]]
<1>2. Len(s) \in Nat
  BY LenProperties
<1>3. ASSUME NEW i \in 1 .. Len(s) + 2 PROVE g[i] = unescapedAt(g, s, i)
  <2>1. f[i] = unescapedAt(f, s, i) /\ g[i] = f[i]
    BY <1>1 DEF IsUnescape
  <2>2. unescapedAt(f, s, i) = unescapedAt(g, s, i)
    <3>1. CASE i > Len(s)
      BY <3>1 DEF unescapedAt
    <3>2. CASE ~(i > Len(s))
      <4>1. i + 1 \in 1 .. Len(s) + 2 /\ i + 2 \in 1 .. Len(s) + 2
        BY <1>2, <3>2
      <4>2. f[i + 1] = g[i + 1] /\ f[i + 2] = g[i + 2]
        BY <4>1
      <4> HIDE DEF g
      <4> QED BY <4>2 DEF unescapedAt
    <3> QED BY <3>1, <3>2
  <2> HIDE DEF g
  <2> QED BY <2>1, <2>2
<1>4. g = [i \in 1 .. Len(s) + 2 |-> g[i]]
  OBVIOUS
<1>5. IsFcn(g)
  <2> HIDE DEF g
  <2> QED BY <1>3, <1>4 DEF unescapedAt
<1>6. IsFcn(from)
  <2> HIDE DEF IsFcn, g
  <2> QED BY <1>5
<1> HIDE DEF from
<1>7. IsUnescape(from, s, 1)
  BY <1>6 DEF IsUnescape, unescapedAt
<1>8. unescapeString(s) = from[1]
  BY DEF unescapeString, from
<1> QED BY <1>7, <1>8

\* s without its first j elements.
Dropped(s, j) == SubSeq(s, j + 1, Len(s))

LEMMA DroppedStep ==
    ASSUME NEW S, NEW s \in Seq(S), NEW j \in Nat, j < Len(s)
    PROVE  Dropped(s, j) = <<s[j + 1]>> \o Dropped(s, j + 1)
<1> DEFINE m == j + 1
           n == Len(s)
<1>1. m \in 1 .. Len(s) /\ n \in m .. Len(s)
  BY LenProperties
<1>2. SubSeq(s, m, n) = <<s[m]>> \o SubSeq(s, m + 1, n)
  BY <1>1, SubSeqRecursiveFirst
<1> QED BY <1>2 DEF Dropped

LEMMA DroppedEnds ==
    ASSUME NEW S, NEW s \in Seq(S)
    PROVE  Dropped(s, 0) = s /\ Dropped(s, Len(s)) = <<>>
<1>1. Len(s) \in Nat /\ 0 + 1 = 1
  BY LenProperties
<1>2. SubSeq(s, 1, Len(s)) = s
  BY SubSeqFull
<1>3. SubSeq(s, Len(s) + 1, Len(s)) = <<>>
  <2> DEFINE m == Len(s) + 1
             n == Len(s)
  <2>1. m \in Int /\ n \in Int /\ n < m
    BY <1>1
  <2> HIDE DEF m, n
  <2>2. SubSeq(s, m, n) = <<>>
    BY <2>1, SubSeqEmpty
  <2> QED BY <2>2 DEF m, n
<1> QED BY <1>1, <1>2, <1>3 DEF Dropped

LEMMA StringDecoded ==
    ASSUME NEW s \in Seq(Byte)
    PROVE  unescapeString(escapeString(s)) = s
<1> DEFINE e == escapeString(s)
           c == pieces(s)
           n == Len(s)
<1>1. /\ c \in Seq(Seq(Int)) /\ Len(c) = n /\ n \in Nat
      /\ \A i \in 1 .. n : c[i] = escaped(s[i]) /\ s[i] \in Byte
  BY PiecesTyped
<1>2. e \in Seq(Int) /\ e = FlattenSeq(c) /\ Len(e) \in Nat
  BY EscapeTyped, LenProperties
<1> HIDE DEF e, c
<1>3. PICK f : Partial(c, f, Len(c))
  <2>1. Len(c) \in Nat /\ Len(c) <= Len(c)
    BY <1>1
  <2> QED BY <1>1, <2>1, PartialExists
<1>4. e = f[n] /\ \A i \in 0 .. n : f[i] \in Seq(Int)
  <2>1. Len(c) \in Nat /\ Len(c) <= Len(c)
    BY <1>1
  <2> QED BY <1>1, <1>2, <1>3, <2>1, FlattenIs, PartialTyped
<1>5. PICK g : IsUnescape(g, e, 1) /\ unescapeString(e) = g[1]
  BY <1>2, UnescapeIs
<1> DEFINE at(j) == Len(f[j]) + 1
           Bad == {d \in 0 .. n : g[at(n - d)] # Dropped(s, n - d)}
<1>6. Bad = {}
  <2> SUFFICES ASSUME Bad # {} PROVE FALSE
    OBVIOUS
  <2>1. Bad \in SUBSET Nat
    OBVIOUS
  <2>2. PICK d \in Bad : \A k \in Bad : d <= k
    <3> HIDE DEF Bad
    <3> QED BY <2>1, LeastNat
  <2> DEFINE j == n - d
  <2>3. d \in 0 .. n /\ g[at(j)] # Dropped(s, j) /\ j \in 0 .. n
    BY <1>1, <2>2
  <2>4. d # 0
    <3> SUFFICES ASSUME d = 0 PROVE FALSE
      OBVIOUS
    <3>1. j = n
      BY <1>1
    <3>2. at(j) = Len(e) + 1 /\ Len(e) + 1 \in 1 .. Len(e) + 2 /\ Len(e) + 1 > Len(e)
      BY <1>2, <1>4, <3>1
    <3>3. g[Len(e) + 1] = <<>>
      BY <1>5, <3>2 DEF IsUnescape, unescapedAt
    <3>4. Dropped(s, n) = <<>>
      BY DroppedEnds
    <3> QED BY <2>3, <3>1, <3>2, <3>3, <3>4
  <2>5. j + 1 \in 1 .. n /\ j + 1 \in 0 .. n /\ j \in Nat /\ j < n /\ (j + 1) - 1 = j
    BY <1>1, <2>3, <2>4
  <2>6. g[at(j + 1)] = Dropped(s, j + 1)
    <3>1. d - 1 \in 0 .. n /\ n - (d - 1) = j + 1 /\ ~(d <= d - 1)
      BY <1>1, <2>3, <2>4
    <3>2. d - 1 \notin Bad
      <4> HIDE DEF Bad
      <4> QED BY <2>2, <3>1
    <3> HIDE DEF j
    <3> QED BY <3>1, <3>2
  <2> HIDE DEF j
  <2> DEFINE b == s[j + 1]
             x == f[j]
             y == escaped(b)
             q == Len(x)
  <2>7. f[j + 1] = x \o y /\ b \in Byte
    BY <1>1, <1>3, <2>5 DEF Partial
  <2>8. x \in Seq(Int) /\ f[j + 1] \in Seq(Int) /\ y \in Seq(Int) /\ q \in Nat /\ Len(y) \in Nat
    BY <1>4, <2>3, <2>5, <2>7, EscapedTyped, LenProperties
  <2>9. PICK u \in Seq(Int) : e = f[j + 1] \o u
    <3> DEFINE i == j + 1
    <3>1. i \in 0 .. Len(c) /\ e = f[Len(c)]
      BY <1>1, <1>4, <2>5
    <3> HIDE DEF i
    <3>2. \E v \in Seq(Int) : f[Len(c)] = f[i] \o v
      BY <1>1, <1>3, <3>1, PartialExtends
    <3> QED BY <3>1, <3>2 DEF i
  <2>10. Dropped(s, j) = <<b>> \o Dropped(s, j + 1)
    BY <2>5, DroppedStep
  <2> HIDE DEF x, y, b
  <2>11. at(j) = q + 1 /\ at(j + 1) = q + Len(y) + 1
    BY <2>7, <2>8, ConcatProperties DEF x
  <2>12. Len(e) = q + Len(y) + Len(u) /\ Len(u) \in Nat
         /\ \A i \in 1 .. Len(y) : e[q + i] = y[i]
    <3>1. Len(x \o y) = q + Len(y) /\ x \o y \in Seq(Int)
      BY <2>8, ConcatProperties
    <3>2. Len(e) = (q + Len(y)) + Len(u) /\ Len(u) \in Nat
      BY <2>7, <2>9, <3>1, ConcatProperties, LenProperties
    <3>3. ASSUME NEW i \in 1 .. Len(y) PROVE e[q + i] = y[i]
      <4>1. q + i \in 1 .. q + Len(y) /\ ~(q + i <= q) /\ (q + i) - q = i
        BY <2>8
      <4>2. (x \o y)[q + i] = y[i]
        BY <2>8, <4>1, ConcatProperties
      <4> DEFINE z == x \o y
      <4>3. z \in Seq(Int) /\ Len(z) = q + Len(y) /\ e = z \o u
        BY <2>7, <2>9, <3>1
      <4> HIDE DEF z
      <4>4. q + i \in 1 .. Len(z) + Len(u) /\ q + i <= Len(z)
        BY <2>8, <3>2, <4>1, <4>3
      <4>5. e[q + i] = z[q + i]
        BY <2>9, <4>3, <4>4, ConcatProperties
      <4> QED BY <4>2, <4>5 DEF z
    <3> QED BY <2>8, <3>2, <3>3
  <2>13. g[q + 1] = unescapedAt(g, e, q + 1)
    <3>1. q + 1 \in 1 .. Len(e) + 2
      BY <2>8, <2>12
    <3> QED BY <1>5, <3>1 DEF IsUnescape
  <2>14. g[q + 1] = <<b>> \o g[q + Len(y) + 1]
    <3>1. CASE b <= 1
      <4>1. y = <<1, b + 1>> /\ Len(y) = 2 /\ y[1] = 1 /\ y[2] = b + 1 /\ 1 \in 1 .. Len(y) /\ 2 \in 1 .. Len(y)
        BY <3>1 DEF y, escaped
      <4>2. e[q + 1] = 1 /\ e[q + 2] = b + 1
        BY <2>12, <4>1
      <4>3. ~(q + 1 > Len(e)) /\ (q + 1) + 1 = q + 2 /\ (q + 1) + 2 = q + 3 /\ q + Len(y) + 1 = q + 3
            /\ (b + 1) - 1 = b
        BY <2>7, <2>8, <2>12, <4>1 DEF Byte
      <4> QED BY <2>13, <4>2, <4>3 DEF unescapedAt
    <3>2. CASE ~(b <= 1)
      <4>1. y = <<b>> /\ Len(y) = 1 /\ y[1] = b /\ 1 \in 1 .. Len(y)
        BY <3>2 DEF y, escaped
      <4>2. e[q + 1] = b /\ b # 1
        BY <2>7, <2>12, <3>2, <4>1 DEF Byte
      <4>3. ~(q + 1 > Len(e)) /\ (q + 1) + 1 = q + 2 /\ q + Len(y) + 1 = q + 2
        BY <2>8, <2>12, <4>1
      <4> QED BY <2>13, <4>2, <4>3 DEF unescapedAt
    <3> QED BY <3>1, <3>2
  <2> QED BY <2>3, <2>6, <2>10, <2>11, <2>14
<1>7. n \in 0 .. n /\ n - n = 0
  BY <1>1
<1>8. at(0) = 1
  BY <1>3 DEF Partial
<1>9. g[at(0)] = Dropped(s, 0)
  <2> HIDE DEF at
  <2> QED BY <1>6, <1>7
<1> QED BY <1>5, <1>8, <1>9, DroppedEnds DEF e

LEMMA SplitConcat ==
    ASSUME NEW x \in Seq(Int), NEW u \in Seq(Int)
    PROVE  /\ SubSeq(x \o u, 1, Len(x)) = x
           /\ SubSeq(x \o u, Len(x) + 1, Len(x \o u)) = u
<1> DEFINE z == x \o u
           l == Len(x)
           k == Len(u)
           a == SubSeq(z, 1, l)
           b == SubSeq(z, l + 1, l + k)
<1>1. /\ l \in Nat /\ k \in Nat /\ z \in Seq(Int) /\ Len(z) = l + k
      /\ \A i \in 1 .. l + k : z[i] = IF i <= l THEN x[i] ELSE u[i - l]
  BY LenProperties, ConcatProperties
<1>2. \A i \in 1 .. l + k : z[i] \in Int
  BY <1>1, ElementOfSeq
<1> HIDE DEF z, l, k
<1>3. a = x
  <2>1. 1 \in Int /\ l \in Int /\ \A i \in 1 .. l : z[i] \in Int
    BY <1>1, <1>2
  <2>2. /\ a \in Seq(Int) /\ Len(a) = (IF 1 <= l THEN l - 1 + 1 ELSE 0)
        /\ \A i \in 1 .. l - 1 + 1 : a[i] = z[1 + i - 1]
    BY <2>1, SubSeqProperties
  <2> HIDE DEF a
  <2>3. Len(a) = l
    BY <1>1, <2>2
  <2>4. ASSUME NEW i \in 1 .. l PROVE a[i] = x[i]
    <3>1. i \in 1 .. l - 1 + 1 /\ 1 + i - 1 = i /\ i \in 1 .. l + k /\ i <= l
      BY <1>1
    <3> QED BY <1>1, <2>2, <3>1
  <2> QED BY <2>2, <2>3, <2>4, SeqEqual DEF l
<1>4. b = u
  <2>1. l + 1 \in Int /\ l + k \in Int /\ \A i \in l + 1 .. l + k : z[i] \in Int
    BY <1>1, <1>2
  <2> DEFINE m == l + 1
             n == l + k
  <2>2. m = l + 1 /\ n = l + k /\ b = SubSeq(z, m, n)
    OBVIOUS
  <2> HIDE DEF m, n
  <2>3. /\ SubSeq(z, m, n) \in Seq(Int) /\ Len(SubSeq(z, m, n)) = (IF m <= n THEN n - m + 1 ELSE 0)
        /\ \A i \in 1 .. n - m + 1 : SubSeq(z, m, n)[i] = z[m + i - 1]
    BY <2>1, <2>2, SubSeqProperties
  <2> HIDE DEF b
  <2>4. b \in Seq(Int) /\ Len(b) = k
    BY <1>1, <2>2, <2>3
  <2>5. ASSUME NEW i \in 1 .. k PROVE b[i] = u[i]
    <3>1. i \in 1 .. n - m + 1 /\ m + i - 1 = l + i /\ l + i \in 1 .. l + k /\ ~(l + i <= l)
          /\ (l + i) - l = i
      BY <1>1, <2>2
    <3>2. b[i] = z[l + i]
      BY <2>2, <2>3, <3>1
    <3>3. z[l + i] = u[(l + i) - l]
      BY <1>1, <3>1
    <3> QED BY <3>1, <3>2, <3>3
  <2> QED BY <2>4, <2>5, SeqEqual DEF k
<1> QED BY <1>1, <1>3, <1>4 DEF z, l, a, b

LEMMA ConcatAt ==
    ASSUME NEW x \in Seq(Int), NEW y \in Seq(Int), NEW n, n = Len(x)
    PROVE  /\ x \o y \in Seq(Int) /\ Len(x \o y) = n + Len(y) /\ n \in Nat /\ Len(y) \in Nat
           /\ \A i \in 1 .. n : (x \o y)[i] = x[i]
           /\ \A i \in 1 .. Len(y) : (x \o y)[n + i] = y[i]
<1> DEFINE z == x \o y
<1>1. /\ Len(x) \in Nat /\ Len(y) \in Nat /\ z \in Seq(Int) /\ Len(z) = Len(x) + Len(y)
      /\ \A i \in 1 .. Len(x) + Len(y) : z[i] = IF i <= Len(x) THEN x[i] ELSE y[i - Len(x)]
  BY LenProperties, ConcatProperties
<1> HIDE DEF z
<1>2. ASSUME NEW i \in 1 .. Len(x) PROVE z[i] = x[i]
  <2>1. i \in 1 .. Len(x) + Len(y) /\ i <= Len(x)
    BY <1>1
  <2> QED BY <1>1, <2>1
<1>3. ASSUME NEW i \in 1 .. Len(y) PROVE z[Len(x) + i] = y[i]
  <2>1. Len(x) + i \in 1 .. Len(x) + Len(y) /\ ~(Len(x) + i <= Len(x)) /\ (Len(x) + i) - Len(x) = i
    BY <1>1
  <2> QED BY <1>1, <2>1
<1> QED BY <1>1, <1>2, <1>3 DEF z

LEMMA ConsProperties ==
    ASSUME NEW t \in Int, NEW y \in Seq(Int)
    PROVE  /\ <<t>> \o y \in Seq(Int) /\ <<t>> \o y # <<>>
           /\ Head(<<t>> \o y) = t /\ Tail(<<t>> \o y) = y
<1> DEFINE h == <<t>>
           z == h \o y
<1>1. h \in Seq(Int) /\ Len(h) = 1 /\ h[1] = t
  OBVIOUS
<1> HIDE DEF h
<1>2. /\ z \in Seq(Int) /\ Len(z) = 1 + Len(y) /\ Len(y) \in Nat
      /\ z[1] = t /\ \A i \in 1 .. Len(y) : z[1 + i] = y[i]
  <2> DEFINE n == 1
  <2>1. 1 \in 1 .. n /\ n = 1
    BY <1>1
  <2>0. n = Len(h) /\ h \in Seq(Int)
    BY <1>1
  <2> HIDE DEF n
  <2>2. /\ z \in Seq(Int) /\ Len(z) = n + Len(y) /\ Len(y) \in Nat
        /\ \A i \in 1 .. n : z[i] = h[i]
        /\ \A i \in 1 .. Len(y) : z[n + i] = y[i]
    BY <2>0, ConcatAt
  <2> HIDE DEF z
  <2>3. z[1] = t
    BY <1>1, <2>1, <2>2
  <2> QED BY <2>1, <2>2, <2>3
<1> HIDE DEF z
<1>3. z # <<>>
  <2>1. Len(<<>>) = 0
    OBVIOUS
  <2>2. Len(z) # 0
    BY <1>2
  <2> QED BY <2>1, <2>2
<1>4. Head(z) = z[1]
  BY <1>2, <1>3
<1>6. Head(z) = t
  BY <1>2, <1>4
<1>7. /\ Tail(z) \in Seq(Int) /\ Len(Tail(z)) = Len(z) - 1
      /\ \A i \in 1 .. Len(Tail(z)) : Tail(z)[i] = z[i + 1]
  BY <1>2, <1>3, HeadTailProperties
<1>8. Len(Tail(z)) = Len(y)
  BY <1>2, <1>7
<1>9. ASSUME NEW i \in 1 .. Len(Tail(z)) PROVE Tail(z)[i] = y[i]
  <2>1. i \in 1 .. Len(y) /\ i + 1 = 1 + i
    BY <1>2, <1>8
  <2> QED BY <1>2, <1>7, <2>1
<1>10. Tail(z) = y
  BY <1>7, <1>8, <1>9, SeqEqual
<1> QED BY <1>2, <1>3, <1>6, <1>10 DEF z, h

LEMMA FirstZero ==
    ASSUME NEW e \in Seq(1 .. 255), NEW u \in Seq(Int)
    PROVE  SelectInSeq(Append(e, 0) \o u, LAMBDA b : b = 0) = Len(e) + 1
<1> DEFINE x == Append(e, 0)
           z == x \o u
           n == Len(e) + 1
           I == {i \in 1 .. Len(z) : z[i] = 0}
<1>1. e \in Seq(Int) /\ Len(e) \in Nat /\ \A i \in 1 .. Len(e) : e[i] \in 1 .. 255
  <2>1. 1 .. 255 \subseteq Int
    OBVIOUS
  <2>2. e \in Seq(Int)
    BY <2>1, SeqMonotonic, ZenonT(60)
  <2>3. Len(e) \in Nat
    BY LenProperties
  <2>4. \A i \in 1 .. Len(e) : e[i] \in 1 .. 255
    BY ElementOfSeq, ZenonT(60)
  <2> QED BY <2>2, <2>3, <2>4, Zenon
<1>2. /\ x \in Seq(Int) /\ Len(x) = n /\ x[n] = 0
      /\ \A i \in 1 .. Len(e) : x[i] = e[i]
  <2>1. 0 \in Int
    OBVIOUS
  <2> QED BY <1>1, <2>1, AppendProperties
<1> HIDE DEF x
<1>3. /\ Len(z) = n + Len(u) /\ Len(u) \in Nat /\ n \in Nat
      /\ \A i \in 1 .. n : z[i] = x[i]
  <2> HIDE DEF n
  <2> QED BY <1>2, ConcatAt
<1>4. n \in I
  <2> HIDE DEF z
  <2>1. n \in 1 .. n + Len(u) /\ n \in 1 .. n
    BY <1>1, <1>3
  <2> HIDE DEF n
  <2> QED BY <1>2, <1>3, <2>1
<1>5. ASSUME NEW i \in I PROVE n <= i
  <2> HIDE DEF z
  <2> SUFFICES ASSUME ~(n <= i) PROVE FALSE
    OBVIOUS
  <2>1. i \in 1 .. Len(e) /\ i \in 1 .. n
    BY <1>1, <1>3
  <2>2. z[i] = x[i] /\ x[i] = e[i] /\ e[i] \in 1 .. 255
    <3> HIDE DEF n
    <3> QED BY <1>1, <1>2, <1>3, <2>1
  <2>3. z[i] = 0 /\ \A k \in 1 .. 255 : k # 0
    OBVIOUS
  <2> QED BY <2>2, <2>3, Zenon
<1>6. I \in SUBSET Nat
  BY <1>3
<1>7. SelectInSeq(z, LAMBDA b : b = 0) = IF I # {} THEN Min(I) ELSE 0
  BY DEF SelectInSeq
<1> HIDE DEF I, z
<1>8. Min(I) = n
  <2>1. Min(I) \in I /\ \A m \in I : Min(I) <= m
    BY <1>4, <1>6, MinFacts
  <2>2. Min(I) <= n /\ n <= Min(I) /\ Min(I) \in Nat
    BY <1>4, <1>5, <1>6, <2>1
  <2> QED BY <1>3, <2>2
<1> QED BY <1>4, <1>7, <1>8 DEF z, x

\* A step of decoding: the columns read so far and the bytes left.
Read(vals, rest) == [ok |-> TRUE, vals |-> vals, rest |-> rest]

LEMMA ReadFields ==
    ASSUME NEW vals, NEW rest
    PROVE  Read(vals, rest).ok /\ Read(vals, rest).vals = vals /\ Read(vals, rest).rest = rest
BY Zenon DEF Read

\* The bytes that decodeValue takes for a column of type t.
Taken(t, s) == IF t = TYPE_INT64 THEN IntBytes ELSE SelectInSeq(s, LAMBDA b : b = 0)

\* decodeValue, where it goes well.
LEMMA DecodeStep ==
    ASSUME NEW vals, NEW t \in Int, NEW x \in Seq(Int), NEW u \in Seq(Int), Len(x) > 0,
           Len(x) = Taken(t, x \o u)
    PROVE  decodeValue(Read(vals, <<t>> \o (x \o u)), t) =
               Read(Append(vals, IF t = TYPE_INT64 THEN IntVal(decodeInt(x))
                                 ELSE StrVal(unescapeString(SubSeq(x, 1, Len(x) - 1)))),
                    u)
<1> DEFINE body == x \o u
           in == <<t>> \o body
           d == Read(vals, in)
           value(s) == IF t = TYPE_INT64 THEN IntVal(decodeInt(s))
                       ELSE StrVal(unescapeString(SubSeq(s, 1, Len(s) - 1)))
<1>1. body \in Seq(Int) /\ Len(body) = Len(x) + Len(u) /\ Len(x) \in Nat /\ Len(u) \in Nat
  BY LenProperties, ConcatProperties
<1>2. in # <<>> /\ Head(in) = t /\ Tail(in) = body
  <2> HIDE DEF body
  <2> QED BY <1>1, ConsProperties
<1>3. SubSeq(body, 1, Len(x)) = x /\ SubSeq(body, Len(x) + 1, Len(body)) = u
  BY SplitConcat
<1>4. d.ok /\ d.vals = vals /\ d.rest = in
  <2> HIDE DEF in
  <2>1. d.ok
    BY Zenon DEF Read
  <2>2. d.vals = vals
    BY DEF Read
  <2>3. d.rest = in
    BY DEF Read
  <2> QED BY <2>1, <2>2, <2>3, Zenon
<1>6. decodeValue(d, t) =
          IF ~d.ok \/ d.rest = <<>> THEN [d EXCEPT !.ok = FALSE]
          ELSE IF Head(d.rest) # t \/ Len(Tail(d.rest)) < Len(x) \/ Len(x) = 0
               THEN [d EXCEPT !.ok = FALSE]
               ELSE Read(Append(d.vals, value(SubSeq(Tail(d.rest), 1, Len(x)))),
                         SubSeq(Tail(d.rest), Len(x) + 1, Len(Tail(d.rest))))
  <2>1. Taken(t, Tail(d.rest)) = Len(x)
    <3> HIDE DEF d, in
    <3> QED BY <1>2, <1>4
  <2>2. (IF t = TYPE_INT64 THEN IntBytes ELSE SelectInSeq(Tail(d.rest), LAMBDA b : b = 0)) = Len(x)
    BY <2>1 DEF Taken
  <2> HIDE DEF d
  <2> QED BY <2>2 DEF decodeValue, Then, Read
<1> HIDE DEF d, in, body, value
<1>7. ~(Len(body) < Len(x)) /\ Len(x) # 0
  BY <1>1
<1>8. decodeValue(d, t) = Read(Append(vals, value(x)), u)
  BY <1>2, <1>3, <1>4, <1>6, <1>7
<1> QED BY <1>8 DEF d, in, body, value

LEMMA ValueDecoded ==
    ASSUME NEW vals, NEW v \in Values, NEW u \in Seq(Int)
    PROVE  decodeValue(Read(vals, encodeValue(v) \o u), v.Type) = Read(Append(vals, v), u)
<1>0. TYPE_BYTES # TYPE_INT64 /\ TYPE_BYTES = 1 /\ TYPE_INT64 = 2
  BY DEF TYPE_BYTES, TYPE_INT64
<1>1. ASSUME NEW t \in Int, NEW x \in Seq(Int) PROVE (<<t>> \o x) \o u = <<t>> \o (x \o u)
  <2> DEFINE h == <<t>>
  <2>1. h \in Seq(Int)
    OBVIOUS
  <2> HIDE DEF h
  <2>2. (h \o x) \o u = h \o (x \o u)
    BY <2>1, Associative
  <2> QED BY <2>2 DEF h
<1>2. CASE v.Type = TYPE_BYTES
  <2> DEFINE s == v.Str
             e == escapeString(s)
             x == encodedString(s)
  <2>1. s \in Seq(Byte) /\ v = StrVal(s) /\ encodeValue(v) = <<1>> \o x /\ x \in Seq(Int)
    BY <1>0, <1>2, ValueIs
  <2>2. e \in Seq(1 .. 255) /\ e \in Seq(Int)
    <3> HIDE DEF s
    <3> QED BY <2>1, EscapeTyped
  <2>3. x = Append(e, 0) /\ Len(x) = Len(e) + 1 /\ Len(e) \in Nat
    <3> HIDE DEF e
    <3>1. 0 \in Int
      OBVIOUS
    <3> QED BY <2>2, <3>1, AppendProperties, LenProperties DEF encodedString, e
  <2>4. SelectInSeq(x \o u, LAMBDA b : b = 0) = Len(x)
    <3> HIDE DEF e
    <3>1. SelectInSeq(Append(e, 0) \o u, LAMBDA b : b = 0) = Len(e) + 1
      BY <2>2, FirstZero
    <3> HIDE DEF x
    <3> QED BY <2>3, <3>1
  <2>5. SubSeq(x, 1, Len(x) - 1) = e
    <3>1. Append(e, 0) = e \o <<0>> /\ <<0>> \in Seq(Int)
      <4>1. 0 \in Int
        OBVIOUS
      <4> HIDE DEF e
      <4> QED BY <2>2, <4>1, AppendIsConcat
    <3>2. SubSeq(e \o <<0>>, 1, Len(e)) = e
      <4> HIDE DEF e
      <4> QED BY <2>2, <3>1, SplitConcat
    <3>3. Len(x) - 1 = Len(e)
      <4> HIDE DEF x, e
      <4> QED BY <2>3
    <3> HIDE DEF x, e
    <3> QED BY <2>3, <3>1, <3>2, <3>3
  <2>6. unescapeString(e) = s
    <3> HIDE DEF s
    <3> QED BY <2>1, StringDecoded
  <2> HIDE DEF x, e, s
  <2> DEFINE t == 1
  <2>7. t \in Int /\ t = TYPE_BYTES /\ t # TYPE_INT64 /\ Len(x) > 0
    BY <1>0, <2>3
  <2>8. encodeValue(v) \o u = <<t>> \o (x \o u)
    BY <1>1, <2>1
  <2> HIDE DEF t
  <2>9. decodeValue(Read(vals, <<t>> \o (x \o u)), t) =
            Read(Append(vals, StrVal(unescapeString(SubSeq(x, 1, Len(x) - 1)))), u)
    BY <2>1, <2>4, <2>7, DecodeStep DEF Taken
  <2> QED BY <1>2, <2>1, <2>5, <2>6, <2>7, <2>8, <2>9
<1>3. CASE v.Type = TYPE_INT64
  <2> DEFINE n == v.I64
             x == encodeInt(n)
  <2>1. n \in Int64 /\ v = IntVal(n) /\ encodeValue(v) = <<2>> \o x /\ x \in Seq(Int)
    BY <1>0, <1>3, ValueIs
  <2>2. Len(x) = IntBytes
    <3> DEFINE w == n + intRange \div 2
    <3>1. w \in Nat /\ w < intRange /\ x = bigEndian(w)
      <4> HIDE DEF n
      <4> QED BY <2>1, FlippedSign
    <3> HIDE DEF w, x
    <3> QED BY <3>1, BigEndianTyped
  <2>3. decodeInt(x) = n
    <3> HIDE DEF n
    <3> QED BY <2>1, IntDecoded
  <2> HIDE DEF x, n
  <2> DEFINE t == 2
  <2>4. t \in Int /\ t = TYPE_INT64 /\ Len(x) > 0
    BY <1>0, <2>2, IntBytesAssumption
  <2>5. encodeValue(v) \o u = <<t>> \o (x \o u)
    BY <1>1, <2>1
  <2> HIDE DEF t
  <2>6. decodeValue(Read(vals, <<t>> \o (x \o u)), t) = Read(Append(vals, IntVal(decodeInt(x))), u)
    BY <2>1, <2>2, <2>4, DecodeStep DEF Taken
  <2> QED BY <1>3, <2>1, <2>3, <2>4, <2>5, <2>6
<1> QED BY <1>2, <1>3, ValueIs

\* f[i] is the result of decodeValues after i columns.
IsDecoding(f, in, types) ==
    /\ f[0] = Read(<<>>, in)
    /\ \A i \in 1 .. Len(types) : f[i] = decodeValue(f[i - 1], types[i])

\* decodeValues is what its recursion says: whatever satisfies it.
LEMMA DecodedIs ==
    ASSUME NEW S, NEW types \in Seq(S), NEW in, NEW f, IsDecoding(f, in, types),
           NEW vals, f[Len(types)] = Read(vals, <<>>)
    PROVE  decodeValues(in, types) = Read(vals, <<>>)
<1> DEFINE n == Len(types)
           start == [ok |-> TRUE, vals |-> <<>>, rest |-> in]
           IsFcn(h) ==
               h = [i \in 0 .. n |-> IF i = 0 THEN start ELSE decodeValue(h[i - 1], types[i])]
           g == [i \in 0 .. n |-> f[i]]
           u == CHOOSE h : IsFcn(h)
<1>1. n \in Nat
  BY LenProperties
<1>2. f[0] = start /\ \A i \in 1 .. n : f[i] = decodeValue(f[i - 1], types[i])
  BY DEF IsDecoding, Read
<1> HIDE DEF start
<1>3. ASSUME NEW i \in 0 .. n PROVE g[i] = IF i = 0 THEN start ELSE decodeValue(g[i - 1], types[i])
  <2>1. CASE i = 0
    BY <1>2, <2>1
  <2>2. CASE i # 0
    <3>1. i \in 1 .. n /\ i - 1 \in 0 .. n
      BY <1>1, <2>2
    <3>2. g[i] = f[i] /\ g[i - 1] = f[i - 1]
      BY <3>1
    <3> HIDE DEF g
    <3> QED BY <1>2, <2>2, <3>1, <3>2
  <2> QED BY <2>1, <2>2
<1>4. IsFcn(g)
  <2>1. g = [i \in 0 .. n |-> g[i]]
    OBVIOUS
  <2> HIDE DEF g
  <2> QED BY <1>3, <2>1
<1>5. IsFcn(u)
  <2> HIDE DEF IsFcn, g
  <2> QED BY <1>4
<1> HIDE DEF u
<1>6. \A i \in 0 .. n : u[i] = g[i]
  <2> DEFINE Bad == {i \in 0 .. n : u[i] # g[i]}
  <2> SUFFICES ASSUME Bad # {} PROVE FALSE
    OBVIOUS
  <2>1. Bad \in SUBSET Nat
    OBVIOUS
  <2>2. PICK j \in Bad : \A k \in Bad : j <= k
    <3> HIDE DEF Bad
    <3> QED BY <2>1, LeastNat
  <2>3. j \in 0 .. n /\ u[j] = IF j = 0 THEN start ELSE decodeValue(u[j - 1], types[j])
    BY <1>5, <2>2
  <2>4. g[j] = IF j = 0 THEN start ELSE decodeValue(g[j - 1], types[j])
    BY <1>3, <2>3
  <2> HIDE DEF g
  <2>5. j # 0
    BY <2>2, <2>3, <2>4
  <2>6. j - 1 \in 0 .. n /\ ~(j <= j - 1)
    BY <1>1, <2>3, <2>5
  <2>7. u[j - 1] = g[j - 1]
    <3>1. j - 1 \notin Bad
      <4> HIDE DEF Bad
      <4> QED BY <2>2, <2>6
    <3> QED BY <2>6, <3>1
  <2> QED BY <2>2, <2>3, <2>4, <2>7
<1>7. u[n] = Read(vals, <<>>)
  <2>1. n \in 0 .. n
    BY <1>1
  <2> QED BY <1>6, <2>1
<1>8. decodeValues(in, types) = Then(u[n], LAMBDA d : [d EXCEPT !.ok = @ /\ d.rest = <<>>])
  BY DEF decodeValues, Then, u, start
<1>9. decodeValues(in, types) = [u[n] EXCEPT !.ok = @ /\ u[n].rest = <<>>]
  BY <1>8 DEF Then
<1>10. [Read(vals, <<>>) EXCEPT !.ok = @ /\ Read(vals, <<>>).rest = <<>>] = Read(vals, <<>>)
  BY Zenon DEF Read
<1> QED BY <1>7, <1>9, <1>10, Zenon

\* The bytes left after i columns start with the encoding of the next one.
LEMMA NextCell ==
    ASSUME NEW ss \in Seq(Seq(Int)), NEW f, Partial(ss, f, Len(ss)), NEW i \in 1 .. Len(ss)
    PROVE  /\ Dropped(f[Len(ss)], Len(f[i])) \in Seq(Int)
           /\ Dropped(f[Len(ss)], Len(f[i - 1])) = ss[i] \o Dropped(f[Len(ss)], Len(f[i]))
<1> DEFINE n == Len(ss)
           a == f[i - 1]
           c == ss[i]
<1>1. n \in Nat /\ i \in 0 .. n /\ i - 1 \in 0 .. n /\ n <= Len(ss)
  BY LenProperties
<1>2. a \in Seq(Int) /\ c \in Seq(Int) /\ f[i] = a \o c /\ f[i] \in Seq(Int)
  <2>1. f[i] \in Seq(Int) /\ f[i - 1] \in Seq(Int)
    <3>1. \A k \in 0 .. n : f[k] \in Seq(Int)
      BY <1>1, PartialTyped
    <3> QED BY <1>1, <3>1
  <2>2. ss[i] \in Seq(Int)
    BY ElementOfSeq
  <2>3. f[i] = f[i - 1] \o ss[i]
    BY DEF Partial
  <2> QED BY <2>1, <2>2, <2>3
<1>3. PICK u \in Seq(Int) : f[n] = f[i] \o u
  BY <1>1, PartialExtends
<1> HIDE DEF a, c, n
<1>4. f[n] = a \o (c \o u) /\ c \o u \in Seq(Int)
  <2>1. a \in Seq(Int) /\ c \in Seq(Int)
    BY <1>2
  <2>2. (a \o c) \o u = a \o (c \o u) /\ c \o u \in Seq(Int)
    BY <2>1, Associative
  <2>3. f[n] = (a \o c) \o u
    BY <1>2, <1>3
  <2> QED BY <2>2, <2>3
<1>5. Dropped(f[n], Len(f[i])) = u
  BY <1>2, <1>3, SplitConcat DEF Dropped
<1>6. Dropped(f[n], Len(a)) = c \o u
  <2> DEFINE w == c \o u
  <2>1. a \in Seq(Int) /\ w \in Seq(Int) /\ f[n] = a \o w
    BY <1>2, <1>4
  <2> HIDE DEF w
  <2>2. Dropped(a \o w, Len(a)) = w
    BY <2>1, SplitConcat DEF Dropped
  <2> QED BY <2>1, <2>2 DEF w
<1> QED BY <1>5, <1>6 DEF a, c, n

\* What is read back from the encoding of columns is those columns.
LEMMA ValuesDecoded ==
    ASSUME NEW a \in Seq(Values)
    PROVE  decodeValues(encodeValues(a), [i \in 1 .. Len(a) |-> a[i].Type]) = Read(a, <<>>)
<1> DEFINE n == Len(a)
           types == [i \in 1 .. n |-> a[i].Type]
           ss == cells(a)
           e == encodeValues(a)
<1>1. /\ ss \in Seq(Seq(Int)) /\ Len(ss) = n /\ n \in Nat
      /\ \A i \in 1 .. n : ss[i] = encodeValue(a[i]) /\ a[i] \in Values
      /\ e = FlattenSeq(ss) /\ e \in Seq(Int)
  BY CellsTyped
<1>2. types \in Seq(Int) /\ Len(types) = n /\ \A i \in 1 .. n : types[i] = a[i].Type
  <2>1. \A i \in 1 .. n : a[i].Type \in Int
    <3>1. \A v \in Values : v.Type \in Int
      BY ValueIs DEF TYPE_BYTES, TYPE_INT64
    <3> HIDE DEF n
    <3> QED BY <1>1, <3>1
  <2> HIDE DEF n
  <2>2. \A i \in 1 .. n : types[i] = a[i].Type
    OBVIOUS
  <2>3. types = [i \in 1 .. n |-> types[i]]
    OBVIOUS
  <2> HIDE DEF types
  <2>4. types \in Seq(Int)
    <3>1. n \in Nat /\ \A i \in 1 .. n : types[i] \in Int
      BY <1>1, <2>1, <2>2
    <3>2. [i \in 1 .. n |-> types[i]] \in Seq(Int)
      BY <3>1, IsASeq
    <3> QED BY <2>3, <3>2
  <2>5. Len(types) = n
    BY <1>1, <2>3, <2>4, LenProperties
  <2> QED BY <2>2, <2>4, <2>5
<1> HIDE DEF ss, e, types
<1>3. PICK f : Partial(ss, f, n)
  <2> HIDE DEF n
  <2>1. n <= Len(ss)
    BY <1>1
  <2> QED BY <1>1, <2>1, PartialExists
<1>4. e = f[n]
  <2> HIDE DEF n
  <2> QED BY <1>1, <1>3, FlattenIs
<1> DEFINE left(i) == Dropped(e, Len(f[i]))
           g == [i \in 0 .. n |-> Read(SubSeq(a, 1, i), left(i))]
<1>5. g[0] = Read(<<>>, e)
  <2>1. g[0] = Read(SubSeq(a, 1, 0), left(0))
    BY <1>1
  <2>2. SubSeq(a, 1, 0) = <<>>
    BY SubSeqEmpty
  <2>3. f[0] = <<>> /\ Len(<<>>) = 0
    BY <1>3 DEF Partial
  <2>4. left(0) = e
    BY <1>1, <2>3, DroppedEnds
  <2> HIDE DEF g, left
  <2> QED BY <2>1, <2>2, <2>4
<1>6. ASSUME NEW i \in 1 .. n PROVE g[i] = decodeValue(g[i - 1], types[i])
  <2>1. i \in 0 .. n /\ i - 1 \in 0 .. n
    BY <1>1
  <2>2. g[i] = Read(SubSeq(a, 1, i), left(i)) /\ g[i - 1] = Read(SubSeq(a, 1, i - 1), left(i - 1))
    <3> HIDE DEF left
    <3> QED BY <2>1
  <2>3. left(i) \in Seq(Int) /\ left(i - 1) = encodeValue(a[i]) \o left(i)
    <3>1. i \in 1 .. Len(ss) /\ Partial(ss, f, Len(ss)) /\ e = f[Len(ss)]
      BY <1>1, <1>3, <1>4
    <3>2. /\ Dropped(f[Len(ss)], Len(f[i])) \in Seq(Int)
          /\ Dropped(f[Len(ss)], Len(f[i - 1])) = ss[i] \o Dropped(f[Len(ss)], Len(f[i]))
      BY <1>1, <3>1, NextCell
    <3> QED BY <1>1, <3>1, <3>2
  <2>4. SubSeq(a, 1, i) = Append(SubSeq(a, 1, i - 1), a[i])
    <3>1. i \in 1 .. Len(a) /\ 1 \in 1 .. Len(a) /\ i \in 1 .. Len(a)
      BY <1>1
    <3>2. SubSeq(a, 1, i) = SubSeq(a, 1, i - 1) \o <<a[i]>>
      BY <3>1, SubSeqRecursiveSecond
    <3>3. SubSeq(a, 1, i - 1) \in Seq(Values)
      <4>1. \A k \in 1 .. i - 1 : a[k] \in Values
        BY <1>1
      <4> QED BY <4>1, SubSeqProperties
    <3>4. Append(SubSeq(a, 1, i - 1), a[i]) = SubSeq(a, 1, i - 1) \o <<a[i]>>
      <4>1. a[i] \in Values
        BY <1>1
      <4> QED BY <3>3, <4>1, AppendIsConcat
    <3> QED BY <3>2, <3>4
  <2> HIDE DEF g, left
  <2>5. decodeValue(Read(SubSeq(a, 1, i - 1), encodeValue(a[i]) \o left(i)), a[i].Type)
            = Read(Append(SubSeq(a, 1, i - 1), a[i]), left(i))
    BY <1>1, <2>3, ValueDecoded
  <2> QED BY <1>2, <2>2, <2>3, <2>4, <2>5
<1>7. g[n] = Read(a, <<>>)
  <2>1. n \in 0 .. n
    BY <1>1
  <2>2. g[n] = Read(SubSeq(a, 1, n), left(n))
    <3> HIDE DEF left
    <3> QED BY <2>1
  <2>3. SubSeq(a, 1, n) = a
    BY SubSeqFull
  <2>4. left(n) = <<>>
    BY <1>1, <1>4, DroppedEnds
  <2> HIDE DEF g, left
  <2> QED BY <2>2, <2>3, <2>4
<1> HIDE DEF g, n
<1>8. decodeValues(e, types) = Read(a, <<>>)
  BY <1>2, <1>5, <1>6, <1>7, DecodedIs DEF IsDecoding
<1> QED BY <1>8 DEF types, e, n

\* table.go encodeKey (lines 221-230) and decodeKey (lines 313-315): what is
\* read back from the key of a row is the row, nothing lost and nothing left
\* over, for every value of every column and any number of columns.
THEOREM KeysDecoded ==
    ASSUME NEW p \in Nat, NEW a \in Seq(Values)
    PROVE  decodeKey(encodeKey(p, a), [i \in 1 .. Len(a) |-> a[i].Type]) = Read(a, <<>>)
<1> DEFINE e == encodeValues(a)
<1>1. e \in Seq(Int)
  BY CellsTyped
<1>2. Tail(encodeKey(p, a)) = e
  <2>1. p \in Int
    OBVIOUS
  <2>2. encodeKey(p, a) = <<p>> \o e
    BY DEF encodeKey
  <2> HIDE DEF e
  <2> QED BY <1>1, <2>1, <2>2, ConsProperties
<1> HIDE DEF e
<1>3. decodeKey(encodeKey(p, a), [i \in 1 .. Len(a) |-> a[i].Type])
          = decodeValues(e, [i \in 1 .. Len(a) |-> a[i].Type])
  BY <1>2 DEF decodeKey
<1> QED BY <1>3, ValuesDecoded DEF e

-----------------------------------------------------------------------------
(* Writes of a transaction.                                                *)

TxOf(snapshot, pending, reads, updateAttempted) ==
    [snapshot |-> snapshot, pending |-> pending, reads |-> reads,
     updateAttempted |-> updateAttempted]

IsTx(tx) == tx = TxOf(tx.snapshot, tx.pending, tx.reads, tx.updateAttempted)

LEMMA TxExcept ==
    ASSUME NEW t, NEW w, NEW x, NEW y, NEW z, NEW v, t = TxOf(w, x, y, z)
    PROVE  /\ t.snapshot = w /\ t.pending = x /\ t.reads = y /\ t.updateAttempted = z
           /\ [t EXCEPT !.pending = v] = TxOf(w, v, y, z)
           /\ [t EXCEPT !.reads = v] = TxOf(w, x, v, z)
           /\ [t EXCEPT !.updateAttempted = v] = TxOf(w, x, y, v)
BY DEF TxOf

\* An update that changes something.
Changes(tx, key, val, new) ==
    /\ IsTx(new) /\ new.snapshot = tx.snapshot
    /\ new.pending = Bind(tx.pending, key, Updated(val))
    /\ new.reads = tx.reads \cup {<<key, key>>} /\ new.updateAttempted

LEMMA UpdateIs ==
    ASSUME NEW tx, IsTx(tx), NEW key, NEW val, Exists(tx, key) => ValueOf(tx, key) # val
    PROVE  Changes(tx, key, val, kvUpdate(tx, key, val, "UPSERT").tx)
<1> DEFINE new == kvUpdate(tx, key, val, "UPSERT").tx
           w == tx.snapshot
           x == tx.pending
           y == tx.reads
           z == tx.updateAttempted
           r == y \cup {<<key, key>>}
           p == Bind(x, key, Updated(val))
           yes == TRUE
           d == Depend(tx, key, key)
           a == Attempt(tx, key)
<1>1. new = Put(a, key, Updated(val))
  BY DEF kvUpdate
<1>2. tx = TxOf(w, x, y, z)
  BY DEF IsTx
<1>3. d = [tx EXCEPT !.reads = r] /\ a = [d EXCEPT !.updateAttempted = yes]
  BY DEF Depend, Attempt
<1>4. new = [a EXCEPT !.pending = Bind(a.pending, key, Updated(val))]
  BY <1>1 DEF Put
<1>5. yes = TRUE
  OBVIOUS
<1> HIDE DEF w, x, y, z, r, yes, d, a, new
<1>6. d = TxOf(w, x, r, z)
  BY <1>2, <1>3, TxExcept
<1>7. a = TxOf(w, x, r, yes)
  <2>1. a = [d EXCEPT !.updateAttempted = yes]
    BY <1>3
  <2> QED BY <1>6, <2>1, TxExcept
<1>8. new = TxOf(w, p, r, yes)
  <2>1. a.pending = x
    BY <1>7, TxExcept
  <2>2. new = [a EXCEPT !.pending = p]
    BY <1>4, <2>1
  <2> HIDE DEF p
  <2> QED BY <1>7, <2>2, TxExcept
<1> HIDE DEF p
<1>9. new.snapshot = w /\ new.pending = p /\ new.reads = r /\ new.updateAttempted = yes
  BY <1>8, TxExcept
<1>10. IsTx(new)
  BY <1>8, <1>9 DEF IsTx
<1> QED BY <1>5, <1>9, <1>10 DEF Changes, new, w, x, y, z, p, r

\* new shows what tx shows, but perhaps for the keys in K.
Keeps(tx, new, K) ==
    /\ IsTx(new)
    /\ \A k : k \notin K => (Exists(new, k) <=> Exists(tx, k)) /\ ValueOf(new, k) = ValueOf(tx, k)

LEMMA AttemptIs ==
    ASSUME NEW tx, IsTx(tx), NEW key
    PROVE  /\ IsTx(Attempt(tx, key)) /\ Attempt(tx, key).snapshot = tx.snapshot
           /\ Attempt(tx, key).pending = tx.pending
<1> DEFINE w == tx.snapshot
           x == tx.pending
           y == tx.reads
           z == tx.updateAttempted
           r == y \cup {<<key, key>>}
           yes == TRUE
           d == Depend(tx, key, key)
           a == Attempt(tx, key)
<1>1. tx = TxOf(w, x, y, z)
  BY DEF IsTx
<1>2. d = [tx EXCEPT !.reads = r] /\ a = [d EXCEPT !.updateAttempted = yes]
  BY DEF Depend, Attempt
<1> HIDE DEF w, x, y, z, r, yes, d, a
<1>3. d = TxOf(w, x, r, z)
  BY <1>1, <1>2, TxExcept
<1>4. a = TxOf(w, x, r, yes)
  <2>1. a = [d EXCEPT !.updateAttempted = yes]
    BY <1>2
  <2> QED BY <1>3, <2>1, TxExcept
<1>5. a.snapshot = w /\ a.pending = x /\ a.reads = r /\ a.updateAttempted = yes
  BY <1>4, TxExcept
<1> QED BY <1>4, <1>5 DEF IsTx, a, w, x

LEMMA PutIs ==
    ASSUME NEW tx, IsTx(tx), NEW key, NEW e
    PROVE  /\ IsTx(Put(tx, key, e)) /\ Put(tx, key, e).snapshot = tx.snapshot
           /\ Put(tx, key, e).pending = Bind(tx.pending, key, e)
<1> DEFINE w == tx.snapshot
           x == tx.pending
           y == tx.reads
           z == tx.updateAttempted
           p == Bind(x, key, e)
           a == Put(tx, key, e)
<1>1. tx = TxOf(w, x, y, z)
  BY DEF IsTx
<1>2. a = [tx EXCEPT !.pending = p]
  BY DEF Put
<1> HIDE DEF w, x, y, z, p, a
<1>3. a = TxOf(w, p, y, z)
  BY <1>1, <1>2, TxExcept
<1>4. a.snapshot = w /\ a.pending = p /\ a.reads = y /\ a.updateAttempted = z
  BY <1>3, TxExcept
<1> QED BY <1>3, <1>4 DEF IsTx, a, w, x, p

\* A transaction that tries shows what it showed before.
LEMMA AttemptShows ==
    ASSUME NEW tx, IsTx(tx), NEW key
    PROVE  Keeps(tx, Attempt(tx, key), {})
BY AttemptIs DEF Keeps, Exists, ValueOf

\* An entry put shows at its key and nowhere else.
LEMMA PutShows ==
    ASSUME NEW tx, IsTx(tx), NEW key, NEW e, NEW new, new = Put(Attempt(tx, key), key, e)
    PROVE  /\ Keeps(tx, new, {key})
           /\ Exists(new, key) <=> ~e.deleted
           /\ ValueOf(new, key) = e.val
<1>1. /\ IsTx(new) /\ new.snapshot = tx.snapshot
      /\ new.pending = Bind(tx.pending, key, e)
  BY AttemptIs, PutIs
<1>2. key \in DOMAIN new.pending /\ new.pending[key] = e
  BY <1>1 DEF Bind
<1>3. ASSUME NEW k, k # key
      PROVE  /\ k \in DOMAIN new.pending <=> k \in DOMAIN tx.pending
             /\ k \in DOMAIN tx.pending => new.pending[k] = tx.pending[k]
  BY <1>1, <1>3 DEF Bind
<1>4. ASSUME NEW k, k # key
      PROVE  (Exists(new, k) <=> Exists(tx, k)) /\ ValueOf(new, k) = ValueOf(tx, k)
  BY <1>1, <1>3, <1>4, Zenon DEF Exists, ValueOf
<1>5. Keeps(tx, new, {key})
  BY <1>1, <1>4 DEF Keeps
<1>6. (Exists(new, key) <=> ~e.deleted) /\ ValueOf(new, key) = e.val
  BY <1>2, Zenon DEF Exists, ValueOf
<1> QED BY <1>5, <1>6

\* kvUpdate that adds a key or changes its value.
CanWrite(tx, key, val, mode) ==
    /\ ~(mode = "INSERT_ONLY" /\ Exists(tx, key))
    /\ ~(mode = "UPDATE_ONLY" /\ ~Exists(tx, key))
    /\ Exists(tx, key) => ValueOf(tx, key) # val

Written(tx, key, val, r) ==
    /\ Keeps(tx, r.tx, {key}) /\ Exists(r.tx, key) /\ ValueOf(r.tx, key) = val
    /\ ~r.err /\ r.updated /\ (r.added <=> ~Exists(tx, key))
    /\ Exists(tx, key) => r.old = ValueOf(tx, key)

LEMMA UpdateShows ==
    ASSUME NEW tx, IsTx(tx), NEW key, NEW val, NEW mode, CanWrite(tx, key, val, mode)
    PROVE  Written(tx, key, val, kvUpdate(tx, key, val, mode))
<1> DEFINE r == kvUpdate(tx, key, val, mode)
           new == Put(Attempt(tx, key), key, Updated(val))
<1>1. r.tx = new
  BY DEF kvUpdate, CanWrite
<1>2. ~r.err /\ r.updated /\ (r.added <=> ~Exists(tx, key))
  BY Zenon DEF kvUpdate, CanWrite
<1>3. Exists(tx, key) => r.old = ValueOf(tx, key)
  BY DEF kvUpdate, CanWrite
<1>4. ~Updated(val).deleted /\ Updated(val).val = val
  BY Zenon DEF Updated
<1>5. Keeps(tx, new, {key}) /\ Exists(new, key) /\ ValueOf(new, key) = val
  BY <1>4, PutShows
<1> HIDE DEF r, new
<1> QED BY <1>1, <1>2, <1>3, <1>5, Zenon DEF r, Written

\* kvUpdate that changes nothing.
Idle(tx, key, mode, r) ==
    /\ Keeps(tx, r.tx, {}) /\ ~r.updated /\ ~r.added
    /\ r.err <=> mode = "INSERT_ONLY" /\ Exists(tx, key)

LEMMA UpdateIdle ==
    ASSUME NEW tx, IsTx(tx), NEW key, NEW val, NEW mode, ~CanWrite(tx, key, val, mode)
    PROVE  Idle(tx, key, mode, kvUpdate(tx, key, val, mode))
<1> DEFINE r == kvUpdate(tx, key, val, mode)
<1>1. r.tx = Attempt(tx, key)
  BY DEF kvUpdate, CanWrite
<1>2. ~r.updated /\ ~r.added /\ (r.err <=> mode = "INSERT_ONLY" /\ Exists(tx, key))
  BY Zenon DEF kvUpdate, CanWrite
<1>3. Keeps(tx, r.tx, {})
  BY <1>1, AttemptShows
<1> HIDE DEF r
<1> QED BY <1>2, <1>3, Zenon DEF r, Idle

Removed(tx, key, r) ==
    /\ Keeps(tx, r.tx, {key}) /\ ~Exists(r.tx, key)
    /\ r.deleted <=> Exists(tx, key)
    /\ Exists(tx, key) => r.old = ValueOf(tx, key)
    /\ ~Exists(tx, key) => Keeps(tx, r.tx, {})

LEMMA DelShows ==
    ASSUME NEW tx, IsTx(tx), NEW key
    PROVE  Removed(tx, key, kvDel(tx, key))
<1> DEFINE r == kvDel(tx, key)
           new == Put(Attempt(tx, key), key, Deleted)
           seen == Attempt(tx, key)
<1>1. r.tx = IF Exists(tx, key) THEN new ELSE seen
  BY DEF kvDel
<1>2. r.deleted <=> Exists(tx, key)
  BY Zenon DEF kvDel
<1>3. Exists(tx, key) => r.old = ValueOf(tx, key)
  BY DEF kvDel
<1>4. Deleted.deleted
  BY Zenon DEF Deleted
<1>5. Keeps(tx, new, {key}) /\ ~Exists(new, key)
  BY <1>4, PutShows
<1>6. Keeps(tx, seen, {})
  BY AttemptShows
<1> HIDE DEF r, new, seen
<1>7. Keeps(tx, seen, {key})
  BY <1>6 DEF Keeps
<1>8. ~Exists(tx, key) => ~Exists(seen, key)
  BY <1>6 DEF Keeps
<1> QED BY <1>1, <1>2, <1>3, <1>5, <1>6, <1>7, <1>8 DEF r, Removed

-----------------------------------------------------------------------------
(* Rows of a table and their entries in its indexes.                       *)

typeOf(tdef, c) == tdef.Types[colIndex(tdef.Cols, c)]

Rows(tdef) ==
    {f \in [Columns(tdef) -> Values] : \A c \in Columns(tdef) : f[c].Type = typeOf(tdef, c)}

\* The values of some columns of a row.
rowVals(f, cols) == [j \in DOMAIN cols |-> f[cols[j]]]

\* The key of a row in index i, and what is stored with its primary key.
entry(tdef, i, f) == encodeKey(tdef.Prefixes[i], rowVals(f, tdef.Indexes[i]))

stored(tdef, f) == encodeValues(rowVals(f, nonPrimaryKeyCols(tdef)))

\* Two rows with the same primary key.
SameKey(tdef, f, g) == \A c \in Range(tdef.Indexes[1]) : f[c] = g[c]

LEMMA RowTyped ==
    ASSUME NEW tdef, NEW f \in Rows(tdef), NEW cols \in Seq(Columns(tdef))
    PROVE  /\ rowVals(f, cols) \in Seq(Values) /\ Len(rowVals(f, cols)) = Len(cols)
           /\ DOMAIN cols = 1 .. Len(cols) /\ Len(cols) \in Nat
           /\ \A j \in 1 .. Len(cols) :
                  /\ cols[j] \in Columns(tdef) /\ rowVals(f, cols)[j] = f[cols[j]]
                  /\ rowVals(f, cols)[j].Type = typeOf(tdef, cols[j])
<1> DEFINE n == Len(cols)
           v == rowVals(f, cols)
           C == Columns(tdef)
<1>1. DOMAIN cols = 1 .. n /\ n \in Nat /\ \A j \in 1 .. n : cols[j] \in C
  BY LenProperties, ElementOfSeq
<1>2. \A c \in C : f[c] \in Values /\ f[c].Type = typeOf(tdef, c)
  BY DEF Rows
<1> HIDE DEF n, C
<1>3. v = [j \in 1 .. n |-> f[cols[j]]]
  BY <1>1 DEF rowVals
<1> HIDE DEF v
<1>4. \A j \in 1 .. n : v[j] = f[cols[j]] /\ v[j] \in Values
  BY <1>1, <1>2, <1>3
<1>5. v = [j \in 1 .. n |-> v[j]]
  BY <1>3
<1>6. v \in Seq(Values)
  BY <1>1, <1>4, <1>5, IsASeq
<1>7. Len(v) = n
  BY <1>1, <1>5, <1>6, LenProperties
<1> QED BY <1>1, <1>2, <1>4, <1>6, <1>7 DEF v, n, C

\* The values of two rows in the same columns: encoded alike, they are equal.
LEMMA ValsEqual ==
    ASSUME NEW tdef, NEW f \in Rows(tdef), NEW g \in Rows(tdef), NEW cols \in Seq(Columns(tdef)),
           NEW p \in Nat
    PROVE  /\ (\A c \in Range(cols) : f[c] = g[c]) => rowVals(f, cols) = rowVals(g, cols)
           /\ encodeKey(p, rowVals(f, cols)) = encodeKey(p, rowVals(g, cols)) =>
                  \A c \in Range(cols) : f[c] = g[c]
<1> DEFINE n == Len(cols)
           a == rowVals(f, cols)
           b == rowVals(g, cols)
<1>1. /\ a \in Seq(Values) /\ Len(a) = n /\ DOMAIN cols = 1 .. n /\ n \in Nat
      /\ \A j \in 1 .. n : a[j] = f[cols[j]] /\ a[j].Type = typeOf(tdef, cols[j])
  BY RowTyped
<1>2. /\ b \in Seq(Values) /\ Len(b) = n
      /\ \A j \in 1 .. n : b[j] = g[cols[j]] /\ b[j].Type = typeOf(tdef, cols[j])
  BY RowTyped
<1>3. Range(cols) = {cols[j] : j \in 1 .. n}
  BY <1>1 DEF Range
<1>4. ASSUME \A c \in Range(cols) : f[c] = g[c] PROVE a = b
  <2>1. \A j \in DOMAIN cols : f[cols[j]] = g[cols[j]]
    BY <1>1, <1>3, <1>4
  <2> QED BY <2>1 DEF rowVals
<1> HIDE DEF a, b, n
<1>5. SameTypes(a, b)
  BY <1>1, <1>2 DEF SameTypes
<1>6. ASSUME encodeKey(p, a) = encodeKey(p, b) PROVE \A c \in Range(cols) : f[c] = g[c]
  <2>1. a = b
    <3>1. Len(a) = Len(b)
      BY <1>1, <1>2
    <3> QED BY <1>1, <1>2, <1>5, <1>6, <3>1, KeysOrdered
  <2> QED BY <1>1, <1>2, <1>3, <2>1
<1> QED BY <1>4, <1>6 DEF a, b

\* An entry is that of one index, and of rows with one primary key.
LEMMA EntryFacts ==
    ASSUME NEW tdef, SchemaOK(tdef), NEW f \in Rows(tdef), NEW g \in Rows(tdef),
           NEW i \in Places(tdef), NEW j \in Places(tdef)
    PROVE  /\ 1 \in Places(tdef)
           /\ entry(tdef, i, f)[1] = tdef.Prefixes[i]
           /\ entry(tdef, i, f) = entry(tdef, j, g) => i = j /\ SameKey(tdef, f, g)
           /\ SameKey(tdef, f, g) => entry(tdef, 1, f) = entry(tdef, 1, g)
<1>1. 1 \in Places(tdef)
  BY DEF SchemaOK, Places
<1>2. \A k \in Places(tdef) : tdef.Indexes[k] \in Seq(Columns(tdef)) /\ tdef.Prefixes[k] \in Nat
                              /\ Range(tdef.Indexes[1]) \subseteq Range(tdef.Indexes[k])
  BY DEF SchemaOK
<1>3. ASSUME NEW k \in Places(tdef), NEW h \in Rows(tdef)
      PROVE  entry(tdef, k, h)[1] = tdef.Prefixes[k]
  <2>1. rowVals(h, tdef.Indexes[k]) \in Seq(Values) /\ tdef.Prefixes[k] \in Nat
    BY <1>2, RowTyped
  <2> QED BY <2>1, KeyTyped DEF entry
<1>4. ASSUME entry(tdef, i, f) = entry(tdef, j, g) PROVE i = j /\ SameKey(tdef, f, g)
  <2>1. i = j
    <3>1. tdef.Prefixes[i] = tdef.Prefixes[j]
      BY <1>3, <1>4
    <3> QED BY <3>1 DEF SchemaOK
  <2> DEFINE cols == tdef.Indexes[i]
             p == tdef.Prefixes[i]
  <2>2. encodeKey(p, rowVals(f, cols)) = encodeKey(p, rowVals(g, cols))
    BY <1>4, <2>1 DEF entry
  <2>3. cols \in Seq(Columns(tdef)) /\ p \in Nat
    BY <1>2
  <2> HIDE DEF cols, p
  <2>4. \A c \in Range(cols) : f[c] = g[c]
    BY <2>2, <2>3, ValsEqual
  <2> QED BY <1>2, <2>1, <2>4 DEF SameKey, cols
<1>5. ASSUME SameKey(tdef, f, g) PROVE entry(tdef, 1, f) = entry(tdef, 1, g)
  <2>1. rowVals(f, tdef.Indexes[1]) = rowVals(g, tdef.Indexes[1])
    <3> DEFINE cols == tdef.Indexes[1]
               p == tdef.Prefixes[1]
    <3>1. cols \in Seq(Columns(tdef)) /\ p \in Nat /\ \A c \in Range(cols) : f[c] = g[c]
      BY <1>1, <1>2, <1>5 DEF SameKey
    <3> HIDE DEF cols, p
    <3>2. rowVals(f, cols) = rowVals(g, cols)
      BY <3>1, ValsEqual
    <3> QED BY <3>2 DEF cols
  <2> QED BY <2>1 DEF entry
<1> QED BY <1>1, <1>3, <1>4, <1>5

\* What is stored with the primary key is the rest of the row.
LEMMA StoredFacts ==
    ASSUME NEW tdef, SchemaOK(tdef), NEW f \in Rows(tdef), NEW g \in Rows(tdef),
           SameKey(tdef, f, g), stored(tdef, f) = stored(tdef, g)
    PROVE  f = g
<1> DEFINE pk == tdef.Indexes[1]
           rest == nonPrimaryKeyCols(tdef)
           C == Columns(tdef)
<1>1. pk \in Seq(C) /\ rest \in Seq(C) /\ C = Range(pk \o rest)
  BY DEF SchemaOK, Places, Columns, rowCols
<1>2. encodeKey(0, rowVals(f, rest)) = encodeKey(0, rowVals(g, rest))
  BY DEF encodeKey, stored
<1> HIDE DEF rest, pk
<1>3. \A c \in Range(rest) : f[c] = g[c]
  <2>1. 0 \in Nat
    OBVIOUS
  <2> QED BY <1>1, <1>2, <2>1, ValsEqual
<1>4. \A c \in Range(pk) : f[c] = g[c]
  BY DEF SameKey, pk
<1>5. C \subseteq Range(pk) \cup Range(rest)
  <2> HIDE DEF C
  <2>1. C = Range(pk) \cup Range(rest)
    BY <1>1, RangeConcatenation
  <2> QED BY <2>1
<1>6. \A c \in C : f[c] = g[c]
  BY <1>3, <1>4, <1>5
<1>7. f = [c \in C |-> f[c]] /\ g = [c \in C |-> g[c]]
  BY DEF Rows
<1> HIDE DEF C
<1> QED BY <1>6, <1>7

-----------------------------------------------------------------------------
(* Rows and indexes agree.                                                 *)

Entries(tdef, T) == {entry(tdef, i, f) : i \in Places(tdef), f \in T}

\* The keys of a table and its indexes.
Ours(tdef, k) == \E i \in Places(tdef) : k[1] = tdef.Prefixes[i]

\* What is to be found at the entries of row f.
Filed(tdef, tx, f) ==
    /\ ValueOf(tx, entry(tdef, 1, f)) = stored(tdef, f)
    /\ \A i \in Places(tdef) : i # 1 => ValueOf(tx, entry(tdef, i, f)) = <<>>

\* The transaction sees the rows S in the table: each of them with its columns and
\* with one entry in every index, and nothing else.
Holds(tdef, tx, S) ==
    /\ S \subseteq Rows(tdef)
    /\ \A k : Ours(tdef, k) => (Exists(tx, k) <=> k \in Entries(tdef, S))
    /\ \A f \in S : Filed(tdef, tx, f)

LEMMA EntriesOurs ==
    ASSUME NEW tdef, SchemaOK(tdef), NEW T \in SUBSET Rows(tdef)
    PROVE  \A k \in Entries(tdef, T) : Ours(tdef, k)
BY EntryFacts DEF Entries, Ours

\* The entries of a row outside of T are not those of T.
LEMMA EntryOutside ==
    ASSUME NEW tdef, SchemaOK(tdef), NEW T \in SUBSET Rows(tdef), NEW f \in Rows(tdef),
           \A g \in T : ~SameKey(tdef, f, g), NEW i \in Places(tdef)
    PROVE  entry(tdef, i, f) \notin Entries(tdef, T)
<1> SUFFICES ASSUME entry(tdef, i, f) \in Entries(tdef, T) PROVE FALSE
  OBVIOUS
<1>1. PICK j \in Places(tdef), g \in T : entry(tdef, i, f) = entry(tdef, j, g)
  BY DEF Entries
<1>2. SameKey(tdef, f, g)
  BY <1>1, EntryFacts
<1> QED BY <1>2

LEMMA KeyUnique ==
    ASSUME NEW tdef, SchemaOK(tdef), NEW tx, NEW S, Holds(tdef, tx, S),
           NEW f \in S, NEW g \in S, SameKey(tdef, f, g)
    PROVE  f = g
<1>1. f \in Rows(tdef) /\ g \in Rows(tdef)
  BY DEF Holds
<1>2. entry(tdef, 1, f) = entry(tdef, 1, g)
  <2>1. 1 \in Places(tdef)
    BY DEF SchemaOK, Places
  <2> QED BY <1>1, <2>1, EntryFacts
<1>3. stored(tdef, f) = stored(tdef, g)
  BY <1>2 DEF Holds, Filed
<1> QED BY <1>1, <1>3, StoredFacts

LEMMA SameKeySymmetric ==
    ASSUME NEW tdef, NEW f, NEW g
    PROVE  SameKey(tdef, f, g) <=> SameKey(tdef, g, f)
BY DEF SameKey

\* The row found under a key: is there one?
LEMMA RowFound ==
    ASSUME NEW tdef, SchemaOK(tdef), NEW tx, NEW S, Holds(tdef, tx, S), NEW f \in Rows(tdef)
    PROVE  /\ Exists(tx, entry(tdef, 1, f)) <=> \E g \in S : SameKey(tdef, f, g)
           /\ \A i \in Places(tdef) :
                  Exists(tx, entry(tdef, i, f)) => \E g \in S : SameKey(tdef, f, g)
<1>1. 1 \in Places(tdef)
  BY DEF SchemaOK, Places
<1>2. S \subseteq Rows(tdef)
  BY DEF Holds
<1>3. ASSUME NEW i \in Places(tdef), Exists(tx, entry(tdef, i, f))
      PROVE  \E g \in S : SameKey(tdef, f, g)
  <2>1. Ours(tdef, entry(tdef, i, f))
    BY EntryFacts DEF Ours
  <2>2. entry(tdef, i, f) \in Entries(tdef, S)
    BY <1>3, <2>1 DEF Holds
  <2> QED BY <1>2, <2>2, EntryOutside
<1>4. ASSUME NEW g \in S, SameKey(tdef, f, g) PROVE Exists(tx, entry(tdef, 1, f))
  <2>1. entry(tdef, 1, f) = entry(tdef, 1, g)
    BY <1>1, <1>2, <1>4, EntryFacts
  <2>2. Ours(tdef, entry(tdef, 1, g))
    BY <1>1, <1>2, EntryFacts DEF Ours
  <2>3. entry(tdef, 1, g) \in Entries(tdef, S)
    BY <1>1 DEF Entries
  <2> QED BY <2>1, <2>2, <2>3 DEF Holds
<1> QED BY <1>1, <1>3, <1>4

\* The entries of the rows O are gone, those of the rows N have come.
Exchanged(tdef, tx, new, O, N) ==
    /\ \A k : Exists(new, k) <=> k \in Entries(tdef, N) \/ (Exists(tx, k) /\ k \notin Entries(tdef, O))
    /\ \A k : k \notin Entries(tdef, N) \cup Entries(tdef, O) => ValueOf(new, k) = ValueOf(tx, k)
    /\ \A f \in N : Filed(tdef, new, f)

LEMMA ExchangeHolds ==
    ASSUME NEW tdef, SchemaOK(tdef), NEW tx, NEW new, NEW S, Holds(tdef, tx, S),
           NEW O \in SUBSET S, NEW N \in SUBSET Rows(tdef), Exchanged(tdef, tx, new, O, N),
           \A f \in S \ O : \A g \in N : ~SameKey(tdef, f, g)
    PROVE  Holds(tdef, new, (S \ O) \cup N)
<1> DEFINE T == (S \ O) \cup N
<1>1. S \subseteq Rows(tdef) /\ T \subseteq Rows(tdef) /\ O \subseteq Rows(tdef)
  BY DEF Holds
<1>2. ASSUME NEW f \in S \ O, NEW i \in Places(tdef)
      PROVE  entry(tdef, i, f) \notin Entries(tdef, O) /\ entry(tdef, i, f) \notin Entries(tdef, N)
  <2>1. \A g \in O : ~SameKey(tdef, f, g)
    BY KeyUnique
  <2> QED BY <1>1, <2>1, EntryOutside
<1>3. ASSUME NEW k, Ours(tdef, k) PROVE Exists(new, k) <=> k \in Entries(tdef, T)
  <2>1. ASSUME k \in Entries(tdef, T) PROVE Exists(new, k)
    <3>1. PICK i \in Places(tdef), f \in T : k = entry(tdef, i, f)
      BY <2>1 DEF Entries
    <3>2. CASE f \in N
      <4>1. k \in Entries(tdef, N)
        BY <3>1, <3>2 DEF Entries
      <4> QED BY <4>1 DEF Exchanged
    <3>3. CASE f \in S \ O
      <4>1. k \in Entries(tdef, S)
        BY <3>1, <3>3 DEF Entries
      <4>2. Exists(tx, k)
        BY <1>3, <4>1 DEF Holds
      <4> QED BY <1>2, <3>1, <3>3, <4>2 DEF Exchanged
    <3> QED BY <3>2, <3>3
  <2>2. ASSUME Exists(new, k) PROVE k \in Entries(tdef, T)
    <3>1. CASE k \in Entries(tdef, N)
      BY <3>1 DEF Entries
    <3>2. CASE Exists(tx, k) /\ k \notin Entries(tdef, O)
      <4>1. k \in Entries(tdef, S)
        BY <1>3, <3>2 DEF Holds
      <4>2. PICK i \in Places(tdef), f \in S : k = entry(tdef, i, f)
        BY <4>1 DEF Entries
      <4>3. f \notin O
        BY <3>2, <4>2 DEF Entries
      <4> QED BY <4>2, <4>3 DEF Entries
    <3> QED BY <2>2, <3>1, <3>2 DEF Exchanged
  <2> QED BY <2>1, <2>2
<1>4. ASSUME NEW f \in T PROVE Filed(tdef, new, f)
  <2>1. CASE f \in N
    BY <2>1 DEF Exchanged
  <2>2. CASE f \in S \ O
    <3>1. \A i \in Places(tdef) : ValueOf(new, entry(tdef, i, f)) = ValueOf(tx, entry(tdef, i, f))
      BY <1>2, <2>2 DEF Exchanged
    <3>2. Filed(tdef, tx, f)
      BY <2>2 DEF Holds
    <3>3. 1 \in Places(tdef)
      BY DEF SchemaOK, Places
    <3> QED BY <3>1, <3>2, <3>3 DEF Filed
  <2> QED BY <2>1, <2>2
<1> QED BY <1>1, <1>3, <1>4 DEF Holds

-----------------------------------------------------------------------------
(* Records of rows.                                                        *)

\* The record has the columns of row f, in some order.
IsRec(tdef, rec, f) ==
    \A c \in Columns(tdef) :
        colIndex(rec.Cols, c) # 0 /\ rec.Vals[colIndex(rec.Cols, c)] = f[c]

LEMMA ColumnAt ==
    ASSUME NEW S, NEW cols \in Seq(S), Distinct(cols), NEW i \in 1 .. Len(cols)
    PROVE  colIndex(cols, cols[i]) = i
<1> DEFINE I == {j \in 1 .. Len(cols) : cols[j] = cols[i]}
<1>1. Len(cols) \in Nat /\ DOMAIN cols = 1 .. Len(cols)
  BY LenProperties
<1>2. I = {i}
  BY <1>1 DEF Distinct
<1>3. colIndex(cols, cols[i]) = IF I # {} THEN Min(I) ELSE 0
  BY DEF colIndex, SelectInSeq
<1> HIDE DEF I
<1>4. Min(I) = i
  <2>1. I \in SUBSET Nat /\ I # {}
    BY <1>1, <1>2
  <2> QED BY <1>2, <2>1, MinFacts
<1> QED BY <1>2, <1>3, <1>4

\* getValues on the record of a row.
LEMMA RecordValues ==
    ASSUME NEW tdef, NEW f \in Rows(tdef), NEW rec, IsRec(tdef, rec, f),
           NEW cols \in Seq(Columns(tdef))
    PROVE  hasValues(tdef, rec, cols) /\ getValues(rec, cols) = rowVals(f, cols)
<1>1. /\ DOMAIN cols = 1 .. Len(cols)
      /\ \A i \in 1 .. Len(cols) : cols[i] \in Columns(tdef) /\ f[cols[i]].Type = typeOf(tdef, cols[i])
  BY RowTyped DEF Rows
<1>2. ASSUME NEW i \in DOMAIN cols
      PROVE  /\ colIndex(rec.Cols, cols[i]) # 0
             /\ rec.Vals[colIndex(rec.Cols, cols[i])] = f[cols[i]]
  BY <1>1 DEF IsRec
<1>3. hasValues(tdef, rec, cols)
  BY <1>1, <1>2 DEF hasValues, typeOf
<1>4. getValues(rec, cols) = rowVals(f, cols)
  BY <1>2 DEF getValues, rowVals
<1> QED BY <1>3, <1>4

\* The record of a list of all columns.
LEMMA ListRecord ==
    ASSUME NEW tdef, NEW f, NEW cols \in Seq(Columns(tdef)), Distinct(cols),
           Columns(tdef) \subseteq Range(cols), NEW rec, rec.Cols = cols,
           rec.Vals = rowVals(f, cols)
    PROVE  IsRec(tdef, rec, f)
<1>1. Len(cols) \in Nat /\ DOMAIN cols = 1 .. Len(cols)
  BY LenProperties
<1>2. ASSUME NEW c \in Columns(tdef)
      PROVE  colIndex(cols, c) # 0 /\ rowVals(f, cols)[colIndex(cols, c)] = f[c]
  <2>1. PICK i \in 1 .. Len(cols) : cols[i] = c
    BY <1>1 DEF Range
  <2>2. colIndex(cols, c) = i
    BY <2>1, ColumnAt
  <2>3. i # 0
    BY <1>1
  <2> QED BY <1>1, <2>1, <2>2, <2>3 DEF rowVals
<1> QED BY <1>2 DEF IsRec

\* The columns of the primary key, then the others.
LEMMA ValsConcat ==
    ASSUME NEW tdef, NEW f \in Rows(tdef), NEW a \in Seq(Columns(tdef)),
           NEW b \in Seq(Columns(tdef))
    PROVE  rowVals(f, a) \o rowVals(f, b) = rowVals(f, a \o b)
<1> DEFINE C == Columns(tdef)
           x == rowVals(f, a)
           y == rowVals(f, b)
           c == a \o b
           z == rowVals(f, c)
<1>1. /\ x \in Seq(Values) /\ Len(x) = Len(a) /\ Len(a) \in Nat
      /\ \A j \in 1 .. Len(a) : x[j] = f[a[j]]
  BY RowTyped
<1>2. /\ y \in Seq(Values) /\ Len(y) = Len(b) /\ Len(b) \in Nat
      /\ \A j \in 1 .. Len(b) : y[j] = f[b[j]]
  BY RowTyped
<1>3. /\ c \in Seq(C) /\ Len(c) = Len(a) + Len(b)
      /\ \A i \in 1 .. Len(a) + Len(b) : c[i] = IF i <= Len(a) THEN a[i] ELSE b[i - Len(a)]
  BY ConcatProperties
<1> HIDE DEF c
<1>4. z \in Seq(Values) /\ Len(z) = Len(c) /\ \A j \in 1 .. Len(c) : z[j] = f[c[j]]
  <2>1. c \in Seq(Columns(tdef))
    BY <1>3
  <2> HIDE DEF x, y, C
  <2> QED BY <2>1, RowTyped
<1> HIDE DEF x, y, z
<1>5. /\ x \o y \in Seq(Values) /\ Len(x \o y) = Len(x) + Len(y)
      /\ \A i \in 1 .. Len(x) + Len(y) : (x \o y)[i] = IF i <= Len(x) THEN x[i] ELSE y[i - Len(x)]
  BY <1>1, <1>2, ConcatProperties, ZenonT(60)
<1> DEFINE w == x \o y
<1>6. w \in Seq(Values) /\ Len(w) = Len(z)
  BY <1>1, <1>2, <1>3, <1>4, <1>5
<1>7. ASSUME NEW i \in 1 .. Len(w) PROVE w[i] = z[i]
  <2>1. i \in 1 .. Len(a) + Len(b) /\ i \in 1 .. Len(c)
    BY <1>1, <1>2, <1>3, <1>5
  <2>2. CASE i <= Len(a)
    <3>1. i \in 1 .. Len(a)
      BY <1>1, <2>1, <2>2
    <3>2. c[i] = a[i] /\ z[i] = f[c[i]] /\ x[i] = f[a[i]]
      BY <1>1, <1>3, <1>4, <2>1, <2>2, <3>1
    <3>3. w[i] = x[i]
      BY <1>1, <1>2, <1>5, <2>1, <2>2
    <3> QED BY <3>2, <3>3
  <2>3. CASE ~(i <= Len(a))
    <3>1. i - Len(a) \in 1 .. Len(b)
      BY <1>1, <1>2, <2>1, <2>3
    <3>2. c[i] = b[i - Len(a)] /\ z[i] = f[c[i]] /\ y[i - Len(a)] = f[b[i - Len(a)]]
      BY <1>2, <1>3, <1>4, <2>1, <2>3, <3>1
    <3>3. w[i] = y[i - Len(a)]
      BY <1>1, <1>2, <1>5, <2>1, <2>3
    <3> QED BY <3>2, <3>3
  <2> QED BY <2>2, <2>3
<1> HIDE DEF w
<1>8. w = z
  BY <1>4, <1>6, <1>7, SeqEqual
<1> QED BY <1>8 DEF w, x, y, z, c

\* The types that the code reads back are those of the values it stored.
LEMMA TypesRight ==
    ASSUME NEW tdef, NEW f \in Rows(tdef), NEW cols \in Seq(Columns(tdef))
    PROVE  typesOf(tdef, cols)
               = [i \in 1 .. Len(rowVals(f, cols)) |-> rowVals(f, cols)[i].Type]
<1>1. /\ Len(rowVals(f, cols)) = Len(cols) /\ DOMAIN cols = 1 .. Len(cols)
      /\ \A j \in 1 .. Len(cols) : rowVals(f, cols)[j].Type = typeOf(tdef, cols[j])
  BY RowTyped
<1> QED BY <1>1 DEF typesOf, typeOf

\* The row that the code reads back at its primary key is the row.
LEMMA RowDecoded ==
    ASSUME NEW tdef, SchemaOK(tdef), NEW f \in Rows(tdef)
    PROVE  /\ decodeKey(entry(tdef, 1, f), typesOf(tdef, tdef.Indexes[1]))
                  = Read(rowVals(f, tdef.Indexes[1]), <<>>)
           /\ decodeValues(stored(tdef, f), typesOf(tdef, nonPrimaryKeyCols(tdef)))
                  = Read(rowVals(f, nonPrimaryKeyCols(tdef)), <<>>)
           /\ rowVals(f, tdef.Indexes[1]) \o rowVals(f, nonPrimaryKeyCols(tdef))
                  = rowVals(f, rowCols(tdef))
<1> DEFINE pk == tdef.Indexes[1]
           rest == nonPrimaryKeyCols(tdef)
           p == tdef.Prefixes[1]
<1>1. pk \in Seq(Columns(tdef)) /\ rest \in Seq(Columns(tdef)) /\ p \in Nat
  BY DEF SchemaOK, Places
<1> HIDE DEF pk, rest, p
<1>2. rowVals(f, pk) \in Seq(Values) /\ rowVals(f, rest) \in Seq(Values)
  BY <1>1, RowTyped
<1>3. decodeKey(encodeKey(p, rowVals(f, pk)), typesOf(tdef, pk)) = Read(rowVals(f, pk), <<>>)
  <2> DEFINE v == rowVals(f, pk)
  <2>1. typesOf(tdef, pk) = [i \in 1 .. Len(v) |-> v[i].Type]
    BY <1>1, TypesRight
  <2> HIDE DEF v
  <2>2. decodeKey(encodeKey(p, v), [i \in 1 .. Len(v) |-> v[i].Type]) = Read(v, <<>>)
    BY <1>1, <1>2, KeysDecoded DEF v
  <2> QED BY <2>1, <2>2 DEF v
<1>4. decodeValues(encodeValues(rowVals(f, rest)), typesOf(tdef, rest)) = Read(rowVals(f, rest), <<>>)
  <2> DEFINE v == rowVals(f, rest)
  <2>1. typesOf(tdef, rest) = [i \in 1 .. Len(v) |-> v[i].Type]
    BY <1>1, TypesRight
  <2> HIDE DEF v
  <2>2. decodeValues(encodeValues(v), [i \in 1 .. Len(v) |-> v[i].Type]) = Read(v, <<>>)
    BY <1>2, ValuesDecoded DEF v
  <2> QED BY <2>1, <2>2 DEF v
<1>5. rowVals(f, pk) \o rowVals(f, rest) = rowVals(f, pk \o rest)
  BY <1>1, ValsConcat
<1> QED BY <1>3, <1>4, <1>5 DEF entry, stored, rowCols, pk, rest, p

LEMMA RowReadBack ==
    ASSUME NEW tdef, SchemaOK(tdef), NEW f \in Rows(tdef), NEW row,
           row = rowAt(tdef, entry(tdef, 1, f), stored(tdef, f))
    PROVE  row.ok /\ IsRec(tdef, row.rec, f)
<1> DEFINE pk == tdef.Indexes[1]
           rest == nonPrimaryKeyCols(tdef)
           k == Read(rowVals(f, pk), <<>>)
           r == Read(rowVals(f, rest), <<>>)
           cols == rowCols(tdef)
<1>1. row = [ok |-> k.ok /\ r.ok, rec |-> [Cols |-> cols, Vals |-> k.vals \o r.vals]]
  <2>1. /\ decodeKey(entry(tdef, 1, f), typesOf(tdef, pk)) = k
        /\ decodeValues(stored(tdef, f), typesOf(tdef, rest)) = r
    BY RowDecoded
  <2> HIDE DEF k, r, pk, rest
  <2> QED BY <2>1 DEF rowAt, Then, pk, rest
<1>2. k.ok /\ r.ok /\ k.vals = rowVals(f, pk) /\ r.vals = rowVals(f, rest)
  BY ReadFields
<1>3. k.vals \o r.vals = rowVals(f, cols)
  <2> HIDE DEF k, r, cols
  <2> QED BY <1>2, RowDecoded DEF cols
<1> DEFINE good == k.ok /\ r.ok
           vals == k.vals \o r.vals
           record == [Cols |-> cols, Vals |-> vals]
<1>0. good /\ row = [ok |-> good, rec |-> record]
  BY <1>1, <1>2
<1> HIDE DEF k, r, good
<1>4. row.ok /\ row.rec = record
  <2> HIDE DEF record
  <2> QED BY <1>0
<1>5. row.rec.Cols = cols /\ row.rec.Vals = rowVals(f, cols)
  <2>1. vals = rowVals(f, cols)
    BY <1>3
  <2> HIDE DEF cols, vals
  <2> QED BY <1>4, <2>1
<1>6. cols \in Seq(Columns(tdef)) /\ Distinct(cols) /\ Columns(tdef) \subseteq Range(cols)
  <2>1. pk \in Seq(Columns(tdef)) /\ rest \in Seq(Columns(tdef))
    BY DEF SchemaOK, Places
  <2>2. cols \in Seq(Columns(tdef))
    BY <2>1, ConcatProperties DEF rowCols
  <2> QED BY <2>2 DEF SchemaOK, Columns
<1> HIDE DEF cols
<1>7. IsRec(tdef, row.rec, f)
  BY <1>5, <1>6, ListRecord
<1> QED BY <1>4, <1>7

-----------------------------------------------------------------------------
(* The entries of a row in the secondary indexes.                          *)

\* g[i] is what indexOp has done after index i.
IsLoop(g, tx, tdef, op, rec, n) ==
    /\ g[1] = [tx |-> tx, out |-> "ok"]
    /\ \A i \in 2 .. n : g[i] = indexOpAt(g[i - 1], tdef, op, rec, i)

LEMMA LoopExists ==
    ASSUME NEW tx, NEW tdef, NEW op, NEW rec, NEW n \in Nat, n > 0
    PROVE  \E g : IsLoop(g, tx, tdef, op, rec, n)
<1> DEFINE start == [tx |-> tx, out |-> "ok"]
           Bad == {m \in Nat : m > 0 /\ ~ \E g : IsLoop(g, tx, tdef, op, rec, m)}
<1> SUFFICES ASSUME Bad # {} PROVE FALSE
  OBVIOUS
<1>1. PICK m \in Bad : \A k \in Bad : m <= k
  <2>1. Bad \in SUBSET Nat
    OBVIOUS
  <2> HIDE DEF Bad
  <2> QED BY <2>1, LeastNat
<1>2. m \in Nat /\ m > 0 /\ ~ \E g : IsLoop(g, tx, tdef, op, rec, m)
  BY <1>1
<1>3. m # 1
  <2> SUFFICES ASSUME m = 1 PROVE FALSE
    OBVIOUS
  <2> DEFINE g == [i \in {1} |-> start]
  <2>1. g[1] = start
    OBVIOUS
  <2>2. \A i \in 2 .. m : FALSE
    BY <1>2
  <2> HIDE DEF g
  <2>3. IsLoop(g, tx, tdef, op, rec, m)
    BY <2>1, <2>2 DEF IsLoop
  <2> QED BY <1>2, <2>3
<1>4. m - 1 \in Nat /\ m - 1 > 0 /\ ~(m <= m - 1)
  BY <1>2, <1>3
<1>5. PICK h : IsLoop(h, tx, tdef, op, rec, m - 1)
  <2>1. m - 1 \notin Bad
    <3> HIDE DEF Bad
    <3> QED BY <1>1, <1>4
  <2> QED BY <1>4, <2>1
<1> HIDE DEF start, Bad
<1> DEFINE last == indexOpAt(h[m - 1], tdef, op, rec, m)
           g == [i \in 1 .. m |-> IF i = m THEN last ELSE h[i]]
<1>6. g[m] = last /\ \A i \in 1 .. m - 1 : g[i] = h[i]
  <2> HIDE DEF last
  <2>1. m \in 1 .. m /\ \A i \in 1 .. m - 1 : i \in 1 .. m /\ i # m
    BY <1>2, <1>4
  <2> QED BY <2>1
<1> HIDE DEF g
<1>7. g[1] = start
  <2>1. 1 \in 1 .. m - 1
    BY <1>4
  <2> QED BY <1>5, <1>6, <2>1 DEF IsLoop, start
<1>8. ASSUME NEW i \in 2 .. m PROVE g[i] = indexOpAt(g[i - 1], tdef, op, rec, i)
  <2>1. i - 1 \in 1 .. m - 1
    BY <1>2
  <2>2. CASE i = m
    BY <1>6, <2>1, <2>2
  <2>3. CASE i # m
    <3>1. i \in 2 .. m - 1 /\ i \in 1 .. m - 1
      BY <1>2, <2>3
    <3>2. h[i] = indexOpAt(h[i - 1], tdef, op, rec, i)
      BY <1>5, <3>1 DEF IsLoop
    <3> QED BY <1>6, <2>1, <3>1, <3>2
  <2> QED BY <2>2, <2>3
<1>9. IsLoop(g, tx, tdef, op, rec, m)
  BY <1>7, <1>8 DEF IsLoop, start
<1> QED BY <1>2, <1>9

LEMMA IndexOpIs ==
    ASSUME NEW tx, NEW tdef, NEW op, NEW rec, NEW n \in Nat, n = Len(tdef.Indexes), n > 0
    PROVE  \E g : IsLoop(g, tx, tdef, op, rec, n) /\ indexOp(tx, tdef, op, rec) = g[n]
<1> DEFINE start == [tx |-> tx, out |-> "ok"]
           IsFcn(h) ==
               h = [i \in 1 .. n |-> IF i = 1 THEN start ELSE indexOpAt(h[i - 1], tdef, op, rec, i)]
           u == CHOOSE h : IsFcn(h)
<1>1. PICK f : IsLoop(f, tx, tdef, op, rec, n)
  BY LoopExists
<1>2. f[1] = start /\ \A i \in 2 .. n : f[i] = indexOpAt(f[i - 1], tdef, op, rec, i)
  BY <1>1 DEF IsLoop
<1> HIDE DEF start
<1> DEFINE g == [i \in 1 .. n |-> f[i]]
<1>3. ASSUME NEW i \in 1 .. n
      PROVE  g[i] = IF i = 1 THEN start ELSE indexOpAt(g[i - 1], tdef, op, rec, i)
  <2>1. CASE i = 1
    BY <1>2, <2>1
  <2>2. CASE i # 1
    <3>1. i \in 2 .. n /\ i - 1 \in 1 .. n
      BY <2>2
    <3>2. g[i] = f[i] /\ g[i - 1] = f[i - 1]
      BY <3>1
    <3> HIDE DEF g
    <3> QED BY <1>2, <2>2, <3>1, <3>2
  <2> QED BY <2>1, <2>2
<1>4. IsFcn(g)
  <2>1. g = [i \in 1 .. n |-> g[i]]
    OBVIOUS
  <2> HIDE DEF g
  <2> QED BY <1>3, <2>1
<1>5. IsFcn(u)
  <2> HIDE DEF IsFcn, g
  <2> QED BY <1>4
<1>6. indexOp(tx, tdef, op, rec) = u[n]
  BY DEF indexOp, Then, start
<1> HIDE DEF u
<1>7. u[1] = start
  <2>1. 1 \in 1 .. n
    OBVIOUS
  <2> QED BY <1>5, <2>1
<1>8. ASSUME NEW i \in 2 .. n PROVE u[i] = indexOpAt(u[i - 1], tdef, op, rec, i)
  <2>1. i \in 1 .. n /\ i # 1
    OBVIOUS
  <2> QED BY <1>5, <2>1
<1>9. IsLoop(u, tx, tdef, op, rec, n)
  BY <1>7, <1>8 DEF IsLoop, start
<1> QED BY <1>6, <1>9

LEMMA KeepsMore ==
    ASSUME NEW a, NEW b, NEW c, NEW K, NEW L, Keeps(a, b, K), Keeps(b, c, L)
    PROVE  Keeps(a, c, K \cup L)
BY DEF Keeps

\* The entries of row f in the indexes up to i, without the primary key.
Secondary(tdef, f, i) == {entry(tdef, j, f) : j \in 2 .. i}

\* What an operation finds at a key where it can be done, and what it leaves.
Ready(tx, op, k) == Exists(tx, k) <=> op # "ADD"

Left(tx, op, k) ==
    /\ Exists(tx, k) <=> op = "ADD"
    /\ op = "ADD" => ValueOf(tx, k) = <<>>

\* The state of indexOp after index i.
DoneTo(tdef, tx, op, f, i, st) ==
    /\ st.out = "ok"
    /\ Keeps(tx, st.tx, Secondary(tdef, f, i))
    /\ \A j \in 2 .. i : Left(st.tx, op, entry(tdef, j, f))

\* The entry of one index.
LEMMA OneEntry ==
    ASSUME NEW tdef, NEW st, IsTx(st.tx), st.out = "ok", NEW op, NEW rec, NEW f \in Rows(tdef),
           IsRec(tdef, rec, f), NEW i, tdef.Indexes[i] \in Seq(Columns(tdef)),
           NEW key, key = entry(tdef, i, f), Ready(st.tx, op, key),
           NEW new, new = indexOpAt(st, tdef, op, rec, i)
    PROVE  new.out = "ok" /\ Keeps(st.tx, new.tx, {key}) /\ Left(new.tx, op, key)
<1> DEFINE add == kvUpdate(st.tx, key, <<>>, "UPSERT")
           del == kvDel(st.tx, key)
<1>1. /\ hasValues(tdef, rec, tdef.Indexes[i])
      /\ encodeKey(tdef.Prefixes[i], getValues(rec, tdef.Indexes[i])) = key
  BY RecordValues DEF entry
<1>2. new = IF op = "ADD" THEN [tx |-> add.tx, out |-> IF add.added THEN "ok" ELSE "panic"]
            ELSE [tx |-> del.tx, out |-> IF del.deleted THEN "ok" ELSE "panic"]
  <2> HIDE DEF add, del
  <2> QED BY <1>1 DEF indexOpAt, Then, add, del
<1>3. CASE op = "ADD"
  <2>1. ~Exists(st.tx, key)
    BY <1>3 DEF Ready
  <2>2. /\ Keeps(st.tx, add.tx, {key}) /\ Exists(add.tx, key) /\ ValueOf(add.tx, key) = <<>>
        /\ add.added
    <3> DEFINE mode == "UPSERT"
               none == <<>>
    <3>1. CanWrite(st.tx, key, none, mode)
      BY <2>1 DEF CanWrite
    <3> HIDE DEF mode, none
    <3>2. Written(st.tx, key, none, kvUpdate(st.tx, key, none, mode))
      BY <3>1, UpdateShows
    <3> QED BY <2>1, <3>2, Zenon DEF Written, mode, none
  <2> HIDE DEF add, del
  <2>3. new.tx = add.tx /\ new.out = "ok"
    BY <1>2, <1>3, <2>2
  <2> QED BY <1>3, <2>2, <2>3 DEF Left
<1>4. CASE op # "ADD"
  <2>1. Exists(st.tx, key)
    BY <1>4 DEF Ready
  <2>2. Keeps(st.tx, del.tx, {key}) /\ ~Exists(del.tx, key) /\ del.deleted
    BY <2>1, DelShows, Zenon DEF Removed
  <2> HIDE DEF add, del
  <2>3. new.tx = del.tx /\ new.out = "ok"
    BY <1>2, <1>4, <2>2
  <2> QED BY <1>4, <2>2, <2>3 DEF Left
<1> QED BY <1>3, <1>4

\* indexOp, where the entries of the row are all there or all missing.
LEMMA EntriesDone ==
    ASSUME NEW tdef, SchemaOK(tdef), NEW tx, IsTx(tx), NEW op, NEW rec, NEW f \in Rows(tdef),
           IsRec(tdef, rec, f),
           \A i \in Places(tdef) : i # 1 => Ready(tx, op, entry(tdef, i, f))
    PROVE  DoneTo(tdef, tx, op, f, Len(tdef.Indexes), indexOp(tx, tdef, op, rec))
<1> DEFINE n == Len(tdef.Indexes)
<1>1. n \in Nat /\ n > 0 /\ n = Len(tdef.Indexes)
  BY DEF SchemaOK
<1>2. PICK g : IsLoop(g, tx, tdef, op, rec, n) /\ indexOp(tx, tdef, op, rec) = g[n]
  BY <1>1, IndexOpIs
<1>3. \A i \in 1 .. n : i \in Places(tdef) /\ tdef.Indexes[i] \in Seq(Columns(tdef))
  BY DEF SchemaOK, Places
<1> HIDE DEF n
<1> DEFINE Bad == {i \in 1 .. n : ~DoneTo(tdef, tx, op, f, i, g[i])}
<1>4. Bad = {}
  <2> SUFFICES ASSUME Bad # {} PROVE FALSE
    OBVIOUS
  <2>1. PICK m \in Bad : \A k \in Bad : m <= k
    <3>1. Bad \in SUBSET Nat
      OBVIOUS
    <3> HIDE DEF Bad
    <3> QED BY <3>1, LeastNat
  <2>2. m \in 1 .. n /\ ~DoneTo(tdef, tx, op, f, m, g[m])
    BY <2>1
  <2>3. m # 1
    <3> SUFFICES ASSUME m = 1 PROVE FALSE
      OBVIOUS
    <3>1. g[1].tx = tx /\ g[1].out = "ok"
      BY <1>2 DEF IsLoop
    <3>2. \A j \in 2 .. 1 : FALSE
      OBVIOUS
    <3>3. Keeps(tx, g[1].tx, Secondary(tdef, f, 1))
      BY <3>1 DEF Keeps
    <3>4. DoneTo(tdef, tx, op, f, 1, g[1])
      BY <3>1, <3>2, <3>3 DEF DoneTo
    <3> QED BY <2>2, <3>4
  <2>4. m - 1 \in 1 .. n /\ m \in 2 .. n /\ ~(m <= m - 1)
    BY <1>1, <2>2, <2>3
  <2> DEFINE st == g[m - 1]
             new == g[m]
             key == entry(tdef, m, f)
  <2>5. DoneTo(tdef, tx, op, f, m - 1, st)
    <3>1. m - 1 \notin Bad
      <4> HIDE DEF Bad
      <4> QED BY <2>1, <2>4
    <3> QED BY <2>4, <3>1
  <2>6. new = indexOpAt(st, tdef, op, rec, m)
    BY <1>2, <2>4 DEF IsLoop
  <2> HIDE DEF Bad, st, new, key
  <2>7. st.out = "ok" /\ IsTx(st.tx) /\ Keeps(tx, st.tx, Secondary(tdef, f, m - 1))
    BY <2>5 DEF DoneTo, Keeps
  <2>8. ASSUME NEW j \in 2 .. m - 1 PROVE entry(tdef, j, f) # key
    <3>1. j \in Places(tdef) /\ m \in Places(tdef) /\ j # m
      BY <1>1, <1>3, <2>2
    <3> QED BY <3>1, EntryFacts DEF key
  <2>9. Ready(st.tx, op, key)
    <3>1. key \notin Secondary(tdef, f, m - 1)
      BY <2>8 DEF Secondary
    <3>2. Ready(tx, op, key)
      BY <1>3, <2>2, <2>3 DEF key
    <3> QED BY <2>7, <3>1, <3>2 DEF Keeps, Ready
  <2>10. new.out = "ok" /\ Keeps(st.tx, new.tx, {key}) /\ Left(new.tx, op, key)
    <3>1. tdef.Indexes[m] \in Seq(Columns(tdef)) /\ key = entry(tdef, m, f)
      BY <1>3, <2>2 DEF key
    <3> QED BY <2>6, <2>7, <2>9, <3>1, OneEntry
  <2>11. Keeps(tx, new.tx, Secondary(tdef, f, m))
    <3>1. Secondary(tdef, f, m) = Secondary(tdef, f, m - 1) \cup {key}
      <4>1. 2 .. m = (2 .. m - 1) \cup {m}
        BY <2>4
      <4> QED BY <4>1 DEF Secondary, key
    <3> QED BY <2>7, <2>10, <3>1, KeepsMore
  <2>12. ASSUME NEW j \in 2 .. m PROVE Left(new.tx, op, entry(tdef, j, f))
    <3>1. CASE j = m
      BY <2>10, <3>1 DEF key
    <3>2. CASE j # m
      <4>1. j \in 2 .. m - 1
        BY <2>4, <3>2
      <4>2. Left(st.tx, op, entry(tdef, j, f)) /\ entry(tdef, j, f) \notin {key}
        BY <2>5, <2>8, <4>1 DEF DoneTo
      <4> QED BY <2>10, <4>2 DEF Left, Keeps
    <3> QED BY <3>1, <3>2
  <2>13. DoneTo(tdef, tx, op, f, m, new)
    BY <2>10, <2>11, <2>12 DEF DoneTo
  <2> QED BY <2>2, <2>13 DEF new
<1>5. n \in 1 .. n
  BY <1>1
<1> QED BY <1>1, <1>2, <1>4, <1>5

-----------------------------------------------------------------------------
(* Insert, update and delete.                                              *)

\* Keys of other tables are as they were.
Apart(tdef, tx, new) ==
    \A k : ~Ours(tdef, k) => (Exists(new, k) <=> Exists(tx, k)) /\ ValueOf(new, k) = ValueOf(tx, k)

LEMMA EntriesOf ==
    ASSUME NEW tdef, SchemaOK(tdef), NEW f
    PROVE  /\ Entries(tdef, {f}) = {entry(tdef, 1, f)} \cup Secondary(tdef, f, Len(tdef.Indexes))
           /\ Entries(tdef, {}) = {}
<1>1. Places(tdef) = {1} \cup 2 .. Len(tdef.Indexes)
  BY DEF SchemaOK, Places
<1> QED BY <1>1 DEF Entries, Secondary

LEMMA FirstApart ==
    ASSUME NEW tdef, SchemaOK(tdef), NEW f \in Rows(tdef), NEW g \in Rows(tdef)
    PROVE  entry(tdef, 1, f) \notin Secondary(tdef, g, Len(tdef.Indexes))
<1> SUFFICES ASSUME NEW j \in 2 .. Len(tdef.Indexes), entry(tdef, 1, f) = entry(tdef, j, g)
             PROVE  FALSE
  BY DEF Secondary
<1>1. 1 \in Places(tdef) /\ j \in Places(tdef) /\ j # 1
  BY DEF SchemaOK, Places
<1> QED BY <1>1, EntryFacts

\* Nothing but entries of the table are exchanged.
LEMMA ExchangeApart ==
    ASSUME NEW tdef, SchemaOK(tdef), NEW tx, NEW new, NEW O \in SUBSET Rows(tdef),
           NEW N \in SUBSET Rows(tdef), Exchanged(tdef, tx, new, O, N)
    PROVE  Apart(tdef, tx, new)
<1>1. /\ \A k \in Entries(tdef, O) : Ours(tdef, k)
      /\ \A k \in Entries(tdef, N) : Ours(tdef, k)
  BY EntriesOurs
<1> QED BY <1>1 DEF Exchanged, Apart

LEMMA KeepsApart ==
    ASSUME NEW tdef, NEW tx, NEW new, NEW S, Keeps(tx, new, {}), Holds(tdef, tx, S)
    PROVE  Apart(tdef, tx, new) /\ Holds(tdef, new, S)
<1>1. \A k : (Exists(new, k) <=> Exists(tx, k)) /\ ValueOf(new, k) = ValueOf(tx, k)
  BY DEF Keeps
<1>2. Apart(tdef, tx, new)
  BY <1>1 DEF Apart
<1>3. \A f : Filed(tdef, tx, f) => Filed(tdef, new, f)
  BY <1>1 DEF Filed
<1>4. Holds(tdef, new, S)
  BY <1>1, <1>3 DEF Holds
<1> QED BY <1>2, <1>4

\* t shows row f at its primary key, and otherwise what tx shows.
RowKept(tdef, tx, t, f) ==
    /\ Keeps(tx, t, {entry(tdef, 1, f)})
    /\ Exists(t, entry(tdef, 1, f))
    /\ ValueOf(t, entry(tdef, 1, f)) = stored(tdef, f)

\* A step that went well: the table has the rows T.
Now(tdef, tx, st, T) ==
    st.out = "ok" /\ IsTx(st.tx) /\ Holds(tdef, st.tx, T) /\ Apart(tdef, tx, st.tx)

\* All entries of f have come, with its row.
LEMMA EntriesAdded ==
    ASSUME NEW tdef, SchemaOK(tdef), NEW f \in Rows(tdef), NEW t, NEW st,
           DoneTo(tdef, t, "ADD", f, Len(tdef.Indexes), st), Exists(t, entry(tdef, 1, f)),
           ValueOf(t, entry(tdef, 1, f)) = stored(tdef, f)
    PROVE  /\ Filed(tdef, st.tx, f)
           /\ \A k \in Entries(tdef, {f}) : Exists(st.tx, k)
<1> DEFINE n == Len(tdef.Indexes)
           e == entry(tdef, 1, f)
<1>1. Keeps(t, st.tx, Secondary(tdef, f, n)) /\ e \notin Secondary(tdef, f, n)
  BY FirstApart DEF DoneTo
<1>2. Exists(st.tx, e) /\ ValueOf(st.tx, e) = stored(tdef, f)
  BY <1>1 DEF Keeps
<1>3. ASSUME NEW j \in 2 .. n
      PROVE  Exists(st.tx, entry(tdef, j, f)) /\ ValueOf(st.tx, entry(tdef, j, f)) = <<>>
  BY <1>3 DEF DoneTo, Left
<1>4. \A j \in Places(tdef) : j # 1 => j \in 2 .. n
  BY DEF Places, SchemaOK
<1>5. Filed(tdef, st.tx, f)
  BY <1>2, <1>3, <1>4 DEF Filed
<1>6. \A k \in Secondary(tdef, f, n) : Exists(st.tx, k)
  BY <1>3 DEF Secondary
<1> QED BY <1>2, <1>5, <1>6, EntriesOf

\* A row with a new key.
LEMMA RowComes ==
    ASSUME NEW tdef, SchemaOK(tdef), NEW tx, NEW S, Holds(tdef, tx, S), NEW f \in Rows(tdef),
           \A g \in S : ~SameKey(tdef, f, g), NEW rec, IsRec(tdef, rec, f), NEW t,
           RowKept(tdef, tx, t, f)
    PROVE  Now(tdef, tx, indexOp(t, tdef, "ADD", rec), S \cup {f})
<1> DEFINE n == Len(tdef.Indexes)
           st == indexOp(t, tdef, "ADD", rec)
           e == entry(tdef, 1, f)
           X == Secondary(tdef, f, n)
<1>1. IsTx(t) /\ Keeps(tx, t, {e}) /\ Exists(t, e) /\ ValueOf(t, e) = stored(tdef, f)
  BY DEF RowKept, Keeps
<1>2. ASSUME NEW i \in Places(tdef), i # 1 PROVE Ready(t, "ADD", entry(tdef, i, f))
  <2>1. entry(tdef, i, f) # e
    BY <1>2, EntryFacts
  <2>2. ~Exists(tx, entry(tdef, i, f))
    BY RowFound
  <2> QED BY <1>1, <2>1, <2>2 DEF Keeps, Ready
<1>3. DoneTo(tdef, t, "ADD", f, n, st)
  BY <1>1, <1>2, EntriesDone
<1> HIDE DEF st
<1>4. st.out = "ok" /\ Keeps(t, st.tx, X) /\ IsTx(st.tx)
  BY <1>3 DEF DoneTo, Keeps
<1>5. Filed(tdef, st.tx, f) /\ \A k \in Entries(tdef, {f}) : Exists(st.tx, k)
  BY <1>1, <1>3, EntriesAdded
<1>6. Entries(tdef, {f}) = {e} \cup X /\ Entries(tdef, {}) = {}
  BY EntriesOf
<1>7. Keeps(tx, st.tx, {e} \cup X)
  BY <1>1, <1>4, KeepsMore
<1> HIDE DEF X, e
<1>8. Exchanged(tdef, tx, st.tx, {}, {f})
  <2>1. \A k : k \notin Entries(tdef, {f}) =>
            (Exists(st.tx, k) <=> Exists(tx, k)) /\ ValueOf(st.tx, k) = ValueOf(tx, k)
    BY <1>6, <1>7 DEF Keeps
  <2> QED BY <1>5, <1>6, <2>1 DEF Exchanged
<1>9. Holds(tdef, st.tx, (S \ {}) \cup {f})
  <2>1. \A h \in S \ {} : \A g \in {f} : ~SameKey(tdef, h, g)
    BY SameKeySymmetric
  <2>2. {} \in SUBSET S /\ {f} \in SUBSET Rows(tdef)
    OBVIOUS
  <2> QED BY <1>8, <2>1, <2>2, ExchangeHolds
<1>10. Apart(tdef, tx, st.tx)
  <2>1. {} \in SUBSET Rows(tdef) /\ {f} \in SUBSET Rows(tdef)
    OBVIOUS
  <2> QED BY <1>8, <2>1, ExchangeApart
<1>11. (S \ {}) \cup {f} = S \cup {f}
  OBVIOUS
<1> QED BY <1>4, <1>9, <1>10, <1>11 DEF Now, st

\* The entries of row g in the secondary indexes, when its row is overwritten or gone.
LEMMA EntriesThere ==
    ASSUME NEW tdef, SchemaOK(tdef), NEW tx, NEW S, Holds(tdef, tx, S), NEW g \in S, NEW t,
           Keeps(tx, t, {entry(tdef, 1, g)}), NEW i \in Places(tdef), i # 1
    PROVE  Ready(t, "DEL", entry(tdef, i, g))
<1>1. g \in Rows(tdef)
  BY DEF Holds
<1>2. entry(tdef, i, g) # entry(tdef, 1, g) /\ Ours(tdef, entry(tdef, i, g))
  BY <1>1, EntryFacts DEF Ours
<1>3. entry(tdef, i, g) \in Entries(tdef, S)
  BY DEF Entries
<1>4. Exists(tx, entry(tdef, i, g))
  BY <1>2, <1>3 DEF Holds
<1> QED BY <1>2, <1>4 DEF Keeps, Ready

\* A row with the key of row g, in place of it.
LEMMA RowReplaces ==
    ASSUME NEW tdef, SchemaOK(tdef), NEW tx, NEW S, Holds(tdef, tx, S), NEW f \in Rows(tdef),
           NEW g \in S, SameKey(tdef, f, g), NEW rec, IsRec(tdef, rec, f), NEW old,
           IsRec(tdef, old, g), NEW t, RowKept(tdef, tx, t, f)
    PROVE  /\ indexOp(t, tdef, "DEL", old).out = "ok"
           /\ Now(tdef, tx, indexOp(indexOp(t, tdef, "DEL", old).tx, tdef, "ADD", rec),
                  (S \ {g}) \cup {f})
<1> DEFINE del == indexOp(t, tdef, "DEL", old)
           st == indexOp(del.tx, tdef, "ADD", rec)
           n == Len(tdef.Indexes)
           e == entry(tdef, 1, f)
           X == Secondary(tdef, f, n)
           Y == Secondary(tdef, g, n)
<1>1. IsTx(t) /\ Keeps(tx, t, {e}) /\ Exists(t, e) /\ ValueOf(t, e) = stored(tdef, f)
  BY DEF RowKept, Keeps
<1>2. g \in Rows(tdef) /\ S \subseteq Rows(tdef)
  BY DEF Holds
<1>3. e = entry(tdef, 1, g)
  <2>1. 1 \in Places(tdef)
    BY DEF SchemaOK, Places
  <2> QED BY <1>2, <2>1, EntryFacts
<1>4. DoneTo(tdef, t, "DEL", g, n, del)
  <2>1. \A i \in Places(tdef) : i # 1 => Ready(t, "DEL", entry(tdef, i, g))
    BY <1>1, <1>3, EntriesThere
  <2> QED BY <1>1, <1>2, <2>1, EntriesDone
<1> HIDE DEF del
<1>5. del.out = "ok" /\ Keeps(t, del.tx, Y) /\ IsTx(del.tx) /\ \A k \in Y : ~Exists(del.tx, k)
  BY <1>4 DEF DoneTo, Keeps, Left, Secondary
<1>6. e \notin X /\ e \notin Y
  BY <1>2, FirstApart
<1>7. ASSUME NEW i \in Places(tdef), i # 1 PROVE Ready(del.tx, "ADD", entry(tdef, i, f))
  <2> DEFINE k == entry(tdef, i, f)
  <2> SUFFICES ASSUME Exists(del.tx, k) PROVE FALSE
    BY DEF Ready
  <2>1. k # e /\ Ours(tdef, k)
    BY <1>7, EntryFacts DEF Ours
  <2>2. k \notin Y
    BY <1>5
  <2>3. Exists(tx, k)
    <3> HIDE DEF Y, k, e
    <3> QED BY <1>1, <1>5, <2>1, <2>2 DEF Keeps
  <2>4. PICK j \in Places(tdef), h \in S : k = entry(tdef, j, h)
    BY <2>1, <2>3 DEF Holds, Entries
  <2>5. i = j /\ SameKey(tdef, f, h)
    BY <1>2, <2>4, EntryFacts
  <2>6. h = g
    <3>1. SameKey(tdef, h, g)
      BY <2>5 DEF SameKey
    <3> QED BY <3>1, KeyUnique
  <2>7. i \in 2 .. n
    BY <1>7 DEF Places, SchemaOK
  <2> QED BY <2>2, <2>4, <2>5, <2>6, <2>7 DEF Secondary
<1>8. DoneTo(tdef, del.tx, "ADD", f, n, st)
  BY <1>5, <1>7, EntriesDone
<1> HIDE DEF st
<1>9. st.out = "ok" /\ Keeps(del.tx, st.tx, X) /\ IsTx(st.tx)
  BY <1>8 DEF DoneTo, Keeps
<1>10. Exists(del.tx, e) /\ ValueOf(del.tx, e) = stored(tdef, f)
  BY <1>1, <1>5, <1>6 DEF Keeps
<1>11. Filed(tdef, st.tx, f) /\ \A k \in Entries(tdef, {f}) : Exists(st.tx, k)
  BY <1>8, <1>10, EntriesAdded
<1>12. Entries(tdef, {f}) = {e} \cup X /\ Entries(tdef, {g}) = {e} \cup Y
  BY <1>3, EntriesOf
<1>13. Keeps(tx, st.tx, ({e} \cup Y) \cup X)
  <2> HIDE DEF X, Y, e
  <2>1. Keeps(tx, del.tx, {e} \cup Y)
    BY <1>1, <1>5, KeepsMore
  <2> QED BY <1>9, <2>1, KeepsMore
<1> HIDE DEF X, Y, e
<1>14. Exchanged(tdef, tx, st.tx, {g}, {f})
  <2>1. ASSUME NEW k, k \in Entries(tdef, {g}), k \notin Entries(tdef, {f})
        PROVE  ~Exists(st.tx, k)
    <3>1. k \in Y /\ k \notin X
      BY <1>12, <2>1
    <3> QED BY <1>5, <1>9, <3>1 DEF Keeps
  <2>2. \A k : k \notin Entries(tdef, {f}) /\ k \notin Entries(tdef, {g}) =>
            (Exists(st.tx, k) <=> Exists(tx, k)) /\ ValueOf(st.tx, k) = ValueOf(tx, k)
    BY <1>12, <1>13 DEF Keeps
  <2> QED BY <1>11, <2>1, <2>2 DEF Exchanged
<1>15. Holds(tdef, st.tx, (S \ {g}) \cup {f})
  <2>1. ASSUME NEW h \in S \ {g}, SameKey(tdef, h, f) PROVE FALSE
    <3>1. SameKey(tdef, h, g)
      BY <2>1 DEF SameKey
    <3> QED BY <3>1, KeyUnique
  <2>2. \A h \in S \ {g} : \A k \in {f} : ~SameKey(tdef, h, k)
    BY <2>1
  <2>3. {g} \in SUBSET S /\ {f} \in SUBSET Rows(tdef)
    OBVIOUS
  <2> QED BY <1>14, <2>2, <2>3, ExchangeHolds
<1>16. Apart(tdef, tx, st.tx)
  <2>1. {g} \in SUBSET Rows(tdef) /\ {f} \in SUBSET Rows(tdef)
    BY <1>2
  <2> QED BY <1>14, <2>1, ExchangeApart
<1> QED BY <1>5, <1>9, <1>15, <1>16 DEF Now, st, del

\* t shows no row at the primary key of g, and otherwise what tx shows.
RowCut(tdef, tx, t, g) ==
    Keeps(tx, t, {entry(tdef, 1, g)}) /\ ~Exists(t, entry(tdef, 1, g))

\* Row g has gone with its entries.
LEMMA RowGoes ==
    ASSUME NEW tdef, SchemaOK(tdef), NEW tx, NEW S, Holds(tdef, tx, S), NEW g \in S, NEW old,
           IsRec(tdef, old, g), NEW t, RowCut(tdef, tx, t, g)
    PROVE  Now(tdef, tx, indexOp(t, tdef, "DEL", old), S \ {g})
<1> DEFINE n == Len(tdef.Indexes)
           st == indexOp(t, tdef, "DEL", old)
           e == entry(tdef, 1, g)
           Y == Secondary(tdef, g, n)
<1>1. g \in Rows(tdef) /\ IsTx(t) /\ Keeps(tx, t, {e}) /\ ~Exists(t, e)
  BY DEF Holds, Keeps, RowCut
<1>2. DoneTo(tdef, t, "DEL", g, n, st)
  <2>1. \A i \in Places(tdef) : i # 1 => Ready(t, "DEL", entry(tdef, i, g))
    BY <1>1, EntriesThere
  <2> QED BY <1>1, <2>1, EntriesDone
<1> HIDE DEF st
<1>3. st.out = "ok" /\ Keeps(t, st.tx, Y) /\ IsTx(st.tx) /\ \A k \in Y : ~Exists(st.tx, k)
  BY <1>2 DEF DoneTo, Keeps, Left, Secondary
<1>4. e \notin Y /\ Entries(tdef, {g}) = {e} \cup Y /\ Entries(tdef, {}) = {}
  BY <1>1, FirstApart, EntriesOf
<1>5. Keeps(tx, st.tx, {e} \cup Y) /\ ~Exists(st.tx, e)
  <2> HIDE DEF Y, n
  <2>1. ~Exists(st.tx, e)
    BY <1>1, <1>3, <1>4 DEF Keeps
  <2> QED BY <1>1, <1>3, <2>1, KeepsMore
<1> HIDE DEF Y, e
<1>6. Exchanged(tdef, tx, st.tx, {g}, {})
  <2>1. \A k \in Entries(tdef, {g}) : ~Exists(st.tx, k)
    BY <1>3, <1>4, <1>5
  <2>2. \A k : k \notin Entries(tdef, {g}) =>
            (Exists(st.tx, k) <=> Exists(tx, k)) /\ ValueOf(st.tx, k) = ValueOf(tx, k)
    BY <1>4, <1>5 DEF Keeps
  <2> QED BY <1>4, <2>1, <2>2 DEF Exchanged
<1>7. Holds(tdef, st.tx, (S \ {g}) \cup {})
  <2>1. {g} \in SUBSET S /\ {} \in SUBSET Rows(tdef) /\ \A h \in S \ {g} : \A k \in {} : ~SameKey(tdef, h, k)
    OBVIOUS
  <2> QED BY <1>6, <2>1, ExchangeHolds
<1>8. Apart(tdef, tx, st.tx)
  <2>1. {g} \in SUBSET Rows(tdef) /\ {} \in SUBSET Rows(tdef)
    BY <1>1
  <2> QED BY <1>6, <2>1, ExchangeApart
<1>9. (S \ {g}) \cup {} = S \ {g}
  OBVIOUS
<1> QED BY <1>3, <1>7, <1>8, <1>9 DEF Now, st

\* The result of dbUpdate.
UpdateResult(tx, out, updated, added) ==
    [tx |-> tx, out |-> out, updated |-> updated, added |-> added]

LEMMA UpdateFields ==
    ASSUME NEW tx, NEW out, NEW updated, NEW added, NEW r, r = UpdateResult(tx, out, updated, added)
    PROVE  r.tx = tx /\ r.out = out /\ r.updated = updated /\ r.added = added
BY DEF UpdateResult

\* The rows of S with the primary key of f.
Same(tdef, S, f) == {g \in S : SameKey(tdef, f, g)}

\* Where kvUpdate writes the row f.
LEMMA WritesRow ==
    ASSUME NEW tdef, SchemaOK(tdef), NEW tx, NEW S, Holds(tdef, tx, S), NEW f \in Rows(tdef),
           NEW mode
    PROVE  /\ Exists(tx, entry(tdef, 1, f)) <=> Same(tdef, S, f) # {}
           /\ CanWrite(tx, entry(tdef, 1, f), stored(tdef, f), mode) <=>
                  /\ ~(mode = "INSERT_ONLY" /\ Same(tdef, S, f) # {})
                  /\ ~(mode = "UPDATE_ONLY" /\ Same(tdef, S, f) = {})
                  /\ f \notin S
           /\ \A g \in Same(tdef, S, f) :
                  /\ Same(tdef, S, f) = {g} /\ g \in Rows(tdef)
                  /\ entry(tdef, 1, g) = entry(tdef, 1, f)
                  /\ ValueOf(tx, entry(tdef, 1, f)) = stored(tdef, g)
<1> DEFINE key == entry(tdef, 1, f)
           val == stored(tdef, f)
           same == Same(tdef, S, f)
<1>1. Exists(tx, key) <=> same # {}
  BY RowFound DEF Same
<1>2. S \subseteq Rows(tdef)
  BY DEF Holds
<1>3. f \in S => f \in same
  BY DEF Same, SameKey
<1>4. ASSUME NEW g \in same
      PROVE  /\ same = {g} /\ g \in Rows(tdef)
             /\ entry(tdef, 1, g) = key /\ ValueOf(tx, key) = stored(tdef, g)
  <2>1. g \in S /\ SameKey(tdef, f, g) /\ g \in Rows(tdef)
    BY <1>2 DEF Same
  <2>2. entry(tdef, 1, g) = key
    <3>1. 1 \in Places(tdef)
      BY DEF SchemaOK, Places
    <3> QED BY <2>1, <3>1, EntryFacts
  <2>3. ValueOf(tx, key) = stored(tdef, g)
    BY <2>1, <2>2 DEF Holds, Filed
  <2>4. ASSUME NEW h \in same PROVE h = g
    <3>1. h \in S /\ SameKey(tdef, h, g)
      BY <2>1 DEF Same, SameKey
    <3> QED BY <2>1, <3>1, KeyUnique
  <2> QED BY <2>1, <2>2, <2>3, <2>4
<1>5. ASSUME NEW g \in same PROVE stored(tdef, g) # val <=> f \notin S
  <2>1. g \in S /\ SameKey(tdef, f, g) /\ g \in Rows(tdef)
    BY <1>2 DEF Same
  <2>2. stored(tdef, g) = val => f = g
    BY <2>1, StoredFacts
  <2>3. f \in S => f = g
    BY <1>3, <1>4
  <2> QED BY <2>1, <2>2, <2>3
<1>6. (Exists(tx, key) => ValueOf(tx, key) # val) <=> f \notin S
  <2> HIDE DEF same, key, val
  <2>1. CASE same = {}
    BY <1>1, <1>3, <2>1
  <2>2. CASE same # {}
    <3>1. PICK g \in same : TRUE
      BY <2>2
    <3> QED BY <1>1, <1>4, <1>5, <2>2, <3>1
  <2> QED BY <2>1, <2>2
<1> HIDE DEF same, key, val
<1>7. CanWrite(tx, key, val, mode) <=>
          /\ ~(mode = "INSERT_ONLY" /\ same # {})
          /\ ~(mode = "UPDATE_ONLY" /\ same = {})
          /\ f \notin S
  BY <1>1, <1>6 DEF CanWrite
<1> QED BY <1>1, <1>4, <1>7 DEF key, val, same

\* table.go dbUpdate (lines 537-576) with indexOp (583-609): from a transaction in
\* which the rows S and their index entries agree, every mode, every row and every
\* order of the columns in the record lead to one in which they agree again.  The
\* row replaces the one with its primary key, and the index entries of that one
\* are gone; a duplicate key is the only error, no assertion of indexOp fails,
\* nothing is written when nothing changes, and no other table is touched.
THEOREM RowUpdated ==
    ASSUME NEW tdef, SchemaOK(tdef), NEW tx, IsTx(tx), NEW S, Holds(tdef, tx, S),
           NEW f \in Rows(tdef), NEW rec, IsRec(tdef, rec, f), NEW mode, NEW r,
           r = dbUpdate(tx, tdef, rec, mode)
    PROVE  LET same == Same(tdef, S, f)
               dup  == mode = "INSERT_ONLY" /\ same # {}
           IN  /\ r.out = IF dup THEN "error" ELSE "ok"
               /\ r.updated <=> ~dup /\ ~(mode = "UPDATE_ONLY" /\ same = {}) /\ f \notin S
               /\ r.added <=> r.updated /\ same = {}
               /\ r.updated => Holds(tdef, r.tx, (S \ same) \cup {f})
               /\ ~r.updated => Holds(tdef, r.tx, S)
               /\ Apart(tdef, tx, r.tx) /\ IsTx(r.tx)
<1> DEFINE same == Same(tdef, S, f)
           dup == mode = "INSERT_ONLY" /\ same # {}
           missing == mode = "UPDATE_ONLY" /\ same = {}
           key == entry(tdef, 1, f)
           val == stored(tdef, f)
           req == kvUpdate(tx, key, val, mode)
           del == IF req.added THEN [tx |-> req.tx, out |-> "ok"]
                  ELSE indexOp(req.tx, tdef, "DEL", rowAt(tdef, key, req.old).rec)
           st == IF del.out = "ok" THEN indexOp(del.tx, tdef, "ADD", rec) ELSE del
<1>1. /\ hasValues(tdef, rec, rowCols(tdef))
      /\ encodeKey(tdef.Prefixes[1], getValues(rec, tdef.Indexes[1])) = key
      /\ encodeValues(getValues(rec, nonPrimaryKeyCols(tdef))) = val
  <2>1. /\ tdef.Indexes[1] \in Seq(Columns(tdef)) /\ nonPrimaryKeyCols(tdef) \in Seq(Columns(tdef))
    BY DEF SchemaOK, Places
  <2>2. rowCols(tdef) \in Seq(Columns(tdef))
    BY <2>1, ConcatProperties DEF rowCols
  <2> QED BY <2>1, <2>2, RecordValues DEF entry, stored
<1>2. r = IF ~req.updated
          THEN UpdateResult(req.tx, IF req.err THEN "error" ELSE "ok", req.updated, req.added)
          ELSE UpdateResult(st.tx, st.out, req.updated, req.added)
  <2> DEFINE k == encodeKey(tdef.Prefixes[1], getValues(rec, tdef.Indexes[1]))
             v == encodeValues(getValues(rec, nonPrimaryKeyCols(tdef)))
             q == kvUpdate(tx, k, v, mode)
             d == IF q.added THEN [tx |-> q.tx, out |-> "ok"]
                  ELSE indexOp(q.tx, tdef, "DEL", rowAt(tdef, k, q.old).rec)
             s == IF d.out = "ok" THEN indexOp(d.tx, tdef, "ADD", rec) ELSE d
  <2>1. r = IF ~q.updated
            THEN UpdateResult(q.tx, IF q.err THEN "error" ELSE "ok", q.updated, q.added)
            ELSE UpdateResult(s.tx, s.out, q.updated, q.added)
    <3>1. hasValues(tdef, rec, rowCols(tdef))
      BY <1>1, Zenon
    <3>2. r = Then(q, LAMBDA x :
                 IF ~x.updated
                 THEN UpdateResult(x.tx, IF x.err THEN "error" ELSE "ok", x.updated, x.added)
                 ELSE Then(IF x.added THEN [tx |-> x.tx, out |-> "ok"]
                           ELSE indexOp(x.tx, tdef, "DEL", rowAt(tdef, k, x.old).rec), LAMBDA y :
                      Then(IF y.out = "ok" THEN indexOp(y.tx, tdef, "ADD", rec) ELSE y, LAMBDA z :
                           UpdateResult(z.tx, z.out, x.updated, x.added))))
      BY <3>1, Zenon DEF dbUpdate, Then, UpdateResult
    <3> QED BY <3>2, Zenon DEF Then
  <2>2. k = key /\ v = val
    BY <1>1
  <2> HIDE DEF k, v, key, val
  <2> QED BY <2>1, <2>2, SMTT(60)
<1>3. /\ Exists(tx, key) <=> same # {}
      /\ CanWrite(tx, key, val, mode) <=> ~dup /\ ~missing /\ f \notin S
      /\ \A g \in same : /\ same = {g} /\ g \in Rows(tdef) /\ entry(tdef, 1, g) = key
                         /\ ValueOf(tx, key) = stored(tdef, g)
  BY WritesRow
<1> HIDE DEF same, key, val, st, del, req
<1>4. CASE ~CanWrite(tx, key, val, mode)
  <2>1. Idle(tx, key, mode, req)
    BY <1>4, UpdateIdle DEF req
  <2>2. ~req.updated /\ ~req.added /\ Keeps(tx, req.tx, {}) /\ (req.err <=> dup)
    BY <1>3, <2>1, Zenon DEF Idle
  <2> HIDE DEF dup, missing
  <2>3. r = UpdateResult(req.tx, IF req.err THEN "error" ELSE "ok", req.updated, req.added)
    BY <1>2, <2>2
  <2>4. /\ r.tx = req.tx /\ r.out = (IF req.err THEN "error" ELSE "ok")
        /\ r.updated = req.updated /\ r.added = req.added
    BY <2>3, UpdateFields
  <2>5. r.out = IF dup THEN "error" ELSE "ok"
    BY <2>2, <2>4
  <2>6. ~r.updated /\ ~r.added
    BY <2>2, <2>4, Zenon
  <2>7. Holds(tdef, r.tx, S) /\ Apart(tdef, tx, r.tx) /\ IsTx(r.tx)
    <3>1. Holds(tdef, req.tx, S) /\ Apart(tdef, tx, req.tx) /\ IsTx(req.tx)
      BY <2>2, KeepsApart DEF Keeps
    <3> QED BY <2>4, <3>1
  <2>8. ~(~dup /\ ~missing /\ f \notin S)
    BY <1>3, <1>4
  <2> QED BY <2>5, <2>6, <2>7, <2>8, Zenon DEF dup, missing, same
<1>5. CASE CanWrite(tx, key, val, mode)
  <2>1. Written(tx, key, val, req)
    BY <1>5, UpdateShows DEF req
  <2>2. /\ req.updated /\ ~req.err /\ (req.added <=> same = {})
        /\ same # {} => req.old = ValueOf(tx, key)
    BY <1>3, <2>1, Zenon DEF Written
  <2>3. RowKept(tdef, tx, req.tx, f)
    BY <2>1 DEF Written, RowKept, key, val
  <2>4. ~dup /\ ~missing /\ f \notin S
    BY <1>3, <1>5
  <2>5. Now(tdef, tx, st, (S \ same) \cup {f})
    <3>1. CASE same = {}
      <4>1. del.tx = req.tx /\ del.out = "ok"
        <5>1. req.added
          BY <2>2, <3>1, Zenon
        <5> QED BY <5>1 DEF del
      <4>2. st = indexOp(req.tx, tdef, "ADD", rec)
        BY <4>1 DEF st
      <4>3. \A g \in S : ~SameKey(tdef, f, g)
        BY <3>1 DEF same, Same
      <4>4. Now(tdef, tx, st, S \cup {f})
        BY <2>3, <4>2, <4>3, RowComes
      <4>5. (S \ same) \cup {f} = S \cup {f}
        BY <3>1
      <4> QED BY <4>4, <4>5
    <3>2. CASE same # {}
      <4>1. PICK g \in same : TRUE
        BY <3>2
      <4>2. same = {g} /\ g \in Rows(tdef) /\ entry(tdef, 1, g) = key /\ req.old = stored(tdef, g)
        BY <1>3, <2>2, <3>2, <4>1
      <4>3. g \in S /\ SameKey(tdef, f, g)
        BY <4>1 DEF same, Same
      <4> DEFINE old == rowAt(tdef, key, req.old).rec
      <4>4. IsRec(tdef, old, g)
        <5>1. IsRec(tdef, rowAt(tdef, entry(tdef, 1, g), stored(tdef, g)).rec, g)
          BY <4>2, RowReadBack
        <5> QED BY <4>2, <5>1
      <4>5. del = indexOp(req.tx, tdef, "DEL", old)
        <5>1. ~req.added
          BY <2>2, <3>2, Zenon
        <5> QED BY <5>1 DEF del
      <4> HIDE DEF old
      <4>6. del.out = "ok" /\ Now(tdef, tx, indexOp(del.tx, tdef, "ADD", rec), (S \ {g}) \cup {f})
        BY <2>3, <4>3, <4>4, <4>5, RowReplaces, ZenonT(60)
      <4>7. st = indexOp(del.tx, tdef, "ADD", rec)
        BY <4>6 DEF st
      <4> QED BY <4>2, <4>6, <4>7
    <3> QED BY <3>1, <3>2
  <2> HIDE DEF dup, missing
  <2>6. r = UpdateResult(st.tx, st.out, req.updated, req.added)
    BY <1>2, <2>2
  <2>7. r.tx = st.tx /\ r.out = st.out /\ r.updated = req.updated /\ r.added = req.added
    BY <2>6, UpdateFields
  <2>8. r.updated /\ (r.added <=> same = {})
    BY <2>2, <2>7, Zenon
  <2>9. r.out = IF dup THEN "error" ELSE "ok"
    BY <2>4, <2>5, <2>7 DEF Now
  <2>10. Holds(tdef, r.tx, (S \ same) \cup {f}) /\ Apart(tdef, tx, r.tx) /\ IsTx(r.tx)
    BY <2>5, <2>7 DEF Now
  <2> QED BY <2>4, <2>8, <2>9, <2>10, Zenon DEF dup, missing, same
<1> QED BY <1>4, <1>5

\* The record has the primary key of row f.
HasKey(tdef, rec, f) ==
    /\ hasValues(tdef, rec, tdef.Indexes[1])
    /\ getValues(rec, tdef.Indexes[1]) = rowVals(f, tdef.Indexes[1])

\* The record that dbDelete puts together is that of the row, where the columns of
\* the primary key come first in the schema.
LEMMA OldRecord ==
    ASSUME NEW tdef, SchemaOK(tdef), tdef.Cols = rowCols(tdef), NEW f \in Rows(tdef),
           NEW g \in Rows(tdef), SameKey(tdef, f, g), NEW old,
           old = [Cols |-> tdef.Cols,
                  Vals |-> rowVals(f, tdef.Indexes[1]) \o
                           decodeValues(stored(tdef, g), typesOf(tdef, nonPrimaryKeyCols(tdef))).vals]
    PROVE  IsRec(tdef, old, g)
<1> DEFINE pk == tdef.Indexes[1]
           rest == nonPrimaryKeyCols(tdef)
           cols == rowCols(tdef)
<1>1. pk \in Seq(Columns(tdef)) /\ rest \in Seq(Columns(tdef))
  BY DEF SchemaOK, Places
<1>2. cols \in Seq(Columns(tdef)) /\ Distinct(cols) /\ Columns(tdef) \subseteq Range(cols)
  <2>1. cols \in Seq(Columns(tdef))
    BY <1>1, ConcatProperties DEF rowCols
  <2> QED BY <2>1 DEF SchemaOK, Columns
<1>3. decodeValues(stored(tdef, g), typesOf(tdef, rest)).vals = rowVals(g, rest)
  BY RowDecoded, ReadFields
<1>4. rowVals(f, pk) = rowVals(g, pk)
  <2> DEFINE p == tdef.Prefixes[1]
  <2>1. p \in Nat /\ \A c \in Range(pk) : f[c] = g[c]
    BY DEF SchemaOK, Places, SameKey
  <2> HIDE DEF p, pk
  <2> QED BY <1>1, <2>1, ValsEqual
<1>5. rowVals(g, pk) \o rowVals(g, rest) = rowVals(g, cols)
  BY RowDecoded
<1>6. old.Cols = cols /\ old.Vals = rowVals(g, cols)
  BY <1>3, <1>4, <1>5
<1> HIDE DEF cols, pk, rest
<1> QED BY <1>2, <1>6, ListRecord

\* The result of dbDelete.
DeleteResult(tx, out, deleted) == [tx |-> tx, out |-> out, deleted |-> deleted]

LEMMA DeleteFields ==
    ASSUME NEW tx, NEW out, NEW deleted, NEW r, r = DeleteResult(tx, out, deleted)
    PROVE  r.tx = tx /\ r.out = out /\ r.deleted = deleted
BY DEF DeleteResult

\* table.go dbDelete (lines 641-673) with indexOp (583-609): the row with the
\* primary key of the record goes, if there is one, and so do all its index
\* entries; no assertion fails and no other table is touched.  It is so for the
\* schemas whose columns start with those of the primary key: the code pairs the
\* columns in the order of the schema with values in the order of the stored row.
THEOREM RowDeleted ==
    ASSUME NEW tdef, SchemaOK(tdef), tdef.Cols = rowCols(tdef), NEW tx, IsTx(tx), NEW S,
           Holds(tdef, tx, S), NEW f \in Rows(tdef), NEW rec, HasKey(tdef, rec, f), NEW r,
           r = dbDelete(tx, tdef, rec)
    PROVE  /\ r.out = "ok" /\ (r.deleted <=> Same(tdef, S, f) # {})
           /\ Holds(tdef, r.tx, S \ Same(tdef, S, f))
           /\ Apart(tdef, tx, r.tx) /\ IsTx(r.tx)
<1> DEFINE same == Same(tdef, S, f)
           key == entry(tdef, 1, f)
           del == kvDel(tx, key)
           vals == rowVals(f, tdef.Indexes[1])
           old == [Cols |-> tdef.Cols,
                   Vals |-> vals \o
                            decodeValues(del.old, typesOf(tdef, nonPrimaryKeyCols(tdef))).vals]
           st == indexOp(del.tx, tdef, "DEL", old)
           no == FALSE
           yes == TRUE
<1>1. r = IF ~del.deleted THEN DeleteResult(del.tx, "ok", no) ELSE DeleteResult(st.tx, st.out, yes)
  <2>1. /\ hasValues(tdef, rec, tdef.Indexes[1]) /\ getValues(rec, tdef.Indexes[1]) = vals
        /\ encodeKey(tdef.Prefixes[1], vals) = key
    BY DEF HasKey, entry
  <2> HIDE DEF vals, key
  <2>2. r = Then(del, LAMBDA x :
              IF ~x.deleted THEN DeleteResult(x.tx, "ok", no)
              ELSE Then(indexOp(x.tx, tdef, "DEL",
                                [Cols |-> tdef.Cols,
                                 Vals |-> vals \o
                                     decodeValues(x.old, typesOf(tdef, nonPrimaryKeyCols(tdef))).vals]),
                        LAMBDA y : DeleteResult(y.tx, y.out, yes)))
    BY <2>1 DEF dbDelete, Then, DeleteResult
  <2> QED BY <2>2 DEF Then
<1>2. /\ Exists(tx, key) <=> same # {}
      /\ \A g \in same : /\ same = {g} /\ g \in Rows(tdef) /\ entry(tdef, 1, g) = key
                         /\ ValueOf(tx, key) = stored(tdef, g)
  BY WritesRow
<1>3. Removed(tx, key, del)
  BY DelShows
<1>4. ~no /\ yes
  OBVIOUS
<1>5. old = [Cols |-> tdef.Cols,
             Vals |-> vals \o decodeValues(del.old, typesOf(tdef, nonPrimaryKeyCols(tdef))).vals]
  OBVIOUS
<1>6. st = indexOp(del.tx, tdef, "DEL", old)
  OBVIOUS
<1> HIDE DEF same, key, del, old, st, no, yes
<1>7. CASE same = {}
  <2>1. ~del.deleted /\ Keeps(tx, del.tx, {})
    BY <1>2, <1>3, <1>7, Zenon DEF Removed
  <2>2. r = DeleteResult(del.tx, "ok", no)
    BY <1>1, <2>1
  <2>3. r.tx = del.tx /\ r.out = "ok" /\ r.deleted = no
    BY <2>2, DeleteFields
  <2>4. ~r.deleted
    BY <1>4, <2>3, Zenon
  <2>5. Holds(tdef, del.tx, S) /\ Apart(tdef, tx, del.tx) /\ IsTx(del.tx)
    BY <2>1, KeepsApart DEF Keeps
  <2>6. S \ same = S
    BY <1>7
  <2>7. Holds(tdef, r.tx, S \ same) /\ Apart(tdef, tx, r.tx) /\ IsTx(r.tx)
    BY <2>3, <2>5, <2>6
  <2> QED BY <1>7, <2>3, <2>4, <2>7, Zenon DEF same
<1>8. CASE same # {}
  <2>1. PICK g \in same : TRUE
    BY <1>8
  <2>2. /\ same = {g} /\ g \in Rows(tdef) /\ entry(tdef, 1, g) = key
        /\ ValueOf(tx, key) = stored(tdef, g)
    BY <1>2, <2>1
  <2>3. g \in S /\ SameKey(tdef, f, g)
    BY <2>1 DEF same, Same
  <2>4. /\ del.deleted /\ Keeps(tx, del.tx, {key}) /\ ~Exists(del.tx, key)
        /\ del.old = ValueOf(tx, key)
    BY <1>2, <1>3, <1>8, Zenon DEF Removed
  <2>5. IsRec(tdef, old, g)
    <3>1. del.old = stored(tdef, g)
      BY <2>2, <2>4
    <3>2. old = [Cols |-> tdef.Cols,
                 Vals |-> rowVals(f, tdef.Indexes[1]) \o
                          decodeValues(stored(tdef, g), typesOf(tdef, nonPrimaryKeyCols(tdef))).vals]
      BY <1>5, <3>1
    <3> QED BY <2>2, <2>3, <3>2, OldRecord
  <2>6. Now(tdef, tx, st, S \ {g})
    <3>1. RowCut(tdef, tx, del.tx, g)
      BY <2>2, <2>4 DEF RowCut
    <3> QED BY <1>6, <2>3, <2>5, <3>1, RowGoes
  <2>7. r = DeleteResult(st.tx, st.out, yes)
    BY <1>1, <2>4
  <2>8. r.tx = st.tx /\ r.out = st.out /\ r.deleted = yes
    BY <2>7, DeleteFields
  <2>9. r.deleted
    BY <1>4, <2>8, Zenon
  <2>10. /\ r.out = "ok" /\ Holds(tdef, r.tx, S \ same)
         /\ Apart(tdef, tx, r.tx) /\ IsTx(r.tx)
    BY <2>2, <2>6, <2>8 DEF Now
  <2> QED BY <1>8, <2>9, <2>10, Zenon DEF same
<1> QED BY <1>7, <1>8

\* table.go dbUpdate and dbDelete on one table, and the prefixes that TableNew
\* (lines 490-515) gives to each: the rows and indexes of another table, which has
\* no prefix in common with it, agree as before.
THEOREM OthersKept ==
    ASSUME NEW tdef, NEW other, SchemaOK(other),
           \A i \in Places(tdef), j \in Places(other) : tdef.Prefixes[i] # other.Prefixes[j],
           NEW tx, NEW new, Apart(tdef, tx, new), NEW T, Holds(other, tx, T)
    PROVE  Holds(other, new, T)
<1>1. ASSUME NEW k, Ours(other, k)
      PROVE  (Exists(new, k) <=> Exists(tx, k)) /\ ValueOf(new, k) = ValueOf(tx, k)
  <2>1. ~Ours(tdef, k)
    BY <1>1 DEF Ours
  <2> QED BY <2>1 DEF Apart
<1>2. T \subseteq Rows(other)
  BY DEF Holds
<1>3. ASSUME NEW f \in T PROVE Filed(other, new, f)
  <2>1. \A i \in Places(other) : Ours(other, entry(other, i, f))
    BY <1>2, EntryFacts DEF Ours
  <2>2. 1 \in Places(other)
    BY DEF SchemaOK, Places
  <2>3. Filed(other, tx, f)
    BY DEF Holds
  <2> QED BY <1>1, <2>1, <2>2, <2>3 DEF Filed
<1> QED BY <1>1, <1>2, <1>3 DEF Holds
=============================================================================
