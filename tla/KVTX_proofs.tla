---------------------------- MODULE KVTX_proofs ----------------------------
(***************************************************************************)
(* Proofs about the transactions of KVTX, for every set of keys, values    *)
(* and transactions and every number of commits.                           *)
(***************************************************************************)
EXTENDS KVTX, TLAPS, SequenceTheorems, FiniteSetTheorems, WellFoundedInduction

-----------------------------------------------------------------------------
(* Facts about the operators of txFinalize.                                *)

\* A non-empty set of version numbers or of positions has a least element.
LEMMA LeastNat ==
    ASSUME NEW S \in SUBSET Nat, S # {}
    PROVE  \E n \in S : \A m \in S : n <= m
<1>1. \E n \in S : \A m \in S : ~(<<m, n>> \in OpToRel(<, Nat))
  BY NatLessThanWellFounded, WFMin, Zenon
<1>2. PICK n \in S : \A m \in S : ~(<<m, n>> \in OpToRel(<, Nat))
  BY <1>1
<1>3. ASSUME NEW m \in S PROVE n <= m
  <2>1. ~(m < n)
    BY <1>2, Zenon DEF OpToRel
  <2> QED BY <2>1, SMT
<1> QED BY <1>3

\* slices.Index finds an occurrence of a version that is there.
LEMMA FirstIndexFound ==
    ASSUME NEW s \in Seq(Nat), NEW v, \E i \in DOMAIN s : s[i] = v
    PROVE  FirstIndex(s, v) \in 1 .. Len(s) /\ s[FirstIndex(s, v)] = v
<1> DEFINE S == {i \in DOMAIN s : s[i] = v}
<1>1. S \in SUBSET Nat /\ S # {}
  BY LenProperties
<1>2. PICK n \in S : \A m \in S : n <= m
  BY <1>1, LeastNat, Zenon
<1>3. n \in DOMAIN s /\ s[n] = v /\ \A j \in 1 .. n - 1 : s[j] # v
  BY <1>2, LenProperties
<1> QED BY <1>3, LenProperties, Zenon DEF FirstIndex

\* slices.Delete of one position.
LEMMA RemoveAtProperties ==
    ASSUME NEW s \in Seq(Nat), NEW i \in 1 .. Len(s)
    PROVE  /\ RemoveAt(s, i) \in Seq(Nat)
           /\ Len(RemoveAt(s, i)) = Len(s) - 1
           /\ \A j \in 1 .. Len(s) - 1 : RemoveAt(s, i)[j] = IF j < i THEN s[j] ELSE s[j + 1]
<1> DEFINE a == SubSeq(s, 1, i - 1)  b == SubSeq(s, i + 1, Len(s))
<1>1. Len(s) \in Nat /\ \A j \in 1 .. Len(s) : s[j] \in Nat
  BY LenProperties, ElementOfSeq
<1>2. a \in Seq(Nat) /\ Len(a) = i - 1 /\ \A j \in 1 .. i - 1 : a[j] = s[j]
  <2>1. \A j \in 1 .. i - 1 : s[j] \in Nat
    BY <1>1
  <2> QED BY <2>1, <1>1, SubSeqProperties
<1>3. b \in Seq(Nat) /\ Len(b) = Len(s) - i /\ \A j \in 1 .. Len(s) - i : b[j] = s[i + j]
  <2>1. \A j \in i + 1 .. Len(s) : s[j] \in Nat
    BY <1>1
  <2>2. /\ b \in Seq(Nat)
        /\ Len(b) = IF i + 1 <= Len(s) THEN Len(s) - (i + 1) + 1 ELSE 0
        /\ \A j \in 1 .. Len(s) - (i + 1) + 1 : b[j] = s[(i + 1) + j - 1]
    <3>1. i + 1 \in Int /\ Len(s) \in Int
      BY <1>1
    <3> QED BY <2>1, <3>1, SubSeqProperties
  <2> QED BY <2>2, <1>1
<1>4. /\ a \o b \in Seq(Nat) /\ Len(a \o b) = Len(a) + Len(b)
      /\ \A j \in 1 .. Len(a) + Len(b) : (a \o b)[j] = IF j <= Len(a) THEN a[j] ELSE b[j - Len(a)]
  BY <1>2, <1>3, ConcatProperties
<1>5. RemoveAt(s, i) = a \o b
  BY DEF RemoveAt
<1> HIDE DEF a, b
<1>6. ASSUME NEW j \in 1 .. Len(s) - 1
      PROVE (a \o b)[j] = IF j < i THEN s[j] ELSE s[j + 1]
  <2>1. CASE j < i
    BY <2>1, <1>1, <1>2, <1>3, <1>4
  <2>2. CASE ~(j < i)
    <3>1. (a \o b)[j] = b[j - (i - 1)]
      <4>1. j \in 1 .. Len(a) + Len(b) /\ ~(j <= Len(a))
        BY <2>2, <1>1, <1>2, <1>3
      <4> QED BY <4>1, <1>2, <1>4
    <3>2. j - (i - 1) \in 1 .. Len(s) - i
      BY <2>2, <1>1
    <3>3. b[j - (i - 1)] = s[i + (j - (i - 1))]
      BY <3>2, <1>3
    <3>4. i + (j - (i - 1)) = j + 1
      BY <1>1
    <3> QED BY <2>2, <3>1, <3>3, <3>4
  <2> QED BY <2>1, <2>2
<1>7. Len(a) + Len(b) = Len(s) - 1
  BY <1>1, <1>2, <1>3
<1> QED BY <1>4, <1>5, <1>6, <1>7

\* The oldest version in use is one of the versions and not above any.
LEMMA MinVersionLeast ==
    ASSUME NEW ver \in Nat, NEW s \in Seq(Nat)
    PROVE  /\ MinVersion(ver, s) \in {ver} \cup {s[i] : i \in DOMAIN s}
           /\ MinVersion(ver, s) \in Nat
           /\ MinVersion(ver, s) <= ver
           /\ \A i \in DOMAIN s : MinVersion(ver, s) <= s[i]
<1> DEFINE S == {ver} \cup {s[i] : i \in DOMAIN s}
<1>1. S \in SUBSET Nat /\ S # {}
  BY LenProperties, ElementOfSeq
<1>2. PICK n \in S : \A m \in S : n <= m
  BY <1>1, LeastNat, Zenon
<1>3. n <= ver /\ \A i \in DOMAIN s : n <= s[i]
  BY <1>2
<1>4. MinVersion(ver, s) = CHOOSE v \in S : v <= ver /\ \A i \in DOMAIN s : v <= s[i]
  BY DEF MinVersion
<1>5. /\ MinVersion(ver, s) \in S
      /\ MinVersion(ver, s) <= ver
      /\ \A i \in DOMAIN s : MinVersion(ver, s) <= s[i]
  BY <1>3, <1>4, Zenon
<1> QED BY <1>1, <1>5

Entries == [version: Nat, writes: SUBSET Keys]

\* Trimming keeps a suffix of history: from the first entry newer than min.
LEMMA TrimIndexFound ==
    ASSUME NEW h \in Seq(Entries), NEW min \in Nat
    PROVE  /\ TrimIndex(h, min) \in 1 .. Len(h) + 1
           /\ \A j \in 1 .. TrimIndex(h, min) - 1 : h[j].version <= min
           /\ TrimIndex(h, min) <= Len(h) => min < h[TrimIndex(h, min)].version
<1> DEFINE P(i) == /\ \A j \in 1 .. i - 1 : ~versionBefore(min, h[j].version)
                   /\ i <= Len(h) => versionBefore(min, h[i].version)
           S == {i \in 1 .. Len(h) + 1 : i <= Len(h) => min < h[i].version}
<1>0. Len(h) \in Nat /\ \A i \in 1 .. Len(h) : h[i].version \in Nat
  <2>1. Len(h) \in Nat /\ h \in [1 .. Len(h) -> Entries]
    BY LenProperties
  <2> QED BY <2>1 DEF Entries
<1>1. S \in SUBSET Nat /\ Len(h) + 1 \in S
  BY <1>0
<1>2. PICK n \in S : \A m \in S : n <= m
  BY <1>1, LeastNat, Zenon
<1>3. n \in 1 .. Len(h) + 1 /\ P(n)
  BY <1>0, <1>2 DEF versionBefore
<1>4. TrimIndex(h, min) \in 1 .. Len(h) + 1 /\ P(TrimIndex(h, min))
  <2> HIDE DEF P
  <2>1. TrimIndex(h, min) = CHOOSE i \in 1 .. Len(h) + 1 : P(i)
    BY DEF TrimIndex, P
  <2> QED BY <1>3, <2>1, Zenon
<1> QED BY <1>0, <1>4 DEF versionBefore

-----------------------------------------------------------------------------
(* KV.ongoing and its owners.                                              *)

\* Begin appends the version of one more transaction.
LEMMA OwnedAppend ==
    ASSUME NEW s \in Seq(Nat), NEW A, NEW base, NEW new, NEW t, NEW v \in Nat,
           t \notin A, Owned(s, A, base), new[t] = v, \A u \in A : new[u] = base[u]
    PROVE  Owned(Append(s, v), A \cup {t}, new)
<1> DEFINE n == Len(s)  s2 == Append(s, v)
<1>1. PICK pos \in Bijection(A, DOMAIN s) : \A u \in A : s[pos[u]] = base[u]
  BY DEF Owned
<1>2. n \in Nat /\ DOMAIN s = 1 .. n /\ DOMAIN s2 = 1 .. n + 1
  BY LenProperties, AppendProperties
<1>3. (\A i \in 1 .. n : s2[i] = s[i]) /\ s2[n + 1] = v
  BY AppendProperties
<1>4. /\ pos \in [A -> 1 .. n]
      /\ \A a, b \in A : pos[a] = pos[b] => a = b
      /\ \A i \in 1 .. n : \E a \in A : pos[a] = i
  BY <1>1, <1>2 DEF Bijection, Injection, Surjection, IsInjective
<1> DEFINE p2 == [u \in A \cup {t} |-> IF u = t THEN n + 1 ELSE pos[u]]
<1> HIDE DEF n, s2
<1>5. p2 \in [A \cup {t} -> 1 .. n + 1]
  BY <1>2, <1>4
<1>6. \A a, b \in A \cup {t} : p2[a] = p2[b] => a = b
  BY <1>2, <1>4
<1>7. \A i \in 1 .. n + 1 : \E a \in A \cup {t} : p2[a] = i
  <2> TAKE i \in 1 .. n + 1
  <2>1. CASE i = n + 1
    BY <2>1
  <2>2. CASE i # n + 1
    <3>1. i \in 1 .. n
      BY <2>2, <1>2
    <3>2. PICK a \in A : pos[a] = i
      BY <3>1, <1>4
    <3> QED BY <3>2
  <2> QED BY <2>1, <2>2
<1>8. p2 \in Bijection(A \cup {t}, DOMAIN s2)
  BY <1>2, <1>5, <1>6, <1>7 DEF Bijection, Injection, Surjection, IsInjective
<1>9. \A u \in A \cup {t} : s2[p2[u]] = new[u]
  <2> TAKE u \in A \cup {t}
  <2>1. CASE u = t
    BY <2>1, <1>3
  <2>2. CASE u # t
    BY <2>2, <1>1, <1>3, <1>4
  <2> QED BY <2>1, <2>2
<1> QED BY <1>8, <1>9 DEF Owned, s2

\* txFinalize removes the first entry equal to the version of t.  It may be
\* the entry of another transaction u, which then takes over the entry of t.
LEMMA OwnedRemove ==
    ASSUME NEW s \in Seq(Nat), NEW A, NEW base, NEW new, NEW t \in A, Owned(s, A, base),
           \A u \in A \ {t} : new[u] = base[u]
    PROVE  /\ FirstIndex(s, base[t]) \in 1 .. Len(s)
           /\ Owned(RemoveAt(s, FirstIndex(s, base[t])), A \ {t}, new)
<1> DEFINE n == Len(s)  f == FirstIndex(s, base[t])  s2 == RemoveAt(s, f)
<1>1. PICK pos \in Bijection(A, DOMAIN s) : \A u \in A : s[pos[u]] = base[u]
  BY DEF Owned
<1>2. n \in Nat /\ DOMAIN s = 1 .. n
  BY LenProperties
<1>3. /\ pos \in [A -> 1 .. n]
      /\ \A a, b \in A : pos[a] = pos[b] => a = b
      /\ \A i \in 1 .. n : \E a \in A : pos[a] = i
  BY <1>1, <1>2 DEF Bijection, Injection, Surjection, IsInjective
<1>4. f \in 1 .. n /\ s[f] = base[t]
  <2>1. pos[t] \in DOMAIN s /\ s[pos[t]] = base[t]
    BY <1>1, <1>2, <1>3
  <2>2. \E i \in DOMAIN s : s[i] = base[t]
    BY <2>1
  <2> QED BY <2>2, FirstIndexFound
<1>5. s2 \in Seq(Nat) /\ Len(s2) = n - 1
      /\ \A j \in 1 .. n - 1 : s2[j] = IF j < f THEN s[j] ELSE s[j + 1]
  BY <1>4, RemoveAtProperties
<1>6. DOMAIN s2 = 1 .. n - 1
  BY <1>5, LenProperties
<1> DEFINE q(u) == IF pos[u] = f THEN pos[t] ELSE pos[u]
           p2 == [u \in A \ {t} |-> IF q(u) < f THEN q(u) ELSE q(u) - 1]
<1> HIDE DEF n, s2, f
<1>7. \A u \in A \ {t} : q(u) \in 1 .. n /\ q(u) # f /\ s[q(u)] = base[u]
  BY <1>1, <1>3, <1>4
<1>8. \A a, b \in A \ {t} : q(a) = q(b) => a = b
  BY <1>3
<1>9. p2 \in [A \ {t} -> 1 .. n - 1]
  <2> HIDE DEF q
  <2> QED BY <1>2, <1>4, <1>7
<1>10. \A a, b \in A \ {t} : p2[a] = p2[b] => a = b
  <2> HIDE DEF q
  <2> QED BY <1>2, <1>4, <1>7, <1>8
<1>11. \A i \in 1 .. n - 1 : \E a \in A \ {t} : p2[a] = i
  <2> TAKE i \in 1 .. n - 1
  <2> DEFINE k == IF i < f THEN i ELSE i + 1
  <2>1. k \in 1 .. n /\ k # f
    BY <1>2, <1>4
  <2>2. PICK a \in A \ {t} : q(a) = k
    <3>1. CASE k = pos[t]
      <4>1. PICK b \in A : pos[b] = f
        BY <1>3, <1>4
      <4>2. b # t /\ q(b) = k
        BY <3>1, <4>1, <2>1
      <4> QED BY <4>2
    <3>2. CASE k # pos[t]
      <4>1. PICK b \in A : pos[b] = k
        BY <1>3, <2>1
      <4>2. b # t /\ q(b) = k
        BY <3>2, <4>1, <2>1
      <4> QED BY <4>2
    <3> QED BY <3>1, <3>2
  <2>3. p2[a] = i
    <3> HIDE DEF q
    <3> QED BY <2>1, <2>2, <1>2, <1>4
  <2> QED BY <2>3
<1>12. p2 \in Bijection(A \ {t}, DOMAIN s2)
  <2> HIDE DEF p2
  <2> QED BY <1>6, <1>9, <1>10, <1>11 DEF Bijection, Injection, Surjection, IsInjective
<1>13. \A u \in A \ {t} : s2[p2[u]] = new[u]
  <2> TAKE u \in A \ {t}
  <2>1. p2[u] \in 1 .. n - 1 /\ p2[u] = IF q(u) < f THEN q(u) ELSE q(u) - 1
    BY <1>9
  <2> HIDE DEF q, p2
  <2>2. CASE q(u) < f
    <3>1. s2[p2[u]] = s[q(u)]
      BY <2>1, <2>2, <1>5
    <3> QED BY <3>1, <1>7
  <2>3. CASE ~(q(u) < f)
    <3>1. p2[u] = q(u) - 1 /\ ~(p2[u] < f) /\ p2[u] + 1 = q(u)
      BY <2>1, <2>3, <1>2, <1>4, <1>7
    <3>2. s2[p2[u]] = s[p2[u] + 1]
      BY <2>1, <3>1, <1>5
    <3> QED BY <3>1, <3>2, <1>7
  <2> QED BY <2>2, <2>3
<1> QED BY <1>4, <1>12, <1>13 DEF Owned, s2, f, n

\* Every open transaction is in KV.ongoing, and every entry is one of them.
LEMMA OwnedMembers ==
    ASSUME NEW s \in Seq(Nat), NEW A, NEW base, Owned(s, A, base)
    PROVE  /\ \A t \in A : \E i \in 1 .. Len(s) : s[i] = base[t]
           /\ \A i \in 1 .. Len(s) : \E t \in A : s[i] = base[t]
           /\ \A t, u \in A : t # u => Len(s) > 1
<1>1. PICK pos \in Bijection(A, DOMAIN s) : \A u \in A : s[pos[u]] = base[u]
  BY DEF Owned
<1>2. Len(s) \in Nat /\ DOMAIN s = 1 .. Len(s)
  BY LenProperties
<1>3. /\ pos \in [A -> 1 .. Len(s)]
      /\ \A a, b \in A : pos[a] = pos[b] => a = b
      /\ \A i \in 1 .. Len(s) : \E a \in A : pos[a] = i
  BY <1>1, <1>2 DEF Bijection, Injection, Surjection, IsInjective
<1>4. \A t \in A : pos[t] \in 1 .. Len(s) /\ s[pos[t]] = base[t]
  BY <1>1, <1>3
<1>5. \A i \in 1 .. Len(s) : \E t \in A : s[i] = base[t]
  BY <1>3, <1>4
<1>6. ASSUME NEW t \in A, NEW u \in A, t # u PROVE Len(s) > 1
  BY <1>2, <1>3, <1>6
<1> QED BY <1>4, <1>5, <1>6

-----------------------------------------------------------------------------
(* The end of a transaction.                                               *)

\* Entries in ascending order of version, none above ver.
Ascending(h, ver) ==
    /\ \A i \in DOMAIN h : h[i].version <= ver
    /\ \A i, j \in DOMAIN h : i < j => h[i].version < h[j].version

\* g holds exactly the entries of h that are newer than low.
Trimmed(h, g, low, ver) ==
    /\ g \in Seq(Entries)
    /\ Ascending(g, ver)
    /\ \A j \in DOMAIN g : low < g[j].version
    /\ \A i \in DOMAIN h : low < h[i].version => \E j \in DOMAIN g : g[j] = h[i]

\* Trimming an ascending history keeps exactly the entries newer than low.
LEMMA TrimKeeps ==
    ASSUME NEW h \in Seq(Entries), NEW low \in Nat, NEW ver \in Nat, Ascending(h, ver),
           NEW g, g = SubSeq(h, TrimIndex(h, low), Len(h))
    PROVE  Trimmed(h, g, low, ver)
<1> DEFINE x == TrimIndex(h, low)  n == Len(h)
<1>1. /\ n \in Nat /\ DOMAIN h = 1 .. n
      /\ \A i \in 1 .. n : h[i] \in Entries /\ h[i].version \in Nat
  <2>1. n \in Nat /\ DOMAIN h = 1 .. n /\ h \in [1 .. n -> Entries]
    BY LenProperties
  <2> QED BY <2>1 DEF Entries
<1>2. /\ x \in 1 .. n + 1
      /\ \A j \in 1 .. x - 1 : h[j].version <= low
      /\ x <= n => low < h[x].version
  BY TrimIndexFound
<1> HIDE DEF x
<1>3. /\ g \in Seq(Entries)
      /\ Len(g) = n - x + 1
      /\ \A j \in 1 .. n - x + 1 : g[j] = h[x + j - 1]
  <2>1. x \in Int /\ n \in Int /\ \A i \in x .. n : h[i] \in Entries
    BY <1>1, <1>2
  <2>2. /\ SubSeq(h, x, n) \in Seq(Entries)
        /\ Len(SubSeq(h, x, n)) = IF x <= n THEN n - x + 1 ELSE 0
        /\ \A i \in 1 .. n - x + 1 : SubSeq(h, x, n)[i] = h[x + i - 1]
    BY <2>1, SubSeqProperties, SMTT(30)
  <2>3. g = SubSeq(h, x, n)
    BY DEF x
  <2> QED BY <1>1, <1>2, <2>2, <2>3
<1>4. DOMAIN g = 1 .. n - x + 1
  BY <1>3, LenProperties
<1> HIDE DEF n
<1>5. \A j \in 1 .. n - x + 1 : x + j - 1 \in 1 .. n /\ g[j] = h[x + j - 1]
  BY <1>1, <1>2, <1>3, SMTT(30)
<1>6. Ascending(g, ver)
  <2>1. \A j \in DOMAIN g : g[j].version <= ver
    BY <1>1, <1>4, <1>5 DEF Ascending
  <2>2. ASSUME NEW i \in DOMAIN g, NEW j \in DOMAIN g, i < j
        PROVE  g[i].version < g[j].version
    <3>1. x + i - 1 < x + j - 1
      BY <1>2, <1>4, <2>2
    <3> QED BY <1>1, <1>4, <1>5, <2>2, <3>1 DEF Ascending
  <2> QED BY <2>1, <2>2 DEF Ascending
<1>7. ASSUME NEW j \in DOMAIN g PROVE low < g[j].version
  <2>0. j \in 1 .. n - x + 1
    BY <1>4
  <2>1. x + j - 1 \in 1 .. n /\ g[j] = h[x + j - 1] /\ x <= n /\ j \in Nat
    <3>1. x <= n /\ j \in Nat
      BY <2>0, <1>1, <1>2
    <3> QED BY <2>0, <3>1, <1>5
  <2>2. CASE j = 1
    <3>1. x + j - 1 = x
      BY <1>2, <2>2
    <3> QED BY <1>2, <2>1, <3>1
  <2>3. CASE j # 1
    <3>1. x < x + j - 1
      BY <1>2, <1>4, <2>1, <2>3
    <3>2. h[x].version < h[x + j - 1].version
      <4>1. x \in DOMAIN h /\ x + j - 1 \in DOMAIN h
        BY <1>1, <1>2, <2>1
      <4> QED BY <3>1, <4>1 DEF Ascending
    <3>3. h[x].version \in Nat /\ h[x + j - 1].version \in Nat
      BY <1>1, <1>2, <2>1
    <3>4. low < h[x].version
      BY <1>2, <2>1
    <3>5. low < h[x + j - 1].version
      BY <3>2, <3>3, <3>4
    <3> QED BY <2>1, <3>5
  <2> QED BY <2>2, <2>3
<1>8. ASSUME NEW i \in DOMAIN h, low < h[i].version
      PROVE  \E j \in DOMAIN g : g[j] = h[i]
  <2>1. i >= x
    BY <1>1, <1>2, <1>8
  <2>2. i - x + 1 \in 1 .. n - x + 1 /\ x + (i - x + 1) - 1 = i
    BY <1>1, <1>2, <2>1
  <2>3. g[i - x + 1] = h[i]
    BY <1>5, <2>2
  <2> QED BY <1>4, <2>2, <2>3
<1> QED BY <1>3, <1>6, <1>7, <1>8 DEF Trimmed

\* A commit appends one entry of the new version.
LEMMA AppendAscending ==
    ASSUME NEW h \in Seq(Entries), NEW ver \in Nat, Ascending(h, ver),
           NEW e \in Entries, e.version = ver + 1
    PROVE  Append(h, e) \in Seq(Entries) /\ Ascending(Append(h, e), ver + 1)
<1> DEFINE n == Len(h)  g == Append(h, e)
<1>1. n \in Nat /\ DOMAIN h = 1 .. n /\ h \in [1 .. n -> Entries]
  BY LenProperties
<1>2. /\ g \in Seq(Entries) /\ Len(g) = n + 1
      /\ \A i \in 1 .. n : g[i] = h[i]
      /\ g[n + 1] = e
  BY AppendProperties
<1>3. DOMAIN g = 1 .. n + 1
  BY <1>2, LenProperties
<1> HIDE DEF n, g
<1>4. \A i \in 1 .. n : h[i].version \in Nat /\ h[i].version <= ver
  BY <1>1 DEF Ascending, Entries
<1>5. \A i \in DOMAIN g : g[i].version <= ver + 1
  BY <1>1, <1>2, <1>3, <1>4
<1>6. \A i, j \in DOMAIN g : i < j => g[i].version < g[j].version
  <2> TAKE i, j \in DOMAIN g
  <2> HAVE i < j
  <2>1. i \in 1 .. n
    BY <1>1, <1>3
  <2>2. CASE j = n + 1
    BY <2>1, <2>2, <1>2, <1>4
  <2>3. CASE j # n + 1
    BY <2>1, <2>3, <1>1, <1>2, <1>3 DEF Ascending
  <2> QED BY <2>2, <2>3
<1> QED BY <1>2, <1>5, <1>6 DEF Ascending, g

\* In an ascending history the entries detectConflicts looks at are all the
\* ones newer than the transaction.
LEMMA NewerAll ==
    ASSUME TypeOK, HistoryAscending, NEW t \in Tx
    PROVE  Newer(t) = {i \in DOMAIN history : tx[t].version < history[i].version}
<1>1. /\ Len(history) \in Nat /\ DOMAIN history = 1 .. Len(history)
      /\ history \in [1 .. Len(history) -> Entries]
  BY LenProperties DEF TypeOK, Entries
<1>2. \A i \in DOMAIN history : history[i].version \in Nat
  BY <1>1 DEF Entries
<1>3. tx[t].version \in Nat
  BY DEF TypeOK, TxRecord
<1>4. ASSUME NEW i \in DOMAIN history, tx[t].version < history[i].version,
             NEW j \in i .. Len(history)
      PROVE  tx[t].version < history[j].version
  <2>1. j \in DOMAIN history
    BY <1>1
  <2>2. i = j \/ history[i].version < history[j].version
    BY <2>1, <1>1 DEF HistoryAscending
  <2> QED BY <2>1, <2>2, <1>2, <1>3, <1>4
<1>5. \A i \in DOMAIN history : i \in i .. Len(history)
  BY <1>1
<1> QED BY <1>4, <1>5 DEF Newer, versionBefore

\* txFinalize keeps the bookkeeping, touches no other transaction, and keeps
\* every history entry that is newer than some transaction still open.
LEMMA FinalizeKeeps ==
    ASSUME BookkeepingInv, NEW t \in Active, NEW outcome \in Outcomes,
           NEW ver \in Nat, version <= ver, version' = ver,
           NEW hist \in Seq(Entries), Ascending(hist, ver),
           store' \in Maps, failed' \in BOOLEAN, unwritten' \in BOOLEAN,
           txFinalize(t, outcome, ver, hist)
    PROVE  /\ BookkeepingInv'
           /\ Active' = Active \ {t}
           /\ tx'[t] = Closed(outcome)
           /\ \A u \in Tx \ {t} : tx'[u] = tx[u]
           /\ \A i \in DOMAIN hist, u \in Active' :
                 tx[u].version < hist[i].version => \E j \in DOMAIN history' : history'[j] = hist[i]
           /\ maxVer <= maxVer'
<1> DEFINE base == [u \in Tx |-> tx[u].version]
           open == RemoveAt(ongoing, FirstIndex(ongoing, tx[t].version))
           min  == MinVersion(ver, open)
<1> USE DEF BookkeepingInv
<1>1. t \in Tx /\ base[t] = tx[t].version /\ \A u \in Tx : base[u] \in Nat
  BY DEF Active, TypeOK, TxRecord
<1>2. /\ ongoing' = open /\ maxVer' = min
      /\ history' = SubSeq(hist, TrimIndex(hist, min), Len(hist))
      /\ tx' = [tx EXCEPT ![t] = Closed(outcome)]
  BY DEF txFinalize
<1>3. Closed(outcome) \in TxRecord
  BY DEF Closed, TxRecord, NotSaved, NoKeys, Maps, Pending
<1>4. /\ tx' \in [Tx -> TxRecord]
      /\ tx'[t] = Closed(outcome)
      /\ \A u \in Tx \ {t} : tx'[u] = tx[u]
  BY <1>1, <1>2, <1>3 DEF TypeOK
<1>5. Active' = Active \ {t}
  <2>1. tx'[t].status # "active"
    BY <1>4 DEF Closed, Outcomes
  <2> QED BY <2>1, <1>1, <1>4 DEF Active
<1> HIDE DEF base
<1>6. ongoing \in Seq(Nat) /\ Owned(ongoing, Active, base)
  BY DEF TypeOK, OngoingMatches, base
<1>7. OngoingMatches' /\ FirstIndex(ongoing, tx[t].version) \in 1 .. Len(ongoing)
  <2> DEFINE new == [u \in Tx |-> tx'[u].version]
  <2>1. \A u \in Active \ {t} : new[u] = base[u]
    BY <1>4 DEF Active, base
  <2> HIDE DEF new
  <2>2. /\ FirstIndex(ongoing, base[t]) \in 1 .. Len(ongoing)
        /\ Owned(RemoveAt(ongoing, FirstIndex(ongoing, base[t])), Active \ {t}, new)
    BY <1>6, <2>1, OwnedRemove
  <2>3. OngoingMatches' = Owned(ongoing', Active', new)
    BY DEF OngoingMatches, new
  <2> QED BY <2>2, <2>3, <1>1, <1>2, <1>5
<1>8. open \in Seq(Nat)
  BY <1>6, <1>7, RemoveAtProperties
<1>9. /\ \A u \in Active' : \E i \in 1 .. Len(open) : open[i] = tx'[u].version
      /\ \A i \in 1 .. Len(open) : \E u \in Active' : open[i] = tx'[u].version
  <2> DEFINE new == [u \in Tx |-> tx'[u].version]
  <2>1. Owned(open, Active', new)
    BY <1>2, <1>7 DEF OngoingMatches
  <2> HIDE DEF new
  <2>2. /\ \A u \in Active' : \E i \in 1 .. Len(open) : open[i] = new[u]
        /\ \A i \in 1 .. Len(open) : \E u \in Active' : open[i] = new[u]
    BY <2>1, <1>8, OwnedMembers
  <2>3. \A u \in Active' : new[u] = tx'[u].version
    BY DEF new, Active
  <2> QED BY <2>2, <2>3
<1>10. DOMAIN open = 1 .. Len(open) /\ Len(open) \in Nat
  BY <1>8, LenProperties
<1> HIDE DEF open
<1>11. /\ min \in {ver} \cup {open[i] : i \in DOMAIN open}
       /\ min \in Nat /\ min <= ver
       /\ \A i \in DOMAIN open : min <= open[i]
  BY <1>8, MinVersionLeast
<1> HIDE DEF min
<1>12. \A u \in Active' : tx'[u] = tx[u] /\ u \in Active /\ tx[u].version \in Nat
  BY <1>1, <1>4, <1>5 DEF Active, base
<1>13. \A u \in Active' : min <= tx'[u].version
  BY <1>9, <1>10, <1>11
<1>14. /\ history' \in Seq(Entries)
       /\ Ascending(history', ver)
       /\ \A j \in DOMAIN history' : min < history'[j].version
       /\ \A i \in DOMAIN hist : min < hist[i].version
             => \E j \in DOMAIN history' : history'[j] = hist[i]
  <2>1. Trimmed(hist, history', min, ver)
    BY <1>2, <1>11, TrimKeeps
  <2> QED BY <2>1 DEF Trimmed
<1>15. TypeOK'
  <2>1. version' \in Nat /\ ongoing' \in Seq(Nat) /\ maxVer' \in Nat
    BY <1>2, <1>8, <1>11
  <2> QED BY <2>1, <1>4, <1>14 DEF TypeOK, Entries
<1>16. VersionsOrdered'
  <2>1. \A u \in Active' : tx'[u].version <= version'
    <3>1. version \in Nat /\ \A u \in Active : tx[u].version <= version
      BY DEF VersionsOrdered, TypeOK
    <3> QED BY <3>1, <1>12
  <2> QED BY <1>2, <1>11, <1>13, <2>1 DEF VersionsOrdered
<1>17. HistoryAscending'
  BY <1>14 DEF HistoryAscending, Ascending
<1>18. HistoryNeeded'
  <2> SUFFICES ASSUME NEW j \in DOMAIN history'
               PROVE  \E u \in Active' : tx'[u].version < history'[j].version
    BY DEF HistoryNeeded
  <2>1. min < history'[j].version /\ history'[j].version <= ver
    BY <1>14 DEF Ascending
  <2>2. history'[j].version \in Nat
    <3>1. history'[j] \in Entries
      BY <1>14, LenProperties
    <3> QED BY <3>1 DEF Entries
  <2>3. min # ver
    BY <2>1, <2>2
  <2>4. PICK i \in DOMAIN open : min = open[i]
    BY <1>11, <2>3
  <2>5. PICK u \in Active' : open[i] = tx'[u].version
    BY <1>9, <1>10
  <2> QED BY <2>1, <2>4, <2>5
<1>19. ASSUME NEW i \in DOMAIN hist, NEW u \in Active', tx[u].version < hist[i].version
       PROVE  \E j \in DOMAIN history' : history'[j] = hist[i]
  <2>1. hist[i].version \in Nat
    <3>1. hist[i] \in Entries
      BY LenProperties
    <3> QED BY <3>1 DEF Entries
  <2>2. min < hist[i].version
    BY <2>1, <1>11, <1>12, <1>13, <1>19
  <2> QED BY <2>2, <1>14
<1>20. maxVer <= min
  <2>1. maxVer \in Nat /\ maxVer <= version /\ version \in Nat
    BY DEF TypeOK, VersionsOrdered
  <2>2. \A u \in Active' : maxVer <= tx'[u].version
    BY <1>12 DEF VersionsOrdered
  <2>3. CASE min = ver
    BY <2>1, <2>3
  <2>4. CASE min # ver
    <3>1. PICK i \in DOMAIN open : min = open[i]
      BY <1>11, <2>4
    <3> QED BY <3>1, <2>2, <1>9, <1>10
  <2> QED BY <2>3, <2>4
<1> QED BY <1>2, <1>4, <1>5, <1>7, <1>15, <1>16, <1>17, <1>18, <1>19, <1>20

\* A step of a statement concerns its own transaction only.
Local == /\ UNCHANGED kvVars
         /\ tx' \in [Tx -> TxRecord]
         /\ \A u \in Tx : /\ tx'[u].status = tx[u].status
                          /\ tx'[u].version = tx[u].version
                          /\ tx'[u].snapshot = tx[u].snapshot

LEMMA LocalKeeps ==
    ASSUME BookkeepingInv, Local
    PROVE  /\ BookkeepingInv'
           /\ Active' = Active
           /\ HistoryCovers => HistoryCovers'
<1> USE DEF Local, kvVars
<1>1. Active' = Active /\ Active \subseteq Tx
  BY DEF Active
<1>2. TypeOK'
  BY DEF BookkeepingInv, TypeOK
<1>3. [u \in Tx |-> tx[u].version]' = [u \in Tx |-> tx[u].version]
  BY Zenon
<1>4. OngoingMatches'
  BY <1>1, <1>3 DEF BookkeepingInv, OngoingMatches
<1>5. VersionsOrdered' /\ HistoryAscending' /\ HistoryNeeded'
  BY <1>1 DEF BookkeepingInv, VersionsOrdered, HistoryAscending, HistoryNeeded
<1>6. \A t \in Active : Newer(t)' = Newer(t)
  BY <1>1 DEF Newer, versionBefore
<1>7. ASSUME HistoryCovers PROVE HistoryCovers'
  BY <1>1, <1>6, <1>7 DEF HistoryCovers
<1> QED BY <1>1, <1>2, <1>4, <1>5, <1>7 DEF BookkeepingInv

-----------------------------------------------------------------------------
(* Every step keeps the bookkeeping, whatever fails.                       *)

LEMMA InitBookkeeping == Init => BookkeepingInv
<1> SUFFICES ASSUME Init PROVE BookkeepingInv
  OBVIOUS
<1>1. Closed("idle") \in TxRecord
  BY DEF Closed, TxRecord, NotSaved, NoKeys, Maps, Pending, Outcomes
<1>2. TypeOK
  <2>1. ongoing \in Seq(Nat) /\ history \in Seq([version: Nat, writes: SUBSET Keys])
    BY EmptySeq DEF Init
  <2>2. tx \in [Tx -> TxRecord]
    BY <1>1 DEF Init
  <2>3. store \in Maps /\ version \in Nat /\ maxVer \in Nat
    BY DEF Init
  <2>4. failed \in BOOLEAN /\ unwritten \in BOOLEAN
    BY DEF Init
  <2> QED BY <2>1, <2>2, <2>3, <2>4 DEF TypeOK
<1>3. Active = {}
  BY DEF Init, Active, Closed
<1>4. OngoingMatches
  <2> DEFINE pos == [x \in {} |-> 0]
  <2>1. ongoing = << >> /\ DOMAIN ongoing = {}
    BY DEF Init
  <2>2. pos \in Bijection({}, {})
    BY DEF Bijection, Injection, Surjection, IsInjective
  <2> QED BY <1>3, <2>1, <2>2 DEF OngoingMatches, Owned
<1>5. VersionsOrdered /\ HistoryAscending /\ HistoryNeeded
  BY <1>3 DEF Init, VersionsOrdered, HistoryAscending, HistoryNeeded
<1> QED BY <1>2, <1>4, <1>5 DEF BookkeepingInv

LEMMA BeginKeeps ==
    ASSUME BookkeepingInv, NEW t \in Tx, Begin(t)
    PROVE  /\ BookkeepingInv'
           /\ t \notin Active /\ Active' = Active \cup {t}
           /\ \A u \in Tx \ {t} : tx'[u] = tx[u]
           /\ \E snap \in Maps : tx'[t] = Opened(snap) /\ (~unwritten => snap = store)
<1> USE DEF BookkeepingInv
<1>1. t \notin Active /\ Running
  BY DEF Begin
<1>2. PICK snap \in (IF unwritten THEN Maps ELSE {store}) :
          tx' = [tx EXCEPT ![t] = Opened(snap)]
  BY DEF Begin
<1>3. snap \in Maps /\ (~unwritten => snap = store)
  BY <1>2 DEF TypeOK
<1>4. /\ Opened(snap) \in TxRecord
      /\ Opened(snap).status = "active"
      /\ Opened(snap).version = version
      /\ Opened(snap).snapshot = snap
  BY <1>3 DEF Opened, Closed, TxRecord, NotSaved, NoKeys, Maps, Pending, TypeOK
<1>5. /\ tx' \in [Tx -> TxRecord] /\ tx'[t] = Opened(snap)
      /\ \A u \in Tx \ {t} : tx'[u] = tx[u]
  BY <1>2, <1>4 DEF TypeOK
<1>6. /\ ongoing' = Append(ongoing, version)
      /\ UNCHANGED <<store, version, history, maxVer, failed, unwritten>>
  BY DEF Begin
<1>7. Active' = Active \cup {t}
  BY <1>4, <1>5 DEF Active
<1>8. TypeOK'
  <2>1. ongoing' \in Seq(Nat)
    BY <1>6 DEF TypeOK
  <2> QED BY <1>5, <1>6, <2>1 DEF TypeOK
<1>9. OngoingMatches'
  <2> DEFINE base == [u \in Tx |-> tx[u].version]
             new == [u \in Tx |-> tx'[u].version]
  <2>1. new[t] = version /\ \A u \in Active : new[u] = base[u]
    BY <1>1, <1>4, <1>5 DEF Active
  <2>2. ongoing \in Seq(Nat) /\ version \in Nat /\ Owned(ongoing, Active, base)
    BY DEF TypeOK, OngoingMatches
  <2> HIDE DEF base, new
  <2>3. Owned(Append(ongoing, version), Active \cup {t}, new)
    BY <1>1, <2>1, <2>2, OwnedAppend
  <2> QED BY <1>6, <1>7, <2>3 DEF OngoingMatches, new
<1>10. VersionsOrdered'
  <2> SUFFICES ASSUME NEW u \in Active'
               PROVE  maxVer <= tx'[u].version /\ tx'[u].version <= version
    BY <1>6 DEF VersionsOrdered
  <2>1. CASE u = t
    BY <1>4, <1>5, <2>1 DEF VersionsOrdered, TypeOK
  <2>2. CASE u # t
    BY <1>5, <1>7, <2>2 DEF VersionsOrdered, Active
  <2> QED BY <2>1, <2>2
<1>11. HistoryAscending'
  BY <1>6 DEF HistoryAscending
<1>12. HistoryNeeded'
  <2>1. \A u \in Active : u \in Active' /\ tx'[u] = tx[u]
    BY <1>1, <1>5, <1>7 DEF Active
  <2> QED BY <1>6, <2>1 DEF HistoryNeeded
<1> QED BY <1>1, <1>3, <1>5, <1>7, <1>8, <1>9, <1>10, <1>11, <1>12

\* The operations of a statement, and what they leave of other transactions.
StmtStep(t) ==
    \/ Save(t) \/ EndStmt(t) \/ Revert(t)
    \/ \E k \in Keys : Get(t, k) \/ Del(t, k)
    \/ \E low, high \in Keys : Seek(t, low, high)
    \/ \E k \in Keys, v \in Vals, mode \in {"UPSERT", "UPDATE_ONLY", "INSERT_ONLY"} :
            Update(t, k, v, mode)

LEMMA StmtLocal ==
    ASSUME TypeOK, NEW t \in Tx, StmtStep(t)
    PROVE  Local /\ t \in Active /\ \A u \in Tx \ {t} : tx'[u] = tx[u]
<1> DEFINE Goal == Local /\ t \in Active /\ \A u \in Tx \ {t} : tx'[u] = tx[u]
<1>1. /\ tx \in [Tx -> TxRecord] /\ tx[t] \in TxRecord
  BY DEF TypeOK
<1>2. ASSUME Save(t) PROVE Goal
  BY <1>1, <1>2 DEF Save, Local, TxRecord
<1>3. ASSUME EndStmt(t) PROVE Goal
  BY <1>1, <1>3 DEF EndStmt, InStmt, Local, TxRecord, NotSaved, NoKeys, Pending
<1>4. ASSUME Revert(t) PROVE Goal
  BY <1>1, <1>4 DEF Revert, Local, TxRecord, NotSaved, NoKeys, Pending
<1>5. ASSUME NEW k \in Keys, Get(t, k) PROVE Goal
  BY <1>1, <1>5 DEF Get, InStmt, Local, TxRecord
<1>6. ASSUME NEW k \in Keys, Del(t, k) PROVE Goal
  <2> DEFINE w == IF GetVal(t, k) = NONE THEN tx[t].pending[k] ELSE DELETED
             r == [tx[t] EXCEPT !.updateAttempted = TRUE, !.reads = @ \cup {k},
                                !.pending = [tx[t].pending EXCEPT ![k] = w]]
  <2>1. w \in Vals \cup {NONE, DELETED}
    BY <1>1 DEF TxRecord, Pending
  <2>2. tx' = [tx EXCEPT ![t] = r]
    BY <1>1, <1>6 DEF Del
  <2> HIDE DEF w
  <2>3. /\ r \in TxRecord /\ r.status = tx[t].status /\ r.version = tx[t].version
        /\ r.snapshot = tx[t].snapshot
    BY <1>1, <2>1 DEF TxRecord, Pending
  <2> HIDE DEF r
  <2>4. t \in Active /\ UNCHANGED kvVars
    BY <1>6 DEF Del, InStmt
  <2> QED BY <1>1, <2>2, <2>3, <2>4 DEF Local
<1>7. ASSUME NEW low \in Keys, NEW high \in Keys, Seek(t, low, high) PROVE Goal
  BY <1>1, <1>7 DEF Seek, InStmt, Local, TxRecord
<1>8. ASSUME NEW k \in Keys, NEW v \in Vals,
             NEW mode \in {"UPSERT", "UPDATE_ONLY", "INSERT_ONLY"}, Update(t, k, v, mode)
      PROVE  Goal
  <2> DEFINE old  == GetVal(t, k)
             dup  == mode = "INSERT_ONLY" /\ old # NONE
             noop == (mode = "UPDATE_ONLY" /\ old = NONE) \/ old = v
             w == IF dup \/ noop THEN tx[t].pending[k] ELSE v
             e == IF dup THEN "error" ELSE tx[t].stmt
             r == [tx[t] EXCEPT !.updateAttempted = TRUE, !.reads = @ \cup {k}, !.stmt = e,
                                !.pending = [tx[t].pending EXCEPT ![k] = w]]
  <2>1. w \in Vals \cup {NONE, DELETED} /\ e \in {"none", "open", "error"}
    BY <1>1 DEF TxRecord, Pending
  <2>2. tx' = [tx EXCEPT ![t] = r]
    BY <1>1, <1>8, ZenonT(60) DEF Update
  <2> HIDE DEF w, e
  <2>3. /\ r \in TxRecord /\ r.status = tx[t].status /\ r.version = tx[t].version
        /\ r.snapshot = tx[t].snapshot
    BY <1>1, <2>1 DEF TxRecord, Pending
  <2> HIDE DEF r
  <2>4. t \in Active /\ UNCHANGED kvVars
    BY <1>8 DEF Update, InStmt
  <2> QED BY <1>1, <2>2, <2>3, <2>4 DEF Local
<1> QED BY <1>2, <1>3, <1>4, <1>5, <1>6, <1>7, <1>8 DEF StmtStep

\* The history that Commit hands to txFinalize.
CommitHistory(t) ==
    IF Writes(t) = {} THEN history
    ELSE Append(history, [version |-> version + 1, writes |-> Writes(t)])

LEMMA CommitHistoryAscending ==
    ASSUME BookkeepingInv, NEW t \in Tx
    PROVE  /\ history \in Seq(Entries) /\ Ascending(history, version)
           /\ Ascending(history, version + 1)
           /\ CommitHistory(t) \in Seq(Entries) /\ Ascending(CommitHistory(t), version + 1)
<1>1. version \in Nat /\ history \in Seq(Entries)
  BY DEF BookkeepingInv, TypeOK, Entries
<1>2. Ascending(history, version)
  BY DEF BookkeepingInv, HistoryAscending, Ascending
<1>3. Ascending(history, version + 1)
  <2>1. history \in [1 .. Len(history) -> Entries] /\ DOMAIN history = 1 .. Len(history)
    BY <1>1, LenProperties
  <2>2. \A i \in DOMAIN history : history[i].version \in Nat
    BY <2>1 DEF Entries
  <2> QED BY <1>1, <1>2, <2>2 DEF Ascending
<1>4. [version |-> version + 1, writes |-> Writes(t)] \in Entries
  BY <1>1 DEF Entries, Writes, Modified
<1>5. /\ Append(history, [version |-> version + 1, writes |-> Writes(t)]) \in Seq(Entries)
      /\ Ascending(Append(history, [version |-> version + 1, writes |-> Writes(t)]), version + 1)
  BY <1>1, <1>2, <1>4, AppendAscending
<1> QED BY <1>1, <1>2, <1>3, <1>5 DEF CommitHistory

\* Every way a transaction ends is a txFinalize with a version that is not
\* older and an ascending history.
LEMMA EndIsFinalize ==
    ASSUME BookkeepingInv, NEW t \in Tx, Commit(t) \/ Abort(t)
    PROVE  \E outcome \in Outcomes, ver \in Nat, hist \in Seq(Entries) :
              /\ t \in Active
              /\ version <= ver /\ version' = ver /\ Ascending(hist, ver)
              /\ store' \in Maps /\ failed' \in BOOLEAN /\ unwritten' \in BOOLEAN
              /\ txFinalize(t, outcome, ver, hist)
<1> DEFINE Goal(outcome, ver, hist) ==
              /\ t \in Active
              /\ version <= ver /\ version' = ver /\ Ascending(hist, ver)
              /\ store' \in Maps /\ failed' \in BOOLEAN /\ unwritten' \in BOOLEAN
              /\ txFinalize(t, outcome, ver, hist)
<1>1. /\ version \in Nat /\ version + 1 \in Nat /\ version <= version /\ version <= version + 1
      /\ store \in Maps /\ failed \in BOOLEAN /\ unwritten \in BOOLEAN
  BY DEF BookkeepingInv, TypeOK
<1>2. Transfer(t) \in Maps
  <2>1. \A k \in Keys : store[k] \in Vals \cup {NONE}
                       /\ tx[t].pending[k] \in Vals \cup {NONE, DELETED}
    BY DEF BookkeepingInv, TypeOK, TxRecord, Maps, Pending
  <2> QED BY <2>1 DEF Transfer, Maps
<1>3. /\ history \in Seq(Entries) /\ Ascending(history, version)
      /\ Ascending(history, version + 1)
      /\ CommitHistory(t) \in Seq(Entries) /\ Ascending(CommitHistory(t), version + 1)
  BY CommitHistoryAscending
<1>4. {"committed", "conflict", "error", "aborted", "panic"} \subseteq Outcomes
  BY DEF Outcomes
<1> HIDE DEF Goal
<1>5. ASSUME CommitConflict(t) PROVE Goal("conflict", version, history)
  BY <1>1, <1>3, <1>5 DEF CommitConflict, InCommit, Goal
<1>6. ASSUME CommitPanic(t) PROVE Goal("panic", version, history)
  BY <1>1, <1>3, <1>6 DEF CommitPanic, InCommit, Goal
<1>7. ASSUME CommitNoChange(t) PROVE Goal("committed", version, history)
  BY <1>1, <1>3, <1>7 DEF CommitNoChange, InCommit, Goal
<1>8. ASSUME CommitOk(t) PROVE Goal("committed", version + 1, CommitHistory(t))
  BY <1>1, <1>2, <1>3, <1>8 DEF CommitOk, CommitHistory, Writing, InCommit, Goal
<1>9. ASSUME CommitUpdateError(t) PROVE Goal("error", version, history)
  BY <1>1, <1>3, <1>9 DEF CommitUpdateError, Writing, InCommit, Goal
<1>10. ASSUME CommitRewriteError(t) PROVE Goal("error", version + 1, history)
  BY <1>1, <1>2, <1>3, <1>10 DEF CommitRewriteError, Writing, InCommit, Goal
<1>11. ASSUME Abort(t) PROVE Goal("aborted", version, history)
  BY <1>1, <1>3, <1>11 DEF Abort, InCommit, Goal
<1>12. \E outcome \in Outcomes, ver \in Nat, hist \in Seq(Entries) : Goal(outcome, ver, hist)
  BY <1>1, <1>3, <1>4, <1>5, <1>6, <1>7, <1>8, <1>9, <1>10, <1>11 DEF Commit
<1> QED BY <1>12 DEF Goal

\* The disjuncts of Next.
LEMMA NextCases ==
    ASSUME Next
    PROVE  \E t \in Tx : Begin(t) \/ StmtStep(t) \/ Commit(t) \/ Abort(t)
BY Zenon DEF Next, StmtStep

LEMMA BookkeepingStep ==
    ASSUME BookkeepingInv, [Next]_vars
    PROVE  BookkeepingInv' /\ maxVer <= maxVer'
<1>0. maxVer \in Nat
  BY DEF BookkeepingInv, TypeOK
<1>1. CASE UNCHANGED vars
  <2>1. Local
    <3>1. tx \in [Tx -> TxRecord] /\ tx' = tx /\ UNCHANGED kvVars
      BY <1>1 DEF vars, kvVars, BookkeepingInv, TypeOK
    <3> QED BY <3>1, Zenon DEF Local
  <2> QED BY <1>0, <2>1, LocalKeeps DEF Local, kvVars
<1>2. CASE Next
  <2>1. PICK t \in Tx : Begin(t) \/ StmtStep(t) \/ Commit(t) \/ Abort(t)
    BY <1>2, NextCases
  <2>2. CASE Begin(t)
    <3>1. maxVer' = maxVer
      BY <2>2 DEF Begin
    <3> QED BY <1>0, <2>2, <3>1, BeginKeeps
  <2>3. CASE StmtStep(t)
    <3>1. Local
      BY <2>3, StmtLocal DEF BookkeepingInv
    <3> QED BY <1>0, <3>1, LocalKeeps DEF Local, kvVars
  <2>4. CASE Commit(t) \/ Abort(t)
    <3>1. PICK outcome \in Outcomes, ver \in Nat, hist \in Seq(Entries) :
              /\ t \in Active
              /\ version <= ver /\ version' = ver /\ Ascending(hist, ver)
              /\ store' \in Maps /\ failed' \in BOOLEAN /\ unwritten' \in BOOLEAN
              /\ txFinalize(t, outcome, ver, hist)
      BY <2>4, EndIsFinalize
    <3> QED BY <3>1, FinalizeKeeps
  <2> QED BY <2>1, <2>2, <2>3, <2>4
<1> QED BY <1>1, <1>2

\* The bookkeeping of versions, open transactions and history is right in
\* every state, with any number of transactions, keys and commits, and
\* whatever part of an update fails: KV.ongoing holds exactly the versions of
\* the open transactions, history ascends and holds nothing that no open
\* transaction could conflict with.
THEOREM Bookkeeping == Spec => []BookkeepingInv
<1>1. BookkeepingInv /\ [Next]_vars => BookkeepingInv'
  BY BookkeepingStep
<1> QED BY InitBookkeeping, <1>1, PTL DEF Spec

\* Types of the KV and KVTX structs.
THEOREM TypeCorrect == Spec => []TypeOK
<1>1. BookkeepingInv => TypeOK
  BY DEF BookkeepingInv
<1> QED BY Bookkeeping, <1>1, PTL

\* KV.ongoing holds the version of each open transaction once and nothing else,
\* whatever the order they begin and end in: slices.Index never returns -1
\* (Begin, txFinalize).
THEOREM OngoingTrue == Spec => []OngoingMatches
<1>1. BookkeepingInv => OngoingMatches
  BY DEF BookkeepingInv
<1> QED BY <1>1, Bookkeeping, PTL

\* KV.history keeps no entry that no open transaction can conflict with, so it is
\* empty when the last one has ended (txFinalize).
THEOREM HistoryTrimmed == Spec => []HistoryNeeded
<1>1. BookkeepingInv => HistoryNeeded
  BY DEF BookkeepingInv
<1> QED BY <1>1, Bookkeeping, PTL

\* The free list is never released past the snapshot of an open transaction,
\* so a page such a snapshot may read is not reused, over any interleaving of
\* begins, commits, aborts and failed updates.
THEOREM SnapshotSafety == Spec => []SnapshotPagesKept
<1>1. BookkeepingInv => SnapshotPagesKept
  BY DEF BookkeepingInv, VersionsOrdered, SnapshotPagesKept
<1> QED BY Bookkeeping, <1>1, PTL

\* The release limit of the free list never moves back.
THEOREM ReleaseNeverMovesBack == Spec => ReleaseMonotone
<1>1. BookkeepingInv /\ [Next]_vars => [maxVer <= maxVer']_vars
  BY BookkeepingStep
<1> QED BY Bookkeeping, <1>1, PTL DEF Spec, ReleaseMonotone

-----------------------------------------------------------------------------
(* What validation guarantees, as long as no second fault hits the rewrite *)
(* of the meta page.                                                       *)

LEMMA NewerAllNext ==
    ASSUME TypeOK', HistoryAscending', NEW t \in Tx
    PROVE  Newer(t)' = {i \in DOMAIN history' : tx'[t].version < history'[i].version}
<1>1. /\ Len(history') \in Nat /\ DOMAIN history' = 1 .. Len(history')
      /\ history' \in [1 .. Len(history') -> Entries]
  BY LenProperties DEF TypeOK, Entries
<1>2. \A i \in DOMAIN history' : history'[i].version \in Nat
  BY <1>1 DEF Entries
<1>3. tx'[t].version \in Nat
  BY DEF TypeOK, TxRecord
<1>4. ASSUME NEW i \in DOMAIN history', tx'[t].version < history'[i].version,
             NEW j \in i .. Len(history')
      PROVE  tx'[t].version < history'[j].version
  <2>1. j \in DOMAIN history'
    BY <1>1
  <2>2. i = j \/ history'[i].version < history'[j].version
    BY <2>1, <1>1 DEF HistoryAscending
  <2> QED BY <2>1, <2>2, <1>2, <1>3, <1>4
<1>5. \A i \in DOMAIN history' : i \in i .. Len(history')
  BY <1>1
<1> QED BY <1>4, <1>5 DEF Newer, versionBefore

\* A transaction that passes validation sees current values of every key it
\* has read.
LEMMA ValidatedReadsCurrent ==
    ASSUME HistoryCovers, NEW t \in Active, ~detectConflicts(t), NEW k \in tx[t].reads \cap Keys
    PROVE  tx[t].snapshot[k] = store[k]
BY DEF HistoryCovers, detectConflicts

\* The asserts of Commit's loop hold wherever history covers the changes.
LEMMA CoverImpliesAsserts ==
    ASSUME TypeOK, PendingDepends, HistoryCovers
    PROVE  AssertsHold
<1> SUFFICES ASSUME NEW t \in Active, ~Conflicts(t) PROVE Modified(t) = TreeChanged(t)
  BY DEF AssertsHold, CommitAsserts
<1>1. t \in Tx
  BY DEF Active
<1>2. ASSUME NEW k \in Keys PROVE k \in Modified(t) <=> k \in TreeChanged(t)
  <2>1. CASE tx[t].pending[k] = NONE
    <3>1. Transfer(t)[k] = store[k]
      BY <2>1, ValsAssumption DEF Transfer
    <3> QED BY <2>1, <3>1 DEF Modified, TreeChanged
  <2>2. CASE tx[t].pending[k] # NONE
    <3>1. k \in tx[t].reads /\ ~detectConflicts(t)
      BY <1>1, <2>2 DEF PendingDepends, Conflicts
    <3>2. tx[t].snapshot[k] = store[k]
      BY <3>1, ValidatedReadsCurrent
    <3>3. Transfer(t)[k] = GetVal(t, k)
      BY <2>2 DEF Transfer, GetVal
    <3> QED BY <2>2, <3>2, <3>3 DEF Modified, TreeChanged
  <2> QED BY <2>1, <2>2
<1> QED BY <1>2 DEF Modified, TreeChanged

\* If hist holds every change behind an open transaction, so does what
\* txFinalize leaves of it.
LEMMA FinalizeCovers ==
    ASSUME BookkeepingInv, NEW t \in Active, NEW outcome \in Outcomes \ {"panic"},
           NEW ver \in Nat, version <= ver, version' = ver,
           NEW hist \in Seq(Entries), Ascending(hist, ver),
           store' \in Maps, failed' \in BOOLEAN, unwritten' \in BOOLEAN,
           txFinalize(t, outcome, ver, hist),
           Running, PendingDepends,
           \A u \in Active \ {t}, k \in Keys : tx[u].snapshot[k] # store'[k] =>
               \E i \in DOMAIN hist : tx[u].version < hist[i].version /\ k \in hist[i].writes
    PROVE  Running' /\ PendingDepends' /\ HistoryCovers'
<1>1. /\ BookkeepingInv'
      /\ Active' = Active \ {t}
      /\ tx'[t] = Closed(outcome)
      /\ \A u \in Tx \ {t} : tx'[u] = tx[u]
      /\ \A i \in DOMAIN hist, u \in Active' :
            tx[u].version < hist[i].version => \E j \in DOMAIN history' : history'[j] = hist[i]
  BY FinalizeKeeps
<1>2. Running'
  <2>1. tx'[t].status # "panic"
    BY <1>1 DEF Closed
  <2> QED BY <1>1, <2>1 DEF Running
<1>3. PendingDepends'
  <2>1. \A k \in Keys : tx'[t].pending[k] = NONE /\ tx'[t].saved.pending[k] = NONE
    BY <1>1 DEF Closed, NotSaved, NoKeys
  <2> SUFFICES ASSUME NEW u \in Tx, NEW k \in Keys
               PROVE  /\ tx'[u].pending[k] # NONE => k \in tx'[u].reads /\ tx'[u].updateAttempted
                      /\ tx'[u].saved.pending[k] # NONE
                            => k \in tx'[u].saved.reads /\ tx'[u].updateAttempted
    BY Zenon DEF PendingDepends
  <2>2. CASE u = t
    BY <2>1, <2>2
  <2>3. CASE u # t
    <3>1. tx'[u] = tx[u]
      BY <1>1, <2>3
    <3> QED BY <3>1, Zenon DEF PendingDepends
  <2> QED BY <2>2, <2>3
<1>4. HistoryCovers'
  <2> SUFFICES ASSUME NEW u \in Active', NEW k \in Keys, tx'[u].snapshot[k] # store'[k]
               PROVE  \E j \in Newer(u)' : k \in history'[j].writes
    BY DEF HistoryCovers
  <2>1. u \in Active \ {t} /\ u \in Tx /\ tx'[u] = tx[u]
    BY <1>1 DEF Active
  <2>2. PICK i \in DOMAIN hist : tx[u].version < hist[i].version /\ k \in hist[i].writes
    BY <2>1
  <2>3. PICK j \in DOMAIN history' : history'[j] = hist[i]
    BY <1>1, <2>2
  <2>4. Newer(u)' = {n \in DOMAIN history' : tx'[u].version < history'[n].version}
    BY <1>1, <2>1, NewerAllNext DEF BookkeepingInv
  <2> QED BY <2>1, <2>2, <2>3, <2>4
<1> QED BY <1>2, <1>3, <1>4

\* A statement leaves no pending entry without its read range; Revert takes
\* entry and range back together.
LEMMA StmtDepends ==
    ASSUME TypeOK, PendingDepends, NEW t \in Tx, StmtStep(t)
    PROVE  PendingDepends'
<1> DEFINE Dep(r) == \A k \in Keys :
              /\ r.pending[k] # NONE => k \in r.reads /\ r.updateAttempted
              /\ r.saved.pending[k] # NONE => k \in r.saved.reads /\ r.updateAttempted
<1>1. tx \in [Tx -> TxRecord] /\ tx[t] \in TxRecord
  BY DEF TypeOK
<1>2. Dep(tx[t])
  BY Zenon DEF PendingDepends
<1>3. SUFFICES Dep(tx'[t])
  <2>1. ASSUME NEW u \in Tx, u # t PROVE Dep(tx'[u])
    <3>1. tx'[u] = tx[u]
      BY <2>1, StmtLocal
    <3> QED BY <3>1, Zenon DEF PendingDepends
  <2> HIDE DEF Dep
  <2>2. ASSUME Dep(tx'[t]), NEW u \in Tx PROVE Dep(tx'[u])
    <3>1. CASE u = t
      BY <2>2, <3>1
    <3>2. CASE u # t
      BY <2>1, <3>2
    <3> QED BY <3>1, <3>2
  <2> QED BY <2>2, Zenon DEF PendingDepends, Dep
<1>4. ASSUME Save(t) PROVE Dep(tx'[t])
  BY <1>1, <1>2, <1>4 DEF Save, TxRecord
<1>5. ASSUME EndStmt(t) PROVE Dep(tx'[t])
  BY <1>1, <1>2, <1>5 DEF EndStmt, TxRecord, NotSaved, NoKeys
<1>6. ASSUME Revert(t) PROVE Dep(tx'[t])
  BY <1>1, <1>2, <1>6 DEF Revert, TxRecord, NotSaved, NoKeys
<1>7. ASSUME NEW k \in Keys, Get(t, k) PROVE Dep(tx'[t])
  BY <1>1, <1>2, <1>7 DEF Get, TxRecord
<1>8. ASSUME NEW k \in Keys, Del(t, k) PROVE Dep(tx'[t])
  <2>1. /\ tx'[t].updateAttempted = TRUE
        /\ tx'[t].reads = tx[t].reads \cup {k}
        /\ tx'[t].saved = tx[t].saved
        /\ \A x \in Keys \ {k} : tx'[t].pending[x] = tx[t].pending[x]
    BY <1>1, <1>8 DEF Del, TxRecord, Pending
  <2> QED BY <1>2, <2>1
<1>9. ASSUME NEW low \in Keys, NEW high \in Keys, Seek(t, low, high) PROVE Dep(tx'[t])
  BY <1>1, <1>2, <1>9 DEF Seek, TxRecord
<1>10. ASSUME NEW k \in Keys, NEW v \in Vals,
              NEW mode \in {"UPSERT", "UPDATE_ONLY", "INSERT_ONLY"}, Update(t, k, v, mode)
       PROVE  Dep(tx'[t])
  <2>1. /\ tx'[t].updateAttempted = TRUE
        /\ tx'[t].reads = tx[t].reads \cup {k}
        /\ tx'[t].saved = tx[t].saved
        /\ \A x \in Keys \ {k} : tx'[t].pending[x] = tx[t].pending[x]
    BY <1>1, <1>10 DEF Update, TxRecord, Pending
  <2> QED BY <1>2, <2>1
<1> HIDE DEF Dep
<1> QED BY <1>4, <1>5, <1>6, <1>7, <1>8, <1>9, <1>10 DEF StmtStep

LEMMA InitData == Init => DataInv
<1> SUFFICES ASSUME Init PROVE DataInv
  OBVIOUS
<1>1. BookkeepingInv
  BY InitBookkeeping
<1>2. Active = {}
  BY DEF Init, Active, Closed
<1>3. ~unwritten /\ Running /\ HistoryCovers
  BY <1>2 DEF Init, Running, Closed, HistoryCovers
<1>4. PendingDepends
  BY DEF Init, PendingDepends, Closed, NotSaved, NoKeys
<1> QED BY <1>1, <1>3, <1>4 DEF DataInv

\* Commits and aborts, by outcome.
LEMMA EndKeepsData ==
    ASSUME "rewrite" \notin IOFaults, DataInv, NEW t \in Tx, Commit(t) \/ Abort(t)
    PROVE  ~unwritten' /\ Running' /\ PendingDepends' /\ HistoryCovers'
<1>1. /\ BookkeepingInv /\ TypeOK /\ HistoryAscending /\ ~unwritten /\ Running
      /\ PendingDepends /\ HistoryCovers
  BY DEF DataInv, BookkeepingInv
<1>2. /\ version \in Nat /\ version + 1 \in Nat /\ version <= version /\ version <= version + 1
      /\ store \in Maps /\ failed \in BOOLEAN /\ unwritten \in BOOLEAN
  BY <1>1 DEF TypeOK
<1>3. /\ history \in Seq(Entries) /\ Ascending(history, version)
      /\ CommitHistory(t) \in Seq(Entries) /\ Ascending(CommitHistory(t), version + 1)
  BY <1>1, CommitHistoryAscending
<1>4. \A u \in Active \ {t}, k \in Keys : tx[u].snapshot[k] # store[k] =>
          \E i \in DOMAIN history : tx[u].version < history[i].version /\ k \in history[i].writes
  <2>1. \A u \in Active : Newer(u) = {i \in DOMAIN history : tx[u].version < history[i].version}
    BY <1>1, NewerAll DEF Active
  <2> QED BY <1>1, <2>1 DEF HistoryCovers
<1>5. t \in Active
  BY DEF Commit, Abort, CommitConflict, CommitPanic, CommitNoChange, CommitOk,
         CommitUpdateError, CommitRewriteError, Writing, InCommit
\* The store stays as it was: history is enough as it is.
<1>6. ASSUME NEW outcome \in Outcomes \ {"panic"}, txFinalize(t, outcome, version, history),
             store' = store, version' = version, failed' \in BOOLEAN, unwritten' = FALSE
      PROVE  ~unwritten' /\ Running' /\ PendingDepends' /\ HistoryCovers'
  <2>1. Running' /\ PendingDepends' /\ HistoryCovers'
    <3>1. store' \in Maps /\ unwritten' \in BOOLEAN
      BY <1>2, <1>6
    <3>2. \A u \in Active \ {t}, k \in Keys : tx[u].snapshot[k] # store'[k] =>
          \E i \in DOMAIN history : tx[u].version < history[i].version /\ k \in history[i].writes
      BY <1>4, <1>6
    <3> QED BY <1>1, <1>2, <1>3, <1>5, <1>6, <3>1, <3>2, FinalizeCovers
  <2> QED BY <1>6, <2>1
<1>7. {"committed", "conflict", "error", "aborted"} \subseteq Outcomes \ {"panic"}
  BY DEF Outcomes
<1>8. CASE CommitConflict(t)
  BY <1>1, <1>2, <1>6, <1>7, <1>8 DEF CommitConflict
<1>9. CASE CommitPanic(t)
  <2>1. AssertsHold
    BY <1>1, CoverImpliesAsserts
  <2> QED BY <1>5, <1>9, <2>1 DEF CommitPanic, AssertsHold
<1>10. CASE CommitNoChange(t)
  BY <1>1, <1>2, <1>6, <1>7, <1>10 DEF CommitNoChange
<1>11. CASE CommitUpdateError(t)
  <2>1. /\ store' = store /\ version' = version /\ failed' = TRUE /\ unwritten' = FALSE
        /\ txFinalize(t, "error", version, history)
    BY <1>1, <1>11 DEF CommitUpdateError
  <2> QED BY <1>6, <1>7, <2>1
<1>12. CASE CommitRewriteError(t)
  BY <1>12 DEF CommitRewriteError
<1>13. CASE Abort(t)
  BY <1>1, <1>2, <1>6, <1>7, <1>13 DEF Abort
\* The changed keys are in the entry appended, since another transaction
\* that could miss them is open.
<1>14. CASE CommitOk(t)
  <2>1. /\ store' = Transfer(t) /\ version' = version + 1 /\ failed' = FALSE
        /\ unwritten' = FALSE /\ CommitAsserts(t)
        /\ txFinalize(t, "committed", version + 1, CommitHistory(t))
    BY <1>14 DEF CommitOk, CommitHistory, Writing, Valid
  <2>2. store' \in Maps /\ failed' \in BOOLEAN /\ unwritten' \in BOOLEAN
    <3>1. \A k \in Keys : store[k] \in Vals \cup {NONE}
                         /\ tx[t].pending[k] \in Vals \cup {NONE, DELETED}
      BY <1>1 DEF TypeOK, TxRecord, Maps, Pending
    <3> QED BY <2>1, <3>1 DEF Transfer, Maps
  <2>3. ASSUME NEW u \in Active \ {t}, NEW k \in Keys, tx[u].snapshot[k] # store'[k]
        PROVE  \E i \in DOMAIN CommitHistory(t) :
                  tx[u].version < CommitHistory(t)[i].version /\ k \in CommitHistory(t)[i].writes
    <3> DEFINE n == Len(history)
               e == [version |-> version + 1, writes |-> Writes(t)]
    <3>1. n \in Nat /\ DOMAIN history = 1 .. n
      BY <1>3, LenProperties
    <3>2. e \in Entries
      BY <1>2 DEF Entries, Writes, Modified
    <3> HIDE DEF e
    <3>3. Writes(t) # {} => /\ CommitHistory(t) = Append(history, e)
                            /\ DOMAIN CommitHistory(t) = 1 .. n + 1
                            /\ \A i \in 1 .. n : CommitHistory(t)[i] = history[i]
                            /\ CommitHistory(t)[n + 1] = e
      <4>1. /\ Append(history, e) \in Seq(Entries) /\ Len(Append(history, e)) = n + 1
            /\ \A i \in 1 .. n : Append(history, e)[i] = history[i]
            /\ Append(history, e)[n + 1] = e
        BY <1>3, <3>2, AppendProperties
      <4>2. DOMAIN Append(history, e) = 1 .. n + 1
        BY <4>1, LenProperties
      <4>3. Writes(t) # {} => CommitHistory(t) = Append(history, e)
        BY DEF CommitHistory, e
      <4> QED BY <4>1, <4>2, <4>3
    <3>4. CASE store'[k] = store[k]
      <4>1. PICK i \in 1 .. n : tx[u].version < history[i].version /\ k \in history[i].writes
        BY <1>4, <2>3, <3>1, <3>4
      <4>2. CASE Writes(t) = {}
        BY <3>1, <4>1, <4>2 DEF CommitHistory
      <4>3. CASE Writes(t) # {}
        <5>1. i \in 1 .. n + 1 /\ CommitHistory(t)[i] = history[i]
          BY <3>1, <3>3, <4>3
        <5> QED BY <3>3, <4>1, <4>3, <5>1
      <4> QED BY <4>2, <4>3
    <3>5. CASE store'[k] # store[k]
      <4>1. k \in Modified(t)
        BY <2>1, <3>5 DEF CommitAsserts, TreeChanged
      <4>2. Len(ongoing) > 1
        <5> DEFINE base == [x \in Tx |-> tx[x].version]
        <5>1. ongoing \in Seq(Nat) /\ Owned(ongoing, Active, base)
          BY <1>1 DEF TypeOK, BookkeepingInv, OngoingMatches
        <5> HIDE DEF base
        <5> QED BY <1>5, <2>3, <5>1, OwnedMembers
      <4>3. k \in Writes(t)
        BY <4>1, <4>2 DEF Writes
      <4>4. tx[u].version \in Nat /\ tx[u].version <= version
        BY <1>1 DEF BookkeepingInv, VersionsOrdered, Active, TypeOK, TxRecord
      <4>5. tx[u].version < e.version /\ k \in e.writes
        BY <1>2, <4>3, <4>4 DEF e
      <4>6. n + 1 \in 1 .. n + 1
        BY <3>1
      <4> QED BY <3>3, <4>3, <4>5, <4>6
    <3> QED BY <3>4, <3>5
  <2>4. Running' /\ PendingDepends' /\ HistoryCovers'
    BY <1>1, <1>2, <1>3, <1>5, <1>7, <2>1, <2>2, <2>3, FinalizeCovers
  <2> QED BY <2>1, <2>4
<1> QED BY <1>8, <1>9, <1>10, <1>11, <1>12, <1>13, <1>14 DEF Commit

LEMMA DataStep ==
    ASSUME "rewrite" \notin IOFaults, DataInv, [Next]_vars
    PROVE  DataInv'
<1>1. /\ BookkeepingInv /\ TypeOK /\ ~unwritten /\ Running /\ PendingDepends /\ HistoryCovers
  BY DEF DataInv, BookkeepingInv
<1>2. BookkeepingInv'
  BY <1>1, BookkeepingStep
<1>3. CASE UNCHANGED vars
  <2>1. ~unwritten' /\ Running' /\ PendingDepends'
    BY <1>1, <1>3 DEF vars, Running, PendingDepends
  <2>2. HistoryCovers'
    BY <1>1, <1>3 DEF vars, HistoryCovers, Active, Newer
  <2> QED BY <1>2, <2>1, <2>2 DEF DataInv
<1>4. CASE Next
  <2>1. PICK t \in Tx : Begin(t) \/ StmtStep(t) \/ Commit(t) \/ Abort(t)
    BY <1>4, NextCases
  <2>2. CASE Begin(t)
    <3>1. /\ t \notin Active /\ Active' = Active \cup {t}
          /\ \A u \in Tx \ {t} : tx'[u] = tx[u]
          /\ tx'[t] = Opened(store)
      BY <1>1, <2>2, BeginKeeps
    <3>2. store' = store /\ history' = history /\ unwritten' = unwritten
      BY <2>2 DEF Begin
    <3>3. /\ tx'[t].status = "active" /\ tx'[t].snapshot = store
          /\ \A k \in Keys : tx'[t].pending[k] = NONE /\ tx'[t].saved.pending[k] = NONE
      BY <3>1 DEF Opened, Closed, NotSaved, NoKeys
    <3>4. Running'
      BY <1>1, <3>1, <3>3 DEF Running
    <3>5. PendingDepends'
      <4> SUFFICES ASSUME NEW u \in Tx, NEW k \in Keys
               PROVE  /\ tx'[u].pending[k] # NONE => k \in tx'[u].reads /\ tx'[u].updateAttempted
                      /\ tx'[u].saved.pending[k] # NONE
                            => k \in tx'[u].saved.reads /\ tx'[u].updateAttempted
        BY Zenon DEF PendingDepends
      <4>1. CASE u = t
        BY <3>3, <4>1
      <4>2. CASE u # t
        <5>1. tx'[u] = tx[u]
          BY <3>1, <4>2
        <5> QED BY <1>1, <5>1, Zenon DEF PendingDepends
      <4> QED BY <4>1, <4>2
    <3>6. HistoryCovers'
      <4> SUFFICES ASSUME NEW u \in Active', NEW k \in Keys, tx'[u].snapshot[k] # store'[k]
                   PROVE  \E i \in Newer(u)' : k \in history'[i].writes
        BY DEF HistoryCovers
      <4>1. u # t
        BY <3>2, <3>3
      <4>2. u \in Active /\ u \in Tx /\ tx'[u] = tx[u]
        BY <3>1, <4>1 DEF Active
      <4>3. Newer(u)' = Newer(u)
        BY <3>2, <4>2 DEF Newer, versionBefore
      <4> QED BY <1>1, <3>2, <4>2, <4>3 DEF HistoryCovers
    <3> QED BY <1>1, <1>2, <3>2, <3>4, <3>5, <3>6 DEF DataInv
  <2>3. CASE StmtStep(t)
    <3>1. Local
      BY <1>1, <2>3, StmtLocal
    <3>2. HistoryCovers' /\ PendingDepends'
      BY <1>1, <2>3, <3>1, LocalKeeps, StmtDepends
    <3>3. Running' /\ ~unwritten'
      BY <1>1, <3>1 DEF Local, kvVars, Running
    <3> QED BY <1>2, <3>2, <3>3 DEF DataInv
  <2>4. CASE Commit(t) \/ Abort(t)
    BY <1>2, <2>4, EndKeepsData DEF DataInv
  <2> QED BY <2>1, <2>2, <2>3, <2>4
<1> QED BY <1>3, <1>4

\* Without a second fault while the meta page is rewritten, history covers
\* every change behind an open transaction, for any number of transactions,
\* keys and commits and any number of failed updates: what passes validation
\* has read current data only.
THEOREM ValidationSound ==
    ASSUME "rewrite" \notin IOFaults
    PROVE  Spec => []HistoryCovers
<1>1. DataInv /\ [Next]_vars => DataInv'
  BY DataStep
<1>2. DataInv => HistoryCovers
  BY DEF DataInv
<1> QED BY InitData, <1>1, <1>2, PTL DEF Spec

\* Under the same assumption the asserts in Commit's loop never fail.
THEOREM CommitNeverPanics ==
    ASSUME "rewrite" \notin IOFaults
    PROVE  Spec => []AssertsHold
<1>1. DataInv /\ [Next]_vars => DataInv'
  BY DataStep
<1>2. DataInv => AssertsHold
  BY CoverImpliesAsserts DEF DataInv, BookkeepingInv
<1> QED BY InitData, <1>1, <1>2, PTL DEF Spec
=============================================================================
